--------------------------- MODULE NightlyRunProofs ---------------------------
(***************************************************************************)
(* Proofs about NightlyRun for any schedule of ingests: what nightly.sh    *)
(* publishes and starts, the exit status it leaves with, and what the      *)
(* audit rows of a run say of the ingests it called.                       *)
(***************************************************************************)
EXTENDS NightlyRun, FiniteSetTheorems, SequenceTheorems, TLAPS

\* The part of the types the argument needs.
Shape ==
  /\ stage \in {"idle", "passA", "passB", "roll", "tail", "promote", "exit"}
  /\ orch \in {"off", "connect", "loop", "log", "bump", "probe", "abort"}
  /\ exit \in [Passes -> {0, Partial, Aborted, NoExit}]
  /\ exitCode \in {0, Partial, Aborted, NoExit} /\ finalExit \in {0, Partial, Aborted, NoExit}
  /\ run \in [Passes -> [status : {"none", "running", "success", "partial", "failed"},
                         count : Nat, failed : Nat]]
  /\ served \in [by : {"nobody", "nightly", "timer"},
                 after : SUBSET Passes, cut : SUBSET Passes]
  /\ cut \subseteq Passes /\ alive \in BOOLEAN

\* An orchestrator runs only for the pass nightly.sh waits for.
Waiting == orch # "off" => stage \in {"passA", "passB"} /\ exit[Pass] = NoExit

\* The passes have ended in their order by the time the script moves on.
InOrder ==
  /\ stage = "passA" => exit["B"] = NoExit
  /\ stage = "passB" => exit["A"] # NoExit
  /\ stage \in {"roll", "tail", "promote", "exit"} =>
       exit["A"] # NoExit /\ exit["B"] # NoExit

\* Exit status 0 is left by end_run alone.
ZeroIsSuccess == \A p \in Passes : exit[p] = 0 => run[p].status = "success"

\* A run that was cut is still running on its dead connection, or has left
\* with a status of a hard abort; a reboot ends the night.
CutIsKnown ==
  /\ orch = "loop" => alive = TRUE
  /\ stage = "idle" \/
     \A p \in cut :
       \/ exit[p] = Aborted
       \/ orch \in {"log", "bump", "probe", "abort"} /\ Pass = p /\ alive = FALSE

\* What the script has decided so far.
Decided ==
  /\ stage \in {"tail", "promote"} => \A p \in Passes : exit[p] # Aborted
  /\ stage \in {"tail", "promote", "exit"} => exitCode = Rolled
  /\ stage # "idle" => finalExit = NoExit
  /\ kicked = TRUE => stage \in {"exit", "idle"} /\ exit["A"] # NoExit /\ exit["B"] # NoExit
  /\ kicked \in BOOLEAN /\ degraded \in BOOLEAN

\* Where the night stands, and what it has published.
Flow ==
  /\ Shape /\ Waiting /\ InOrder /\ ZeroIsSuccess /\ CutIsKnown /\ Decided
  /\ NoCutRunPublished /\ KickReadsTonight /\ ExitZeroIsClean

\* The registrations a run has before it, without repetition, all of its pass.
\* The first of them is the one at hand from the call to the probe.
TodoIsAhead ==
  /\ todo \in Seq(Ingests) /\ IsInjective(todo)
  /\ attempted \subseteq Ingests
  /\ outcome \in {"success", "failed"} /\ failures \in Nat
  /\ orch \notin {"off", "connect"} => Range(todo) \subseteq Range(Schedule[Pass])
  /\ orch = "loop" => attempted \cap Range(todo) = {}
  /\ orch \in {"log", "bump", "probe"} =>
       todo # <<>> /\ attempted \cap Range(todo) = {Ingest}

\* The audit of a run is empty until the run starts, and names only ingests
\* that were called.
AuditBegins ==
  /\ row \in [Passes -> [Ingests -> {"none", "success", "failed"}]]
  /\ \A p \in Passes : \A i \in Ingests :
       row[p][i] # "none" => i \in attempted \cap Range(Schedule[p])
  /\ \A p \in Passes : run[p].status = "none" => attempted \cap Range(Schedule[p]) = {}
  /\ stage = "passA" => run["B"].status = "none"
  /\ stage \in {"passA", "passB"} /\ exit[Pass] = NoExit =>
       run[Pass].status = IF orch \in {"off", "connect"} THEN "none" ELSE "running"

\* While an ingest is being logged its row is ahead of the counters.
BumpIsDue ==
  orch = "bump" =>
    /\ run[Pass].count < Cardinality(Rows(Pass, "success") \cup Rows(Pass, "failed"))
    /\ outcome = "failed" => run[Pass].failed < Cardinality(Rows(Pass, "failed"))

\* A run without a failure so far has logged every ingest it called, but the
\* one at hand.
Called == attempted \cap Range(Schedule[Pass])

SoFarWhole ==
  /\ orch \in {"loop", "probe", "log", "bump"} /\ failures = 0
  /\ orch \in {"log", "bump"} => outcome = "success"
  =>
  /\ Rows(Pass, "failed") = {} /\ run[Pass].failed = 0
  /\ Rows(Pass, "success") = IF orch = "log" THEN Called \ {Ingest} ELSE Called
  /\ Cardinality(Rows(Pass, "success")) =
       IF orch = "bump" THEN run[Pass].count + 1 ELSE run[Pass].count

\* Failures are counted once per ingest.
FailuresBounded ==
  /\ orch \in {"loop", "probe"} => failures <= Cardinality(attempted)
  /\ orch \in {"log", "bump"} => failures < Cardinality(attempted)
  /\ failures <= Cardinality(Ingests)

\* What the rows and counters say of the ingests called.
Audit ==
  /\ TodoIsAhead /\ AuditBegins
  /\ CountersNeverAhead /\ BumpIsDue
  /\ SuccessIsWhole /\ SoFarWhole
  /\ FailuresBounded

\* The inductive invariant.
IInv == Flow /\ Audit

-----------------------------------------------------------------------------
(* Sequences and finite sets.                                              *)

\* What is left when the first element of an injective sequence is taken.
LEMMA TailShrinks ==
  ASSUME NEW S, NEW s \in Seq(S), s # <<>>, IsInjective(s)
  PROVE  /\ Tail(s) \in Seq(S) /\ IsInjective(Tail(s))
         /\ Head(s) \in Range(s)
         /\ Range(Tail(s)) = Range(s) \ {Head(s)}
<1>1. Len(s) \in Nat \ {0} /\ DOMAIN s = 1 .. Len(s) /\ Head(s) = s[1]
  BY SMT
<1>2. /\ Tail(s) \in Seq(S) /\ DOMAIN Tail(s) = 1 .. Len(s) - 1
      /\ \A i \in 1 .. Len(s) - 1 : Tail(s)[i] = s[i + 1]
  BY <1>1, SMT
<1>3. IsInjective(Tail(s))
  BY <1>1, <1>2, SMT DEF IsInjective
<1>4. Head(s) \in Range(s)
  BY <1>1, SMT DEF Range
<1>5. Range(Tail(s)) \subseteq Range(s) \ {Head(s)}
  BY <1>1, <1>2, SMT DEF Range, IsInjective
<1>6. Range(s) \ {Head(s)} \subseteq Range(Tail(s))
  <2> SUFFICES ASSUME NEW i \in 1 .. Len(s), s[i] # s[1]
               PROVE s[i] \in Range(Tail(s))
    BY <1>1 DEF Range
  <2>1. i - 1 \in DOMAIN Tail(s) /\ Tail(s)[i - 1] = s[i]
    BY <1>1, <1>2, SMT
  <2> QED BY <2>1 DEF Range
<1> QED BY <1>2, <1>3, <1>4, <1>5, <1>6

\* An injective sequence with one element taken out.
LEMMA RemoveAtShrinks ==
  ASSUME NEW S, NEW s \in Seq(S), IsInjective(s), NEW n \in DOMAIN s
  PROVE  /\ RemoveAt(s, n) \in Seq(S) /\ IsInjective(RemoveAt(s, n))
         /\ Range(RemoveAt(s, n)) \subseteq Range(s)
<1> DEFINE before == SubSeq(s, 1, n - 1)
           after  == SubSeq(s, n + 1, Len(s))
           r      == RemoveAt(s, n)
<1>1. Len(s) \in Nat /\ DOMAIN s = 1 .. Len(s) /\ n \in 1 .. Len(s)
  BY SMT
<1>2. /\ before \in Seq(S) /\ Len(before) = n - 1
      /\ \A i \in 1 .. n - 1 : before[i] = s[i]
  BY <1>1, SMT
<1>3. /\ after \in Seq(S) /\ Len(after) = Len(s) - n
      /\ \A i \in 1 .. Len(s) - n : after[i] = s[i + n]
  BY <1>1, SMT
<1>4. r = before \o after
  BY DEF RemoveAt
<1> HIDE DEF before, after, r
<1>5. /\ r \in Seq(S) /\ Len(r) = Len(s) - 1
      /\ \A i \in 1 .. Len(s) - 1 :
           r[i] = IF i <= n - 1 THEN before[i] ELSE after[i - (n - 1)]
  <2>1. /\ before \o after \in Seq(S) /\ Len(before \o after) = Len(before) + Len(after)
        /\ \A i \in 1 .. Len(before) + Len(after) :
             (before \o after)[i] =
               IF i <= Len(before) THEN before[i] ELSE after[i - Len(before)]
    BY <1>2, <1>3, ConcatProperties
  <2>2. Len(before) + Len(after) = Len(s) - 1
    BY <1>1, <1>2, <1>3, SMT
  <2> QED BY <1>2, <1>4, <2>1, <2>2
<1>6. \A i \in 1 .. Len(s) - 1 : r[i] = IF i < n THEN s[i] ELSE s[i + 1]
  <2> SUFFICES ASSUME NEW i \in 1 .. Len(s) - 1
               PROVE r[i] = IF i < n THEN s[i] ELSE s[i + 1]
    OBVIOUS
  <2>1. CASE i < n
    BY <1>1, <1>2, <1>5, <2>1, SMT
  <2>2. CASE i >= n
    <3>1. i - (n - 1) \in 1 .. Len(s) - n /\ i - (n - 1) + n = i + 1
      BY <1>1, <2>2, SMT
    <3>2. r[i] = after[i - (n - 1)]
      BY <1>1, <1>5, <2>2, SMT
    <3>3. after[i - (n - 1)] = s[i - (n - 1) + n]
      BY <1>3, <3>1
    <3> QED BY <1>1, <2>2, <3>1, <3>2, <3>3, SMT
  <2> QED BY <1>1, <2>1, <2>2, SMT
<1>7. DOMAIN r = 1 .. Len(s) - 1
  BY <1>5, SMT
<1>8. IsInjective(r)
  <2> SUFFICES ASSUME NEW i \in 1 .. Len(s) - 1, NEW j \in 1 .. Len(s) - 1, r[i] = r[j]
               PROVE i = j
    BY <1>7 DEF IsInjective
  <2>1. \A k, m \in 1 .. Len(s) : s[k] = s[m] => k = m
    BY <1>1 DEF IsInjective
  <2> QED BY <1>1, <1>6, <2>1, SMT
<1>9. ASSUME NEW i \in 1 .. Len(s) - 1 PROVE r[i] \in Range(s)
  <2>1. \E k \in 1 .. Len(s) : r[i] = s[k]
    BY <1>1, <1>6, SMT
  <2> QED BY <1>1, <2>1 DEF Range
<1>10. Range(r) \subseteq Range(s)
  BY <1>7, <1>9 DEF Range
<1> QED BY <1>5, <1>8, <1>10 DEF r

\* There are finitely many ingests, and each pass schedules some of them.
LEMMA IngestsFinite ==
  /\ IsFiniteSet(Ingests)
  /\ \A p \in Passes : Schedule[p] \in Seq(Ingests) /\ Range(Schedule[p]) \subseteq Ingests
<1>1. ASSUME NEW p \in Passes PROVE IsFiniteSet(Range(Schedule[p]))
  <2>1. Schedule[p] \in Seq(STRING)
    BY ScheduleAssumption
  <2>2. Schedule[p] \in Surjection(1 .. Len(Schedule[p]), Range(Schedule[p]))
    BY <2>1, SMT DEF Surjection, Range
  <2>3. IsFiniteSet(1 .. Len(Schedule[p]))
    BY <2>1, FS_Interval
  <2> QED BY <2>2, <2>3, FS_Surjection
<1>2. Ingests = Range(Schedule["A"]) \cup Range(Schedule["B"])
  BY DEF Ingests, Passes
<1>3. IsFiniteSet(Ingests)
  BY <1>1, <1>2, FS_Union DEF Passes
<1>4. ASSUME NEW p \in Passes
      PROVE Schedule[p] \in Seq(Ingests) /\ Range(Schedule[p]) \subseteq Ingests
  <2>1. Schedule[p] \in Seq(STRING) /\ Range(Schedule[p]) \subseteq Ingests
    BY ScheduleAssumption DEF Ingests
  <2> QED BY <2>1, SMT DEF Range
<1> QED BY <1>3, <1>4

-----------------------------------------------------------------------------
(* The night: what the script knows of its passes.                         *)

\* Nothing has run, ended or been published.
LEMMA InitFlow == Init => Flow
<1> SUFFICES ASSUME Init PROVE Flow
  OBVIOUS
<1> USE DEF Init, Passes, NoExit, Partial, Aborted
<1>1. /\ stage = "idle" /\ orch = "off" /\ cut = {}
      /\ exit = [p \in Passes |-> NoExit] /\ finalExit = NoExit
      /\ kicked = FALSE /\ degraded = FALSE
      /\ run = [p \in Passes |-> [status |-> "none", count |-> 0, failed |-> 0]]
  BY DEF NoExits, NoRuns, NoRun
<1>2. Shape
  BY <1>1, SMT DEF Shape
<1>3. Waiting /\ InOrder /\ CutIsKnown
  BY <1>1, SMT DEF Waiting, InOrder, CutIsKnown
<1>6. Decided
  <2>1. kicked \in BOOLEAN /\ degraded \in BOOLEAN
    BY <1>1
  <2>2. ~kicked
    BY <1>1
  <2>3. kicked # TRUE
    BY <1>1
  <2>4. stage # "tail" /\ stage # "promote" /\ stage # "exit"
    BY <1>1
  <2> QED BY <1>1, <2>1, <2>3, <2>4, Zenon DEF Decided
<1>5. ZeroIsSuccess
  BY <1>1, SMT DEF ZeroIsSuccess
<1>7. NoCutRunPublished
  BY DEF NoCutRunPublished
<1>8. KickReadsTonight
  BY <1>1 DEF KickReadsTonight
<1>9. ExitZeroIsClean
  BY <1>1 DEF ExitZeroIsClean
<1> QED BY <1>2, <1>3, <1>5, <1>6, <1>7, <1>8, <1>9 DEF Flow

\* A statement leaves the connection alive, or cuts the run of its pass.
LEMMA PoisonCuts ==
  ASSUME alive \in BOOLEAN, MayPoison
  PROVE  \/ alive = TRUE /\ alive' = TRUE /\ cut' = cut
         \/ alive' = FALSE /\ cut' = cut \cup {Pass}
<1>1. alive' \in {alive, FALSE} /\ cut' = IF alive' THEN cut ELSE cut \cup {Pass}
  BY DEF MayPoison
<1>2. CASE alive' = FALSE
  BY <1>1, <1>2
<1>3. CASE alive' = alive /\ alive = TRUE
  <2>1. alive'
    BY <1>3
  <2> QED BY <1>1, <1>3, <2>1
<1> QED BY <1>1, <1>2, <1>3

\* A statement of a run, whatever it does to the connection.
LEMMA StatementFlow ==
  ASSUME Flow, UNCHANGED <<nightVars, exit, run, served>>,
         orch \in {"loop", "log", "bump"}, orch' \in {"log", "probe"}, MayPoison
  PROVE  Flow'
<1> USE DEF Passes, NoExit, Partial, Aborted, nightVars
<1>1. /\ Shape /\ Waiting /\ InOrder /\ ZeroIsSuccess /\ CutIsKnown /\ Decided
      /\ NoCutRunPublished /\ KickReadsTonight /\ ExitZeroIsClean
  BY DEF Flow
<1>2. stage \in {"passA", "passB"} /\ exit[Pass] = NoExit /\ Pass \in Passes
  BY <1>1, SMT DEF Waiting, Pass
<1>3. /\ stage' = stage /\ exit' = exit /\ run' = run /\ served' = served
      /\ exitCode' = exitCode /\ degraded' = degraded /\ finalExit' = finalExit
      /\ kicked' = kicked /\ Pass' = Pass
  BY DEF Pass
<1>4. \/ alive = TRUE /\ alive' = TRUE /\ cut' = cut
      \/ alive' = FALSE /\ cut' = cut \cup {Pass}
  BY <1>1, PoisonCuts DEF Shape
<1>5. alive' \in BOOLEAN /\ cut' \subseteq Passes
  BY <1>1, <1>2, <1>4 DEF Shape
<1>6. Shape'
  BY <1>1, <1>3, <1>5, SMT DEF Shape
<1>7. Waiting' /\ InOrder'
  BY <1>1, <1>2, <1>3, SMT DEF Waiting, InOrder
<1>8. ZeroIsSuccess'
  BY <1>1, <1>3, SMT DEF ZeroIsSuccess
<1>9. CutIsKnown'
  <2>1. CASE alive' = TRUE /\ alive = TRUE /\ cut' = cut
    BY <1>1, <1>2, <1>3, <2>1, SMT DEF CutIsKnown
  <2>2. CASE alive' = FALSE /\ cut' = cut \cup {Pass}
    BY <1>1, <1>2, <1>3, <2>2, SMT DEF CutIsKnown
  <2> QED BY <1>4, <2>1, <2>2
<1>10. Decided'
  BY <1>1, <1>2, <1>3, SMT DEF Decided, Rolled
<1>11. (NoCutRunPublished /\ KickReadsTonight)'
  BY <1>1, <1>3 DEF NoCutRunPublished, KickReadsTonight
<1>12. ExitZeroIsClean'
  BY <1>1, <1>3 DEF ExitZeroIsClean
<1> QED BY <1>6, <1>7, <1>8, <1>9, <1>10, <1>11, <1>12 DEF Flow

\* A new night starts from nothing but the serving snapshot.
LEMMA StartNightFlow == ASSUME Flow, StartNight PROVE Flow'
<1> USE DEF Passes, NoExit, Partial, Aborted
<1>1. Shape /\ Waiting /\ NoCutRunPublished
  BY DEF Flow
<1>2. /\ stage = "idle" /\ stage' = "passA" /\ orch' = orch /\ cut' = {}
      /\ kicked' = FALSE /\ degraded' = FALSE /\ finalExit' = NoExit /\ exitCode' = NoExit
      /\ exit' = [p \in Passes |-> NoExit] /\ alive' = alive
      /\ run' = [p \in Passes |-> [status |-> "none", count |-> 0, failed |-> 0]]
      /\ served' = [served EXCEPT !.after = {}]
  BY DEF StartNight, NoExits, NoRuns, NoRun, nightVars, orchVars
<1>3. orch' = "off"
  BY <1>1, <1>2, SMT DEF Shape, Waiting
<1>4. Shape'
  BY <1>1, <1>2, SMT DEF Shape
<1>5. (Waiting /\ InOrder /\ CutIsKnown)'
  BY <1>2, <1>3, SMT DEF Waiting, InOrder, CutIsKnown
<1>6. ZeroIsSuccess'
  BY <1>2, SMT DEF ZeroIsSuccess
<1>7. Decided'
  <2>1. kicked' \in BOOLEAN /\ degraded' \in BOOLEAN /\ kicked' # TRUE
    BY <1>2
  <2>2. stage' # "tail" /\ stage' # "promote" /\ stage' # "exit"
    BY <1>2
  <2> QED BY <1>2, <2>1, <2>2, Zenon DEF Decided
<1>8. NoCutRunPublished'
  <2>1. served'.by = served.by /\ served'.cut = served.cut
    BY <1>1, <1>2, SMT DEF Shape
  <2> QED BY <1>1, <2>1 DEF NoCutRunPublished
<1>9. KickReadsTonight'
  BY <1>2 DEF KickReadsTonight
<1>10. ExitZeroIsClean'
  BY <1>2 DEF ExitZeroIsClean
<1> QED BY <1>4, <1>5, <1>6, <1>7, <1>8, <1>9, <1>10 DEF Flow

\* The timer may publish at any time, after a kick only the whole night.
LEMMA TimerFlow == ASSUME Flow, Timer PROVE Flow'
<1> USE DEF Passes, NoExit, Partial, Aborted
<1>1. /\ Shape /\ Waiting /\ InOrder /\ ZeroIsSuccess /\ CutIsKnown /\ Decided
      /\ NoCutRunPublished /\ KickReadsTonight /\ ExitZeroIsClean
  BY DEF Flow
<1>2. /\ stage' = stage /\ exit' = exit /\ run' = run /\ orch' = orch
      /\ exitCode' = exitCode /\ degraded' = degraded /\ finalExit' = finalExit
      /\ kicked' = kicked /\ Pass' = Pass /\ cut' = cut /\ alive' = alive
      /\ served' = [by |-> "timer", after |-> Finished, cut |-> cut]
  BY DEF Timer, Copy, Pass, nightVars, orchVars, auditVars
<1>3. Finished \subseteq Passes
  BY DEF Finished
<1>4. Shape'
  BY <1>1, <1>2, <1>3, SMT DEF Shape
<1>5. (Waiting /\ InOrder /\ CutIsKnown)'
  BY <1>1, <1>2, SMT DEF Waiting, InOrder, CutIsKnown
<1>6. ZeroIsSuccess'
  BY <1>1, <1>2, SMT DEF ZeroIsSuccess
<1>7. Decided'
  BY <1>1, <1>2, SMT DEF Decided, Rolled
<1>8. NoCutRunPublished'
  BY <1>2 DEF NoCutRunPublished
<1>9. KickReadsTonight'
  <2>1. ASSUME kicked = TRUE PROVE Finished = Passes
    BY <1>1, <2>1 DEF Decided, Finished
  <2>2. served'.after = Finished
    BY <1>2
  <2> QED BY <1>1, <1>2, <2>1, <2>2, Zenon DEF KickReadsTonight, Decided
<1>10. ExitZeroIsClean'
  BY <1>1, <1>2 DEF ExitZeroIsClean
<1> QED BY <1>4, <1>5, <1>6, <1>7, <1>8, <1>9, <1>10 DEF Flow

\* Every step keeps what the script relies on; each action is its own case.
LEMMA FlowStep == Flow /\ [Next]_vars => Flow'
<1> SUFFICES ASSUME Flow, [Next]_vars PROVE Flow'
  OBVIOUS
<1> USE DEF Flow, Shape, Waiting, InOrder, ZeroIsSuccess, CutIsKnown, Decided,
     NoCutRunPublished, KickReadsTonight, ExitZeroIsClean,
     Passes, Pass, NoExit, Partial, Aborted, nightVars, auditVars, orchVars
<1>1. CASE Launch
  BY <1>1, SMT DEF Launch, Rolled
<1>2. CASE DiesEarly
  BY <1>2, SMT DEF DiesEarly, Leave
<1>3. CASE StartRun
  BY <1>3, SMT DEF StartRun, Rolled
<1>4. CASE RunIngest
  BY <1>4, StatementFlow, Zenon DEF RunIngest
<1>5. CASE LogRow
  BY <1>5, SMT DEF LogRow, Rolled
<1>6. CASE Bump
  BY <1>6, SMT DEF Bump, Rolled
<1>7. CASE LogRaises
  BY <1>7, StatementFlow, Zenon DEF LogRaises
<1>8. CASE Probe
  BY <1>8, SMT DEF Probe, Rolled
<1>9. CASE Abort
  BY <1>9, SMT DEF Abort, Leave
<1>10. CASE EndRun
  BY <1>10, SMT DEF EndRun, Leave
<1>11. CASE EndRunFails
  BY <1>11, SMT DEF EndRunFails, Leave
<1>12. CASE Kill
  BY <1>12, SMT DEF Kill, Leave
<1>13. CASE StartNight
  BY <1>13, StartNightFlow
<1>14. CASE AfterPassA
  BY <1>14, SMT DEF AfterPassA, Promote, Copy, Finished, PromoteCodes, NoPublisher
<1>15. CASE AfterPassB
  BY <1>15, SMT DEF AfterPassB, Rolled
<1>16. CASE Roll
  BY <1>16, SMT DEF Roll, Rolled
<1>17. CASE RunTail
  BY <1>17, SMT DEF RunTail, Rolled
<1>18. CASE FinalPromote
  BY <1>18, SMT DEF FinalPromote, Promote, Copy, Finished, PromoteCodes, NoPublisher, Rolled
<1>19. CASE Finish
  BY <1>19, SMT DEF Finish, Rolled
<1>20. CASE Timer
  BY <1>20, TimerFlow
<1>21. CASE Reboot
  BY <1>21, SMT DEF Reboot, Rolled
<1>22. CASE UNCHANGED vars
  BY <1>22, SMT DEF vars, Rolled
<1> QED
  BY <1>1, <1>2, <1>3, <1>4, <1>5, <1>6, <1>7, <1>8, <1>9, <1>10, <1>11, <1>12, <1>13,
     <1>14, <1>15, <1>16, <1>17, <1>18, <1>19, <1>20, <1>21, <1>22
     DEF Next, Orchestrator, Night

-----------------------------------------------------------------------------
(* The audit: what the rows and counters of a run say of its ingests.      *)

\* Every set of ingests is finite.
LEMMA SomeIngests ==
  ASSUME NEW S, S \subseteq Ingests
  PROVE  /\ IsFiniteSet(S) /\ Cardinality(S) \in Nat
         /\ Cardinality(S) <= Cardinality(Ingests)
BY IngestsFinite, FS_Subset, FS_CardinalityType

\* The rows of a run are ingests, and so are those of both kinds together.
LEMMA RowsAreIngests ==
  ASSUME NEW p, NEW s
  PROVE  /\ Rows(p, s) \subseteq Ingests /\ Rows(p, s)' \subseteq Ingests
         /\ Cardinality(Rows(p, s)) \in Nat /\ Cardinality(Rows(p, s)') \in Nat
<1>1. Rows(p, s) \subseteq Ingests /\ Rows(p, s)' \subseteq Ingests
  BY DEF Rows
<1> QED BY <1>1, SomeIngests

\* What is known while an orchestrator executes its ingests.
LEMMA Running ==
  ASSUME Flow, Audit, orch \notin {"off", "connect"}
  PROVE  /\ Pass \in Passes /\ stage \in {"passA", "passB"} /\ exit[Pass] = NoExit
         /\ run[Pass].status = "running"
         /\ stage = "passA" => run["B"].status = "none"
         /\ Range(todo) \subseteq Range(Schedule[Pass])
<1>1. stage \in {"passA", "passB"} /\ exit[Pass] = NoExit
  BY DEF Flow, Waiting
<1>2. Pass \in Passes
  BY DEF Pass, Passes
<1> QED BY <1>1, <1>2 DEF Audit, AuditBegins, TodoIsAhead

\* With no run in execution only the status of a run may change.
LEMMA OffAudit ==
  ASSUME Flow, Audit, orch' \in {"off", "connect"},
         UNCHANGED <<row, attempted, todo, outcome, failures>>,
         \A p \in Passes : run'[p].count = run[p].count /\ run'[p].failed = run[p].failed,
         AuditBegins', SuccessIsWhole'
  PROVE  Audit'
<1>1. TodoIsAhead'
  BY SMT DEF Audit, TodoIsAhead
<1>2. CountersNeverAhead'
  BY DEF Audit, CountersNeverAhead, Rows
<1>3. BumpIsDue' /\ SoFarWhole'
  BY DEF BumpIsDue, SoFarWhole
<1>4. FailuresBounded'
  BY DEF Audit, FailuresBounded
<1> QED BY <1>1, <1>2, <1>3, <1>4 DEF Audit

\* The same when the run rows do not change at all.
LEMMA QuietAudit ==
  ASSUME Flow, Audit, orch' \in {"off", "connect"},
         UNCHANGED <<row, attempted, todo, outcome, failures, run>>,
         stage' = "passA" => stage = "passA",
         stage' \in {"passA", "passB"} /\ exit'[Pass'] = NoExit =>
           run[Pass'].status = "none"
  PROVE  Audit'
<1>1. AuditBegins'
  BY SMT DEF Audit, AuditBegins
<1>2. SuccessIsWhole'
  BY DEF Audit, SuccessIsWhole, Rows
<1> QED BY <1>1, <1>2, OffAudit

\* A pass is launched before its run row exists.
LEMMA LaunchAudit == ASSUME Flow, Audit, Launch PROVE Audit'
<1>1. /\ orch = "off" /\ orch' = "connect" /\ stage \in {"passA", "passB"}
      /\ exit[Pass] = NoExit
      /\ UNCHANGED <<row, attempted, todo, outcome, failures, run, stage, exit>>
  BY DEF Launch, nightVars, auditVars, orchVars
<1>2. Pass' = Pass /\ run[Pass].status = "none"
  BY <1>1, SMT DEF Pass, Audit, AuditBegins
<1> QED BY <1>1, <1>2, QuietAudit

\* The ways out of a run.
LEMMA LeaveAudit ==
  ASSUME Flow, Audit, orch # "off", NEW status \in {0, Partial, Aborted}, Leave(status),
         \/ UNCHANGED run
         \/ orch \notin {"off", "connect"} /\ SuccessIsWhole'
            /\ \E st \in {"running", "failed", "success", "partial"} :
                 run' = [run EXCEPT ![Pass].status = st]
  PROVE  Audit'
<1> USE DEF Passes, NoExit, Partial, Aborted
<1>1. /\ orch' = "off" /\ exit' = [exit EXCEPT ![Pass] = status]
      /\ UNCHANGED <<row, attempted, todo, outcome, failures, stage>>
  BY DEF Leave, nightVars, orchVars
<1>2. Pass \in Passes /\ Pass' = Pass /\ stage \in {"passA", "passB"}
  BY <1>1, SMT DEF Flow, Waiting, Pass
<1>3. exit'[Pass] # NoExit
  BY <1>1, <1>2, SMT DEF Flow, Shape
<1>4. CASE UNCHANGED run
  BY <1>1, <1>2, <1>3, <1>4, QuietAudit
<1>5. CASE /\ orch \notin {"off", "connect"} /\ SuccessIsWhole'
           /\ \E st \in {"running", "failed", "success", "partial"} :
                run' = [run EXCEPT ![Pass].status = st]
  <2>1. PICK st \in {"running", "failed", "success", "partial"} :
               run' = [run EXCEPT ![Pass].status = st]
    BY <1>5
  <2>2. run \in [Passes -> [status : {"none", "running", "success", "partial", "failed"},
                            count : Nat, failed : Nat]]
    BY DEF Flow, Shape
  <2>3. \A p \in Passes : run'[p].count = run[p].count /\ run'[p].failed = run[p].failed
    BY <1>2, <2>1, <2>2, SMT
  <2>4. \A p \in Passes : run'[p].status = IF p = Pass THEN st ELSE run[p].status
    BY <1>2, <2>1, <2>2, SMT
  <2>5. AuditBegins'
    BY <1>1, <1>2, <1>3, <1>5, <2>4, SMT DEF Audit, AuditBegins, Pass
  <2> QED BY <1>1, <1>5, <2>3, <2>5, OffAudit
<1> QED BY <1>4, <1>5

\* A run starts with the registrations of its pass, at most one missing.
LEMMA StartRunAudit == ASSUME Flow, Audit, StartRun PROVE Audit'
<1>1. /\ orch = "connect" /\ orch' = "loop" /\ failures' = 0 /\ outcome' = "success"
      /\ UNCHANGED <<row, attempted, stage, exit>>
      /\ run' = [run EXCEPT ![Pass].status = "running"]
  BY DEF StartRun, nightVars
<1>2. /\ Pass \in Passes /\ Pass' = Pass /\ stage \in {"passA", "passB"}
      /\ exit[Pass] = NoExit
  BY <1>1, SMT DEF Flow, Waiting, Pass, Passes
<1>3. run[Pass].status = "none" /\ attempted \cap Range(Schedule[Pass]) = {}
  BY <1>1, <1>2, SMT DEF Audit, AuditBegins
<1>4. Schedule[Pass] \in Seq(Ingests) /\ IsInjective(Schedule[Pass])
  BY <1>2, IngestsFinite, ScheduleAssumption
<1>5. /\ todo' \in Seq(Ingests) /\ IsInjective(todo')
      /\ Range(todo') \subseteq Range(Schedule[Pass])
  BY <1>4, RemoveAtShrinks DEF StartRun
<1>6. \A p \in Passes : /\ run'[p].count = run[p].count /\ run'[p].failed = run[p].failed
                        /\ run'[p].status = IF p = Pass THEN "running" ELSE run[p].status
  BY <1>1, <1>2, SMT DEF Flow, Shape
<1>7. TodoIsAhead'
  BY <1>1, <1>2, <1>3, <1>5 DEF Audit, TodoIsAhead
<1>8. AuditBegins'
  BY <1>1, <1>2, <1>6, SMT DEF Audit, AuditBegins, Pass, Passes
<1>9. CountersNeverAhead'
  BY <1>1, <1>6 DEF Audit, CountersNeverAhead, Rows
<1>10. BumpIsDue'
  BY <1>1 DEF BumpIsDue
<1>11. SuccessIsWhole'
  <2>1. \A p \in Passes : run'[p].status = "success" => run[p].status = "success"
    BY <1>6, Zenon
  <2>2. \A p, s : Rows(p, s)' = Rows(p, s)
    BY <1>1 DEF Rows
  <2> QED BY <1>1, <1>6, <2>1, <2>2, Zenon DEF Audit, SuccessIsWhole
<1>12. SoFarWhole'
  <2>1. \A i \in Ingests : row[Pass][i] = "none"
    BY <1>2, <1>3, SMT DEF Audit, AuditBegins
  <2>2. Rows(Pass, "success") = {} /\ Rows(Pass, "failed") = {}
    BY <2>1 DEF Rows
  <2>3. Rows(Pass, "success")' = {} /\ Rows(Pass, "failed")' = {}
    BY <1>1, <1>2, <2>2 DEF Rows
  <2>4. Called' = {}
    BY <1>1, <1>2, <1>3 DEF Called
  <2>5. Cardinality(Rows(Pass, "success") \cup Rows(Pass, "failed")) = 0
        /\ Cardinality(Rows(Pass, "failed")) = 0
    BY <2>2, FS_EmptySet
  <2>6. run[Pass].count = 0 /\ run[Pass].failed = 0
    BY <1>2, <2>5, SMT DEF Audit, CountersNeverAhead, Flow, Shape
  <2>7. Cardinality({}) = 0
    BY FS_EmptySet
  <2>8. run'[Pass].count = 0 /\ run'[Pass].failed = 0
    BY <1>2, <1>6, <2>6
  <2> QED BY <1>1, <1>2, <2>3, <2>4, <2>7, <2>8, SMT DEF SoFarWhole
<1>13. FailuresBounded'
  BY <1>1, SomeIngests, SMT DEF Audit, FailuresBounded, TodoIsAhead
<1> QED BY <1>7, <1>8, <1>9, <1>10, <1>11, <1>12, <1>13 DEF Audit

\* The ingest called is of this pass, was not called before and has no row.
LEMMA RunIngestAudit == ASSUME Flow, Audit, RunIngest PROVE Audit'
<1>1. /\ orch = "loop" /\ todo # <<>> /\ orch' = "log"
      /\ outcome' \in {"success", "failed"}
      /\ attempted' = attempted \cup {Ingest}
      /\ UNCHANGED <<row, run, todo, failures, stage, exit>>
  BY DEF RunIngest, nightVars, auditVars
<1>2. /\ Pass \in Passes /\ stage \in {"passA", "passB"} /\ exit[Pass] = NoExit
      /\ run[Pass].status = "running"
      /\ stage = "passA" => run["B"].status = "none"
      /\ Range(todo) \subseteq Range(Schedule[Pass])
  BY <1>1, Running
<1>3. Pass' = Pass /\ Ingest' = Ingest
  BY <1>1 DEF Pass, Ingest
<1>4. todo \in Seq(Ingests) /\ IsInjective(todo) /\ attempted \cap Range(todo) = {}
  BY <1>1 DEF Audit, TodoIsAhead
<1>5. Ingest \in Range(todo) /\ Ingest \in Ingests
  BY <1>1, <1>4, TailShrinks, SMT DEF Ingest
<1>6. Ingest \in Range(Schedule[Pass]) /\ Ingest \notin attempted
  BY <1>2, <1>4, <1>5
<1>7. \A p \in Passes : p # Pass => Ingest \notin Range(Schedule[p])
  BY <1>2, <1>6, ScheduleAssumption DEF Passes
<1>8. TodoIsAhead'
  BY <1>1, <1>2, <1>3, <1>4, <1>5 DEF Audit, TodoIsAhead
<1>9. AuditBegins'
  <2>1. \A p \in Passes : run[p].status = "none" => p # Pass
    BY <1>2
  <2> QED BY <1>1, <1>2, <1>3, <1>7, <2>1, SMT DEF Audit, AuditBegins
<1>10. CountersNeverAhead' /\ BumpIsDue'
  BY <1>1 DEF Audit, CountersNeverAhead, BumpIsDue, Rows
<1>11. SuccessIsWhole'
  <2> SUFFICES ASSUME NEW p \in Passes, run'[p].status = "success"
               PROVE  /\ Rows(p, "failed")' = {}
                      /\ Rows(p, "success")' = attempted' \cap Range(Schedule[p])
                      /\ run'[p].count = Cardinality(Rows(p, "success")')
                      /\ run'[p].failed = 0
    BY DEF SuccessIsWhole
  <2>1. p # Pass /\ Ingest \notin Range(Schedule[p])
    BY <1>1, <1>2, <1>7
  <2>2. Rows(p, "failed")' = Rows(p, "failed") /\ Rows(p, "success")' = Rows(p, "success")
    BY <1>1 DEF Rows
  <2>3. attempted' \cap Range(Schedule[p]) = attempted \cap Range(Schedule[p])
    BY <1>1, <2>1
  <2> QED BY <1>1, <2>2, <2>3 DEF Audit, SuccessIsWhole
<1>12. SoFarWhole'
  <2>1. ASSUME failures = 0
        PROVE  /\ Rows(Pass, "failed") = {} /\ run[Pass].failed = 0
               /\ Rows(Pass, "success") = Called
               /\ Cardinality(Rows(Pass, "success")) = run[Pass].count
    BY <1>1, <2>1, SMT DEF Audit, SoFarWhole
  <2>2. Called' \ {Ingest} = Called
    BY <1>1, <1>3, <1>6 DEF Called
  <2>3. /\ Rows(Pass, "failed")' = Rows(Pass, "failed")
        /\ Rows(Pass, "success")' = Rows(Pass, "success")
    BY <1>1, <1>3 DEF Rows
  <2> QED BY <1>1, <1>3, <2>1, <2>2, <2>3, SMT DEF SoFarWhole
<1>13. FailuresBounded'
  <2>1. attempted \subseteq Ingests /\ failures \in Nat
    BY DEF Audit, TodoIsAhead
  <2>2. Cardinality(attempted') = Cardinality(attempted) + 1
    BY <1>1, <1>6, <2>1, SomeIngests, FS_AddElement
  <2>3. failures < Cardinality(attempted')
    BY <1>1, <2>1, <2>2, SomeIngests, SMT DEF Audit, FailuresBounded
  <2> QED BY <1>1, <2>3 DEF Audit, FailuresBounded
<1> QED BY <1>8, <1>9, <1>10, <1>11, <1>12, <1>13 DEF Audit

\* The row goes in before the counters, and only once per ingest.
LEMMA LogRowAudit == ASSUME Flow, Audit, LogRow PROVE Audit'
<1>1. /\ orch = "log" /\ orch' = "bump" /\ row[Pass][Ingest] = "none"
      /\ row' = [row EXCEPT ![Pass][Ingest] = outcome]
      /\ UNCHANGED <<run, todo, outcome, failures, attempted, stage, exit>>
  BY DEF LogRow, nightVars, orchVars
<1>2. /\ Pass \in Passes /\ stage \in {"passA", "passB"} /\ exit[Pass] = NoExit
      /\ run[Pass].status = "running"
      /\ stage = "passA" => run["B"].status = "none"
      /\ Range(todo) \subseteq Range(Schedule[Pass])
  BY <1>1, Running
<1>3. Pass' = Pass /\ Ingest' = Ingest
  BY <1>1 DEF Pass, Ingest
<1>4. /\ todo \in Seq(Ingests) /\ todo # <<>> /\ attempted \cap Range(todo) = {Ingest}
      /\ outcome \in {"success", "failed"} /\ attempted \subseteq Ingests
  BY <1>1, Zenon DEF Audit, TodoIsAhead
<1>5. Ingest \in attempted /\ Ingest \in Ingests /\ Ingest \in Range(Schedule[Pass])
  BY <1>2, <1>4
<1>6. row \in [Passes -> [Ingests -> {"none", "success", "failed"}]]
  BY DEF Audit, AuditBegins
<1>7. /\ row' \in [Passes -> [Ingests -> {"none", "success", "failed"}]]
      /\ \A p \in Passes : \A i \in Ingests :
           row'[p][i] = IF p = Pass /\ i = Ingest THEN outcome ELSE row[p][i]
  BY <1>1, <1>2, <1>4, <1>5, <1>6, SMT
<1>8. /\ Ingest \notin Rows(Pass, "success") /\ Ingest \notin Rows(Pass, "failed")
      /\ outcome = "success" => /\ Rows(Pass, "success")' = Rows(Pass, "success") \cup {Ingest}
                                /\ Rows(Pass, "failed")' = Rows(Pass, "failed")
      /\ outcome = "failed" => /\ Rows(Pass, "failed")' = Rows(Pass, "failed") \cup {Ingest}
                               /\ Rows(Pass, "success")' = Rows(Pass, "success")
  BY <1>1, <1>2, <1>3, <1>5, <1>7, SMT DEF Rows
<1>9. \A p \in Passes : \A s \in {"success", "failed"} :
        p # Pass => Rows(p, s)' = Rows(p, s)
  BY <1>7, SMT DEF Rows
<1> DEFINE both == Rows(Pass, "success") \cup Rows(Pass, "failed")
<1>10. /\ Cardinality(both') = Cardinality(both) + 1
       /\ outcome = "success" =>
            Cardinality(Rows(Pass, "success")') = Cardinality(Rows(Pass, "success")) + 1
       /\ outcome = "failed" =>
            Cardinality(Rows(Pass, "failed")') = Cardinality(Rows(Pass, "failed")) + 1
       /\ Cardinality(both) \in Nat /\ Cardinality(Rows(Pass, "failed")) \in Nat
  <2>1. \A s : Rows(Pass, s) \subseteq Ingests
    BY DEF Rows
  <2>2. both' = both \cup {Ingest}
    <3>1. both' = Rows(Pass, "success")' \cup Rows(Pass, "failed")'
      OBVIOUS
    <3> QED BY <1>4, <1>8, <3>1
  <2>3. \A s : IsFiniteSet(Rows(Pass, s)) /\ Cardinality(Rows(Pass, s)) \in Nat
    BY <2>1, SomeIngests
  <2>4. IsFiniteSet(both) /\ Cardinality(both) \in Nat /\ Ingest \notin both
    BY <1>8, <2>1, SomeIngests
  <2>5. Cardinality(both \cup {Ingest}) = Cardinality(both) + 1
    BY <2>4, FS_AddElement
  <2>6. \A s \in {"success", "failed"} :
          Cardinality(Rows(Pass, s) \cup {Ingest}) = Cardinality(Rows(Pass, s)) + 1
    BY <1>8, <2>3, FS_AddElement
  <2> QED BY <1>8, <2>2, <2>3, <2>4, <2>5, <2>6
<1>11. TodoIsAhead'
  BY <1>1, <1>2, <1>3, <1>4, SMT DEF Audit, TodoIsAhead
<1>12. AuditBegins'
  BY <1>1, <1>2, <1>3, <1>5, <1>7, SMT DEF Audit, AuditBegins
<1>13. run[Pass].count \in Nat /\ run[Pass].failed \in Nat
  BY <1>2, SMT DEF Flow, Shape
<1>14. /\ run[Pass].count <= Cardinality(both)
       /\ run[Pass].failed <= Cardinality(Rows(Pass, "failed"))
  BY <1>2 DEF Audit, CountersNeverAhead
<1> HIDE DEF both
<1>15. /\ run[Pass].count < Cardinality(both') /\ run[Pass].count <= Cardinality(both')
       /\ outcome = "failed" => run[Pass].failed < Cardinality(Rows(Pass, "failed")')
       /\ run[Pass].failed <= Cardinality(Rows(Pass, "failed")')
  <2>1. run[Pass].count < Cardinality(both') /\ run[Pass].count <= Cardinality(both')
    BY <1>10, <1>13, <1>14, SMT
  <2>2. CASE outcome = "failed"
    <3>1. Cardinality(Rows(Pass, "failed")') = Cardinality(Rows(Pass, "failed")) + 1
      BY <1>10, <2>2
    <3> QED BY <1>10, <1>13, <1>14, <2>1, <3>1, SMT
  <2>3. CASE outcome = "success"
    <3>1. Rows(Pass, "failed")' = Rows(Pass, "failed")
      BY <1>8, <2>3
    <3> QED BY <1>14, <2>1, <2>3, <3>1
  <2> QED BY <1>4, <2>2, <2>3
<1>16. CountersNeverAhead'
  <2> SUFFICES ASSUME NEW p \in Passes
               PROVE  /\ run'[p].count <=
                           Cardinality((Rows(p, "success") \cup Rows(p, "failed"))')
                      /\ run'[p].failed <= Cardinality(Rows(p, "failed")')
    BY DEF CountersNeverAhead
  <2>1. CASE p = Pass
    BY <1>1, <1>3, <1>15, <2>1 DEF both
  <2>2. CASE p # Pass
    <3>1. /\ Rows(p, "success")' = Rows(p, "success")
          /\ Rows(p, "failed")' = Rows(p, "failed")
      BY <1>9, <2>2
    <3> QED BY <1>1, <3>1 DEF Audit, CountersNeverAhead
  <2> QED BY <2>1, <2>2
<1>17. BumpIsDue'
  BY <1>1, <1>3, <1>15 DEF BumpIsDue, both
<1>18. SuccessIsWhole'
  <2> SUFFICES ASSUME NEW p \in Passes, run'[p].status = "success"
               PROVE  /\ Rows(p, "failed")' = {}
                      /\ Rows(p, "success")' = attempted' \cap Range(Schedule[p])
                      /\ run'[p].count = Cardinality(Rows(p, "success")')
                      /\ run'[p].failed = 0
    BY DEF SuccessIsWhole
  <2>1. p # Pass
    BY <1>1, <1>2
  <2> QED BY <1>1, <1>9, <2>1 DEF Audit, SuccessIsWhole
<1>19. SoFarWhole'
  <2> SUFFICES ASSUME failures = 0, outcome = "success"
               PROVE  /\ Rows(Pass, "failed")' = {} /\ run[Pass].failed = 0
                      /\ Rows(Pass, "success")' = Called
                      /\ Cardinality(Rows(Pass, "success")') = run[Pass].count + 1
    BY <1>1, <1>3, Zenon DEF SoFarWhole, Called
  <2>1. /\ Rows(Pass, "failed") = {} /\ run[Pass].failed = 0
        /\ Rows(Pass, "success") = Called \ {Ingest}
        /\ Cardinality(Rows(Pass, "success")) = run[Pass].count
    BY <1>1, SMT DEF Audit, SoFarWhole
  <2>2. Ingest \in Called
    BY <1>5 DEF Called
  <2>3. Rows(Pass, "success")' = Called
    BY <1>8, <2>1, <2>2
  <2>4. Rows(Pass, "failed")' = {}
    BY <1>8, <2>1
  <2>5. Cardinality(Rows(Pass, "success")') = run[Pass].count + 1
    BY <1>10, <2>1
  <2> QED BY <2>1, <2>3, <2>4, <2>5
<1>20. FailuresBounded'
  BY <1>1, SMT DEF Audit, FailuresBounded
<1> QED BY <1>11, <1>12, <1>16, <1>17, <1>18, <1>19, <1>20 DEF Audit

\* The counters follow the row that is there.
LEMMA BumpAudit == ASSUME Flow, Audit, Bump PROVE Audit'
<1>1. /\ orch = "bump" /\ orch' = "probe"
      /\ run' = [run EXCEPT ![Pass].count = @ + 1,
                            ![Pass].failed = IF outcome = "failed" THEN @ + 1 ELSE @]
      /\ failures' = IF outcome = "failed" THEN failures + 1 ELSE failures
      /\ UNCHANGED <<row, todo, outcome, attempted, stage, exit>>
  BY DEF Bump, nightVars
<1>2. /\ Pass \in Passes /\ stage \in {"passA", "passB"} /\ exit[Pass] = NoExit
      /\ run[Pass].status = "running"
      /\ stage = "passA" => run["B"].status = "none"
      /\ Range(todo) \subseteq Range(Schedule[Pass])
  BY <1>1, Running
<1>3. Pass' = Pass /\ Ingest' = Ingest
  BY <1>1 DEF Pass, Ingest
<1>4. run \in [Passes -> [status : {"none", "running", "success", "partial", "failed"},
                          count : Nat, failed : Nat]]
  BY DEF Flow, Shape
<1>5. \A p \in Passes :
        /\ run'[p].status = run[p].status
        /\ run'[p].count = IF p = Pass THEN run[p].count + 1 ELSE run[p].count
        /\ run'[p].failed = IF p = Pass /\ outcome = "failed" THEN run[p].failed + 1
                                                              ELSE run[p].failed
  BY <1>1, <1>2, <1>4, SMT
<1>6. \A p, s : Rows(p, s)' = Rows(p, s)
  BY <1>1 DEF Rows
<1>7. outcome \in {"success", "failed"} /\ failures \in Nat
  BY DEF Audit, TodoIsAhead
<1>8. TodoIsAhead'
  <2>1. failures' \in Nat
    BY <1>1, <1>7, SMT
  <2>2. /\ todo \in Seq(Ingests) /\ IsInjective(todo) /\ attempted \subseteq Ingests
        /\ todo # <<>> /\ attempted \cap Range(todo) = {Ingest}
    BY <1>1 DEF Audit, TodoIsAhead
  <2>3. /\ orch' = "probe" /\ todo' = todo /\ attempted' = attempted
        /\ outcome' \in {"success", "failed"}
    BY <1>1, <1>7
  <2> QED BY <1>2, <1>3, <2>1, <2>2, <2>3 DEF TodoIsAhead
<1>9. AuditBegins'
  <2>1. \A p \in Passes : run'[p].status = run[p].status
    BY <1>5
  <2>2. "B" \in Passes
    BY DEF Passes
  <2>3. /\ row' = row /\ attempted' = attempted /\ stage' = stage /\ exit' = exit
        /\ orch' = "probe" /\ orch = "bump"
    BY <1>1
  <2> QED BY <1>2, <1>3, <2>1, <2>2, <2>3, SMT DEF Audit, AuditBegins
<1>10. CountersNeverAhead'
  <2> SUFFICES ASSUME NEW p \in Passes
               PROVE  /\ run'[p].count <= Cardinality(Rows(p, "success") \cup Rows(p, "failed"))
                      /\ run'[p].failed <= Cardinality(Rows(p, "failed"))
    BY <1>6 DEF CountersNeverAhead
  <2>1. CASE p = Pass
    <3>1. /\ Cardinality(Rows(p, "success") \cup Rows(p, "failed")) \in Nat
          /\ Cardinality(Rows(p, "failed")) \in Nat
      BY SomeIngests DEF Rows
    <3>2. /\ run[p].count < Cardinality(Rows(p, "success") \cup Rows(p, "failed"))
          /\ outcome = "failed" => run[p].failed < Cardinality(Rows(p, "failed"))
          /\ run[p].failed <= Cardinality(Rows(p, "failed"))
      BY <1>1, <2>1 DEF Audit, BumpIsDue, CountersNeverAhead
    <3>3. run[p].count \in Nat /\ run[p].failed \in Nat
      BY <1>4, SMT
    <3> QED BY <1>5, <2>1, <3>1, <3>2, <3>3, SMT
  <2>2. CASE p # Pass
    BY <1>5, <2>2 DEF Audit, CountersNeverAhead
  <2> QED BY <2>1, <2>2
<1>11. BumpIsDue'
  BY <1>1 DEF BumpIsDue
<1>12. SuccessIsWhole'
  <2> SUFFICES ASSUME NEW p \in Passes, run'[p].status = "success"
               PROVE  /\ Rows(p, "failed") = {}
                      /\ Rows(p, "success") = attempted \cap Range(Schedule[p])
                      /\ run'[p].count = Cardinality(Rows(p, "success"))
                      /\ run'[p].failed = 0
    BY <1>1, <1>6, Zenon DEF SuccessIsWhole
  <2>1. p # Pass /\ run[p].status = "success"
    BY <1>2, <1>5
  <2> QED BY <1>5, <2>1 DEF Audit, SuccessIsWhole
<1>13. SoFarWhole'
  <2> SUFFICES ASSUME failures' = 0
               PROVE  /\ Rows(Pass, "failed") = {} /\ run'[Pass].failed = 0
                      /\ Rows(Pass, "success") = Called
                      /\ Cardinality(Rows(Pass, "success")) = run'[Pass].count
    BY <1>1, <1>3, <1>6, Zenon DEF SoFarWhole, Called
  <2>1. failures = 0 /\ outcome = "success"
    BY <1>1, <1>7, SMT
  <2>2. /\ Rows(Pass, "failed") = {} /\ run[Pass].failed = 0
        /\ Rows(Pass, "success") = Called
        /\ Cardinality(Rows(Pass, "success")) = run[Pass].count + 1
    BY <1>1, <2>1, SMT DEF Audit, SoFarWhole
  <2> QED BY <1>2, <1>5, <2>1, <2>2, SMT
<1>14. FailuresBounded'
  <2>1. Cardinality(attempted) \in Nat /\ Cardinality(attempted) <= Cardinality(Ingests)
        /\ Cardinality(Ingests) \in Nat
    BY SomeIngests DEF Audit, TodoIsAhead
  <2> QED BY <1>1, <1>7, <2>1, SMT DEF Audit, FailuresBounded
<1> QED BY <1>8, <1>9, <1>10, <1>11, <1>12, <1>13, <1>14 DEF Audit

\* A failure is counted once per ingest, however its logging went.
LEMMA LogRaisesAudit == ASSUME Flow, Audit, LogRaises PROVE Audit'
<1>1. /\ orch \in {"log", "bump"}
      /\ UNCHANGED <<row, run, todo, attempted, stage, exit>>
  BY DEF LogRaises, nightVars, auditVars
<1>2. \/ orch' = "log" /\ outcome' = "failed" /\ failures' = failures
      \/ orch' = "probe" /\ failures' = failures + 1 /\ outcome' = outcome
  BY DEF LogRaises
<1>3. /\ Pass \in Passes /\ stage \in {"passA", "passB"} /\ exit[Pass] = NoExit
      /\ run[Pass].status = "running"
      /\ stage = "passA" => run["B"].status = "none"
      /\ Range(todo) \subseteq Range(Schedule[Pass])
  BY <1>1, Running
<1>4. Pass' = Pass /\ Ingest' = Ingest
  BY <1>1 DEF Pass, Ingest
<1>5. /\ todo \in Seq(Ingests) /\ IsInjective(todo) /\ attempted \subseteq Ingests
      /\ todo # <<>> /\ attempted \cap Range(todo) = {Ingest}
      /\ outcome \in {"success", "failed"} /\ failures \in Nat
  BY <1>1 DEF Audit, TodoIsAhead
<1>6. orch' \in {"log", "probe"} /\ outcome' \in {"success", "failed"} /\ failures' \in Nat
  BY <1>2, <1>5, SMT
<1>7. TodoIsAhead'
  BY <1>1, <1>3, <1>4, <1>5, <1>6 DEF TodoIsAhead
<1>8. AuditBegins'
  BY <1>1, <1>4, <1>6, SMT DEF Audit, AuditBegins
<1>9. CountersNeverAhead' /\ SuccessIsWhole'
  BY <1>1 DEF Audit, CountersNeverAhead, SuccessIsWhole, Rows
<1>10. BumpIsDue'
  BY <1>6 DEF BumpIsDue
<1>11. SoFarWhole'
  <2>1. failures + 1 # 0
    BY <1>5, SMT
  <2>2. \/ outcome' = "failed" /\ orch' = "log"
        \/ failures' # 0 /\ orch' = "probe"
    BY <1>2, <2>1, Zenon
  <2> QED BY <2>2 DEF SoFarWhole
<1>12. FailuresBounded'
  <2>1. Cardinality(attempted) \in Nat /\ Cardinality(attempted) <= Cardinality(Ingests)
        /\ Cardinality(Ingests) \in Nat
    BY <1>5, SomeIngests
  <2>2. failures < Cardinality(attempted)
    BY <1>1 DEF Audit, FailuresBounded
  <2>3. Cardinality(attempted') = Cardinality(attempted)
    BY <1>1
  <2> QED BY <1>2, <1>5, <2>1, <2>2, <2>3, SMT DEF FailuresBounded
<1> QED BY <1>7, <1>8, <1>9, <1>10, <1>11, <1>12 DEF Audit

\* The run goes on to the next ingest, or stops on the dead connection.
LEMMA ProbeAudit == ASSUME Flow, Audit, Probe PROVE Audit'
<1>1. /\ orch = "probe"
      /\ UNCHANGED <<row, run, attempted, outcome, failures, stage, exit>>
      /\ \/ orch' = "loop" /\ todo' = Tail(todo)
         \/ orch' = "abort" /\ todo' = todo
  BY DEF Probe, nightVars, auditVars
<1>2. /\ Pass \in Passes /\ stage \in {"passA", "passB"} /\ exit[Pass] = NoExit
      /\ run[Pass].status = "running"
      /\ stage = "passA" => run["B"].status = "none"
      /\ Range(todo) \subseteq Range(Schedule[Pass])
  BY <1>1, Running
<1>3. Pass' = Pass
  BY <1>1 DEF Pass
<1>4. /\ todo \in Seq(Ingests) /\ IsInjective(todo) /\ attempted \subseteq Ingests
      /\ todo # <<>> /\ attempted \cap Range(todo) = {Ingest}
      /\ outcome \in {"success", "failed"} /\ failures \in Nat
  BY <1>1 DEF Audit, TodoIsAhead
<1>5. /\ Tail(todo) \in Seq(Ingests) /\ IsInjective(Tail(todo))
      /\ Range(Tail(todo)) = Range(todo) \ {Ingest}
  BY <1>4, TailShrinks DEF Ingest
<1>6. TodoIsAhead'
  <2>1. CASE orch' = "loop" /\ todo' = Tail(todo)
    <3>1. attempted \cap Range(Tail(todo)) = {}
      BY <1>4, <1>5
    <3> QED BY <1>1, <1>2, <1>3, <1>4, <1>5, <2>1, <3>1 DEF TodoIsAhead
  <2>2. CASE orch' = "abort" /\ todo' = todo
    BY <1>1, <1>2, <1>3, <1>4, <2>2 DEF TodoIsAhead
  <2> QED BY <1>1, <2>1, <2>2
<1>7. orch' \in {"loop", "abort"}
  BY <1>1
<1>8. AuditBegins'
  BY <1>1, <1>3, <1>7, SMT DEF Audit, AuditBegins
<1>9. CountersNeverAhead' /\ SuccessIsWhole'
  BY <1>1 DEF Audit, CountersNeverAhead, SuccessIsWhole, Rows
<1>10. BumpIsDue'
  BY <1>7 DEF BumpIsDue
<1>11. SoFarWhole'
  <2> SUFFICES ASSUME failures = 0
               PROVE  /\ Rows(Pass, "failed") = {} /\ run[Pass].failed = 0
                      /\ Rows(Pass, "success") = Called
                      /\ Cardinality(Rows(Pass, "success")) = run[Pass].count
    BY <1>1, <1>3, <1>7 DEF SoFarWhole, Called, Rows
  <2> QED BY <1>1, SMT DEF Audit, SoFarWhole
<1>12. FailuresBounded'
  BY <1>1, <1>7, SMT DEF Audit, FailuresBounded
<1> QED BY <1>6, <1>8, <1>9, <1>10, <1>11, <1>12 DEF Audit

\* A new night starts with an empty audit.
LEMMA StartNightAudit == ASSUME Flow, Audit, StartNight PROVE Audit'
<1>1. /\ stage = "idle" /\ stage' = "passA" /\ orch' = orch
      /\ row' = [p \in Passes |-> [i \in Ingests |-> "none"]]
      /\ run' = [p \in Passes |-> [status |-> "none", count |-> 0, failed |-> 0]]
      /\ exit' = [p \in Passes |-> NoExit] /\ attempted' = {}
      /\ UNCHANGED <<todo, outcome, failures>>
  BY DEF StartNight, NoExits, NoRuns, NoRun, NoRows, orchVars
<1>2. orch' = "off"
  BY <1>1, SMT DEF Flow, Shape, Waiting
<1>3. TodoIsAhead'
  BY <1>1, <1>2 DEF Audit, TodoIsAhead
<1>4. AuditBegins'
  BY <1>1, <1>2, SMT DEF AuditBegins, Pass, Passes
<1>5. CountersNeverAhead'
  <2> SUFFICES ASSUME NEW p \in Passes
               PROVE  /\ run'[p].count <= Cardinality((Rows(p, "success") \cup Rows(p, "failed"))')
                      /\ run'[p].failed <= Cardinality(Rows(p, "failed")')
    BY DEF CountersNeverAhead
  <2>1. run'[p].count = 0 /\ run'[p].failed = 0
    BY <1>1
  <2>2. /\ Cardinality((Rows(p, "success") \cup Rows(p, "failed"))') \in Nat
        /\ Cardinality(Rows(p, "failed")') \in Nat
    BY SomeIngests DEF Rows
  <2> QED BY <2>1, <2>2, SMT
<1>6. BumpIsDue' /\ SoFarWhole'
  BY <1>2 DEF BumpIsDue, SoFarWhole
<1>7. SuccessIsWhole'
  BY <1>1 DEF SuccessIsWhole
<1>8. FailuresBounded'
  BY <1>1, <1>2 DEF Audit, FailuresBounded
<1> QED BY <1>3, <1>4, <1>5, <1>6, <1>7, <1>8 DEF Audit

\* A status other than success for one run leaves the others as they were.
LEMMA OtherRunsWhole ==
  ASSUME Flow, Audit, orch \notin {"off", "connect"}, UNCHANGED <<row, attempted>>,
         NEW st, st # "success", run' = [run EXCEPT ![Pass].status = st]
  PROVE  SuccessIsWhole'
<1>1. Pass \in Passes
  BY Running
<1>2. run \in [Passes -> [status : {"none", "running", "success", "partial", "failed"},
                          count : Nat, failed : Nat]]
  BY DEF Flow, Shape
<1>3. \A p \in Passes : /\ run'[p].status = IF p = Pass THEN st ELSE run[p].status
                        /\ run'[p].count = run[p].count /\ run'[p].failed = run[p].failed
  BY <1>1, <1>2, SMT
<1>4. \A p \in Passes : run'[p].status = "success" => run[p].status = "success"
  BY <1>3, Zenon
<1>5. \A p, s : Rows(p, s)' = Rows(p, s)
  BY DEF Rows
<1> QED BY <1>3, <1>4, <1>5, Zenon DEF Audit, SuccessIsWhole

\* A run is closed as a success only when its audit is whole.
LEMMA EndRunAudit == ASSUME Flow, Audit, EndRun PROVE Audit'
<1>1. /\ orch = "loop" /\ todo = <<>>
      /\ UNCHANGED <<row, attempted>>
      /\ Leave(IF failures = 0 THEN 0 ELSE Partial)
      /\ run' = [run EXCEPT ![Pass].status = IF failures = 0 THEN "success" ELSE "partial"]
  BY DEF EndRun, Leave
<1>2. CASE failures # 0
  <2>1. Leave(Partial) /\ run' = [run EXCEPT ![Pass].status = "partial"]
    BY <1>1, <1>2
  <2>2. SuccessIsWhole'
    BY <1>1, <2>1, OtherRunsWhole
  <2> QED BY <1>1, <2>1, <2>2, LeaveAudit
<1>3. CASE failures = 0
  <2>1. Leave(0) /\ run' = [run EXCEPT ![Pass].status = "success"]
    BY <1>1, <1>3
  <2>2. Pass \in Passes
    BY <1>1, Running
  <2>3. run \in [Passes -> [status : {"none", "running", "success", "partial", "failed"},
                            count : Nat, failed : Nat]]
    BY DEF Flow, Shape
  <2>4. \A p \in Passes :
          /\ run'[p].status = IF p = Pass THEN "success" ELSE run[p].status
          /\ run'[p].count = run[p].count /\ run'[p].failed = run[p].failed
    BY <2>1, <2>2, <2>3, SMT
  <2>5. \A p, s : Rows(p, s)' = Rows(p, s)
    BY <1>1 DEF Rows
  <2>6. /\ Rows(Pass, "failed") = {} /\ run[Pass].failed = 0
        /\ Rows(Pass, "success") = Called
        /\ Cardinality(Rows(Pass, "success")) = run[Pass].count
    BY <1>1, <1>3, SMT DEF Audit, SoFarWhole
  <2>7. SuccessIsWhole'
    <3> SUFFICES ASSUME NEW p \in Passes, run'[p].status = "success"
                 PROVE  /\ Rows(p, "failed") = {}
                        /\ Rows(p, "success") = attempted \cap Range(Schedule[p])
                        /\ run'[p].count = Cardinality(Rows(p, "success"))
                        /\ run'[p].failed = 0
      BY <1>1, <2>5 DEF SuccessIsWhole
    <3>1. CASE p = Pass
      BY <2>4, <2>6, <3>1 DEF Called
    <3>2. CASE p # Pass
      <4>1. run[p].status = "success"
        BY <2>4, <3>2
      <4> QED BY <2>4, <4>1 DEF Audit, SuccessIsWhole
    <3> QED BY <3>1, <3>2
  <2> QED BY <1>1, <2>1, <2>7, LeaveAudit
<1> QED BY <1>2, <1>3

\* nightly.sh, the timer and a reboot leave the audit as it is.
LEMMA NightAudit ==
  ASSUME Flow, Audit, AfterPassA \/ AfterPassB \/ Roll \/ RunTail \/ FinalPromote \/ Finish
                      \/ Timer \/ Reboot
  PROVE  Audit'
<1>1. /\ UNCHANGED <<row, attempted, todo, outcome, failures, run, exit>>
      /\ orch' = orch \/ orch' = "off"
  BY DEF AfterPassA, AfterPassB, Roll, RunTail, FinalPromote, Finish, Timer, Reboot,
         nightVars, orchVars, auditVars
<1>2. orch' = "off"
  BY SMT DEF AfterPassA, AfterPassB, Roll, RunTail, FinalPromote, Finish, Timer, Reboot,
         Flow, Shape, Waiting, Pass, orchVars
<1>3. CASE AfterPassA
  <2>1. stage = "passA" /\ stage' = "passB" /\ Pass' = "B" /\ exit' = exit
    BY <1>3 DEF AfterPassA, Pass
  <2>2. run["B"].status = "none"
    BY <2>1 DEF Audit, AuditBegins
  <2> QED BY <1>1, <1>2, <2>1, <2>2, QuietAudit
<1>4. CASE Timer
  <2>1. orch = "off" /\ stage' = stage /\ Pass' = Pass
    BY <1>4 DEF Timer, nightVars, Pass
  <2>2. stage \in {"passA", "passB"} /\ exit[Pass] = NoExit => run[Pass].status = "none"
    BY <2>1, SMT DEF Audit, AuditBegins
  <2> QED BY <1>1, <1>2, <2>1, <2>2, QuietAudit
<1>5. CASE AfterPassB \/ Roll \/ RunTail \/ FinalPromote \/ Finish \/ Reboot
  <2>1. stage' \notin {"passA", "passB"}
    BY <1>5, SMT DEF AfterPassB, Roll, RunTail, FinalPromote, Finish, Reboot
  <2> QED BY <1>1, <1>2, <2>1, QuietAudit
<1> QED BY <1>3, <1>4, <1>5

\* Every step keeps the audit true, given the flow of the night.
LEMMA AuditStep == Flow /\ Audit /\ [Next]_vars => Audit'
<1> SUFFICES ASSUME Flow, Audit, [Next]_vars PROVE Audit'
  OBVIOUS
<1>1. CASE Orchestrator
  <2>1. CASE DiesEarly
    BY <2>1, LeaveAudit DEF DiesEarly, Partial
  <2>2. CASE Abort
    <3>1. orch = "abort" /\ Leave(Aborted)
      BY <2>2 DEF Abort
    <3>2. PICK st \in {"running", "failed"} : run' = [run EXCEPT ![Pass].status = st]
      BY <2>2 DEF Abort
    <3>3. SuccessIsWhole'
      BY <3>1, <3>2, OtherRunsWhole DEF Leave
    <3> QED BY <3>1, <3>2, <3>3, LeaveAudit
  <2>3. CASE EndRun
    BY <2>3, EndRunAudit
  <2>4. CASE EndRunFails
    BY <2>4, LeaveAudit DEF EndRunFails
  <2>5. CASE Kill
    BY <2>5, LeaveAudit DEF Kill
  <2> QED BY <1>1, <2>1, <2>2, <2>3, <2>4, <2>5, LaunchAudit, StartRunAudit, RunIngestAudit,
             LogRowAudit, BumpAudit, LogRaisesAudit, ProbeAudit DEF Orchestrator
<1>2. CASE Night \/ Timer \/ Reboot
  <2>1. CASE StartNight
    BY <2>1, StartNightAudit
  <2>2. CASE AfterPassA
    BY <2>2, NightAudit
  <2>3. CASE AfterPassB \/ Roll \/ RunTail \/ FinalPromote \/ Finish \/ Timer \/ Reboot
    BY <2>3, NightAudit
  <2> QED BY <1>2, <2>1, <2>2, <2>3 DEF Night
<1>3. CASE UNCHANGED vars
  <2>1. UNCHANGED <<stage, exit, orch, todo, outcome, failures, run, row, attempted>>
    BY <1>3 DEF vars, nightVars, orchVars, auditVars
  <2>2. Pass' = Pass /\ Ingest' = Ingest /\ \A p, s : Rows(p, s)' = Rows(p, s)
    BY <2>1 DEF Pass, Ingest, Rows
  <2>3. TodoIsAhead' /\ AuditBegins'
    BY <2>1, <2>2 DEF Audit, TodoIsAhead, AuditBegins
  <2>4. CountersNeverAhead' /\ SuccessIsWhole'
    BY <2>1, <2>2 DEF Audit, CountersNeverAhead, SuccessIsWhole
  <2>5. BumpIsDue' /\ SoFarWhole' /\ FailuresBounded'
    BY <2>1, <2>2 DEF Audit, BumpIsDue, SoFarWhole, FailuresBounded, Called
  <2> QED BY <2>3, <2>4, <2>5 DEF Audit
<1> QED BY <1>1, <1>2, <1>3 DEF Next

-----------------------------------------------------------------------------

\* No run, no row, no ingest called.
LEMMA InitAudit == Init => Audit
<1> SUFFICES ASSUME Init PROVE Audit
  OBVIOUS
<1>1. /\ stage = "idle" /\ orch = "off" /\ attempted = {} /\ todo = <<>>
      /\ outcome = "success" /\ failures = 0
      /\ row = [p \in Passes |-> [i \in Ingests |-> "none"]]
      /\ run = [p \in Passes |-> [status |-> "none", count |-> 0, failed |-> 0]]
  BY DEF Init, NoRuns, NoRun, NoRows
<1>2. <<>> \in Seq(Ingests) /\ IsInjective(<<>>)
  BY SMT DEF IsInjective
<1>3. TodoIsAhead /\ AuditBegins
  BY <1>1, <1>2, SMT DEF TodoIsAhead, AuditBegins
<1>4. CountersNeverAhead
  <2> SUFFICES ASSUME NEW p \in Passes
               PROVE  /\ run[p].count <= Cardinality(Rows(p, "success") \cup Rows(p, "failed"))
                      /\ run[p].failed <= Cardinality(Rows(p, "failed"))
    BY DEF CountersNeverAhead
  <2>1. /\ Cardinality(Rows(p, "success") \cup Rows(p, "failed")) \in Nat
        /\ Cardinality(Rows(p, "failed")) \in Nat
    BY SomeIngests DEF Rows
  <2> QED BY <1>1, <2>1, SMT
<1>5. SuccessIsWhole
  BY <1>1 DEF SuccessIsWhole
<1>6. BumpIsDue /\ SoFarWhole
  BY <1>1 DEF BumpIsDue, SoFarWhole
<1>7. FailuresBounded
  <2>1. 0 <= Cardinality(Ingests)
    BY SomeIngests, SMT
  <2> QED BY <1>1, <2>1 DEF FailuresBounded
<1> QED BY <1>3, <1>4, <1>5, <1>6, <1>7 DEF Audit

\* The invariant the results below are read off.
THEOREM Invariance == Spec => []IInv
<1>1. Init => IInv
  BY InitFlow, InitAudit DEF IInv
<1>2. IInv /\ [Next]_vars => IInv'
  BY FlowStep, AuditStep DEF IInv
<1> QED BY <1>1, <1>2, PTL DEF Spec

\* The values of the variables, for any schedule.
THEOREM TypeCorrect == Spec => []TypeOK
<1>1. IInv => TypeOK
  <2> SUFFICES ASSUME IInv PROVE TypeOK
    OBVIOUS
  <2>1. Shape /\ TodoIsAhead /\ FailuresBounded /\ CountersNeverAhead
    BY DEF IInv, Flow, Audit
  <2>2. degraded \in BOOLEAN /\ kicked \in BOOLEAN
    BY DEF IInv, Flow, Decided
  <2>3. row \in [Passes -> [Ingests -> {"none", "success", "failed"}]]
    BY DEF IInv, Audit, AuditBegins
  <2>4. Cardinality(Ingests) \in Nat
    BY SomeIngests
  <2>5. failures \in 0 .. Cardinality(Ingests)
    BY <2>1, <2>4, SMT DEF TodoIsAhead, FailuresBounded
  <2>6. run \in [Passes -> [status : {"none", "running", "success", "partial", "failed"},
                            count : 0 .. Cardinality(Ingests),
                            failed : 0 .. Cardinality(Ingests)]]
    <3>1. ASSUME NEW p \in Passes
          PROVE  run[p].count \in 0 .. Cardinality(Ingests)
                 /\ run[p].failed \in 0 .. Cardinality(Ingests)
      <4>1. /\ Cardinality(Rows(p, "success") \cup Rows(p, "failed")) \in Nat
            /\ Cardinality(Rows(p, "success") \cup Rows(p, "failed")) <= Cardinality(Ingests)
            /\ Cardinality(Rows(p, "failed")) \in Nat
            /\ Cardinality(Rows(p, "failed")) <= Cardinality(Ingests)
        BY SomeIngests DEF Rows
      <4>2. run[p].count \in Nat /\ run[p].failed \in Nat
        BY <2>1, SMT DEF Shape
      <4> QED BY <2>1, <2>4, <4>1, <4>2, SMT DEF CountersNeverAhead
    <3> QED BY <2>1, <3>1, SMT DEF Shape
  <2> QED BY <2>1, <2>2, <2>3, <2>5, <2>6 DEF TypeOK, Shape, TodoIsAhead
<1> QED BY <1>1, Invariance, PTL

\* A run recorded as a success is whole, for any schedule.
THEOREM SuccessWhole == Spec => []SuccessIsWhole
<1>1. IInv => SuccessIsWhole
  BY DEF IInv, Audit
<1> QED BY <1>1, Invariance, PTL

\* The counters of a run are never ahead of its rows, for any schedule.
THEOREM CountersHold == Spec => []CountersNeverAhead
<1>1. IInv => CountersNeverAhead
  BY DEF IInv, Audit
<1> QED BY <1>1, Invariance, PTL

\* The night leaves with status 0 only when both runs are a success and
\* nothing degraded it.
THEOREM ExitZero == Spec => []ExitZeroIsClean
<1>1. IInv => ExitZeroIsClean
  BY DEF IInv, Flow
<1> QED BY <1>1, Invariance, PTL

\* nightly.sh never publishes a build with a run cut short.
THEOREM PublishesWhole == Spec => []NoCutRunPublished
<1>1. IInv => NoCutRunPublished
  BY DEF IInv, Flow
<1> QED BY <1>1, Invariance, PTL

\* The MotherDuck publish is launched only over a snapshot of both passes.
THEOREM KickAfterBoth == Spec => []KickReadsTonight
<1>1. IInv => KickReadsTonight
  BY DEF IInv, Flow
<1> QED BY <1>1, Invariance, PTL

=============================================================================
