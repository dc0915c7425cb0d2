--------------------------- MODULE SchemaApplyProofs ---------------------------
(***************************************************************************)
(* Proofs about SchemaApply for any contents, names and versions, any      *)
(* queue bound and any number of faults, and that it implements            *)
(* SchemaHistory.                                                          *)
(***************************************************************************)
EXTENDS SchemaApply, SequenceTheorems, TLAPS

\* Who holds the flock, read off where the two lanes are.
FlockFollowsLanes ==
  /\ flock = "apply" <=> now \in {"check", "execute", "verify", "finish"}
  /\ flock = "nightly" <=> night = "setup"

\* The apply lane works on a claimed row, and one it runs was authorised.
SubjectIsAuthorised ==
  /\ now \in {"execute", "verify", "finish"} => claimed # <<>>
  /\ now = "execute" => Subject \in merged
  /\ now \in {"verify", "finish"} /\ outcome = "committed" =>
       \E i \in DOMAIN effects : NameOf[effects[i]] = NameOf[Subject]

\* A checkout holds merged files under their own names, and the box is never
\* ahead of origin/main.
CheckoutsAreMerged ==
  \A n \in Name :
    /\ main[n] # NoDdl => main[n] \in merged /\ NameOf[main[n]] = n
    /\ box[n] # NoDdl => box[n] \in merged /\ NameOf[box[n]] = n
    /\ box[n] # NoDdl => main[n] # NoDdl
    /\ n \in todo => box[n] # NoDdl

\* What ran was merged.
EffectsAreMerged == \A i \in DOMAIN effects : effects[i] \in merged

\* The inductive invariant: a committed row can be trusted because the row in
\* hand keeps its content while it waits for its status, and schema_version
\* because neither lane runs a DDL whose version it has not just found free.
IInv ==
  /\ TypeOK
  /\ FlockFollowsLanes
  /\ SubjectIsAuthorised
  /\ CheckoutsAreMerged
  /\ EffectsAreMerged
  /\ OneEffectPerVersion
  /\ NotSwallowed
-----------------------------------------------------------------------------
(* The queue.                                                              *)

\* Replacing one element of a sequence keeps it a sequence of its length.
LEMMA PutInSeq ==
  ASSUME NEW S, NEW t \in Seq(S), NEW i \in DOMAIN t, NEW e \in S
  PROVE  /\ [t EXCEPT ![i] = e] \in Seq(S)
         /\ Len([t EXCEPT ![i] = e]) = Len(t)
BY SMT

\* The same for all its elements at once.
LEMMA MapInSeq ==
  ASSUME NEW S, NEW t \in Seq(S), NEW u \in [DOMAIN t -> S]
  PROVE  u \in Seq(S) /\ Len(u) = Len(t)
BY SMT

\* SetStatus rewrites one row and keeps its content.
LEMMA SetStatusRow ==
  ASSUME queue \in Seq(Row), NEW q \in DOMAIN queue,
         NEW s \in Terminal \cup InFlight, NEW w \in {"nobody", "apply", "process"}
  PROVE  /\ SetStatus(q, s, w) \in Seq(Row)
         /\ Len(SetStatus(q, s, w)) = Len(queue)
         /\ DOMAIN SetStatus(q, s, w) = DOMAIN queue
         /\ \A r \in DOMAIN queue : SetStatus(q, s, w)[r].ddl = queue[r].ddl
         /\ \A r \in DOMAIN queue \ {q} : SetStatus(q, s, w)[r] = queue[r]
         /\ SetStatus(q, s, w)[q].status = s /\ SetStatus(q, s, w)[q].by = w
<1> DEFINE row == [queue[q] EXCEPT !.status = s, !.by = w]
<1>1. queue[q] \in Row
  BY LenProperties
<1>2. row \in Row
  BY <1>1 DEF Row
<1>3. row.ddl = queue[q].ddl /\ row.status = s /\ row.by = w
  BY <1>1 DEF Row
<1>4. SetStatus(q, s, w) = [queue EXCEPT ![q] = row]
  BY Zenon DEF SetStatus
<1> HIDE DEF row
<1>5. SetStatus(q, s, w) \in Seq(Row) /\ Len(SetStatus(q, s, w)) = Len(queue)
  BY <1>2, <1>4, PutInSeq
<1>6. /\ DOMAIN SetStatus(q, s, w) = DOMAIN queue
      /\ \A r \in DOMAIN queue \ {q} : SetStatus(q, s, w)[r] = queue[r]
      /\ SetStatus(q, s, w)[q] = row
  BY <1>4
<1> QED BY <1>3, <1>5, <1>6

\* So does sending some rows back, or letting them grow stale.
Restatused(R, s) ==
  [q \in DOMAIN queue |-> IF q \in R THEN [queue[q] EXCEPT !.status = s] ELSE queue[q]]

\* Restatused keeps every row and its content, and commits none.
LEMMA RestatusedRows ==
  ASSUME queue \in Seq(Row), NEW R, NEW s \in {"queued", "stale"}
  PROVE  /\ Restatused(R, s) \in Seq(Row)
         /\ Len(Restatused(R, s)) = Len(queue)
         /\ DOMAIN Restatused(R, s) = DOMAIN queue
         /\ \A q \in DOMAIN queue : Restatused(R, s)[q].ddl = queue[q].ddl
         /\ \A q \in DOMAIN queue :
              Restatused(R, s)[q].status = "committed" => Restatused(R, s)[q] = queue[q]
<1> DEFINE u == Restatused(R, s)
<1>u. u = [q \in DOMAIN queue |-> IF q \in R THEN [queue[q] EXCEPT !.status = s] ELSE queue[q]]
  BY Zenon DEF Restatused
<1> HIDE DEF u
<1>1. \A q \in DOMAIN queue : queue[q] \in Row
  BY LenProperties
<1>2. ASSUME NEW q \in DOMAIN queue
      PROVE  u[q] \in Row /\ u[q].ddl = queue[q].ddl /\ (u[q].status = "committed" => u[q] = queue[q])
  <2>1. CASE q \in R
    <3>1. u[q] = [queue[q] EXCEPT !.status = s]
      BY <1>u, <2>1
    <3>2. u[q] \in Row /\ u[q].ddl = queue[q].ddl /\ u[q].status = s
      BY <1>1, <3>1 DEF Row, InFlight
    <3> QED BY <3>2
  <2>2. CASE q \notin R
    BY <1>u, <1>1, <2>2
  <2> QED BY <2>1, <2>2
<1>3. u \in [DOMAIN queue -> Row]
  BY <1>u, <1>2, Zenon
<1>4. u \in Seq(Row) /\ Len(u) = Len(queue)
  BY <1>3, MapInSeq
<1>5. DOMAIN u = DOMAIN queue
  BY <1>u
<1> QED BY <1>2, <1>4, <1>5 DEF u

\* What no step does to the queue: lose a row, change what it asks for, or
\* report one committed that apply-now has not just finished.
QueueGrows ==
  /\ queue' \in Seq(Row) /\ Len(queue') <= MaxRows
  /\ DOMAIN queue \subseteq DOMAIN queue'
  /\ \A q \in DOMAIN queue : queue'[q].ddl = queue[q].ddl
  /\ \A q \in DOMAIN queue' : queue'[q].status = "committed" /\ queue'[q].by = "apply" =>
       \/ q \in DOMAIN queue /\ queue[q].status = "committed" /\ queue[q].by = "apply"
       \/ now = "finish" /\ outcome = "committed" /\ claimed # <<>> /\ q = Head(claimed)

\* No step does any of that.
LEMMA QueueStep == TypeOK /\ SubjectIsAuthorised /\ [Next]_vars => QueueGrows
<1> SUFFICES ASSUME TypeOK, SubjectIsAuthorised, [Next]_vars PROVE QueueGrows
  OBVIOUS
<1>q. queue \in Seq(Row) /\ Len(queue) <= MaxRows
  BY DEF TypeOK
<1>1. ASSUME UNCHANGED queue PROVE QueueGrows
  BY <1>q, <1>1 DEF QueueGrows
<1>2. ASSUME NEW q \in DOMAIN queue, NEW s \in Terminal \cup InFlight,
             NEW w \in {"nobody", "apply", "process"},
             queue' = SetStatus(q, s, w),
             s = "committed" /\ w = "apply" =>
               now = "finish" /\ outcome = "committed" /\ claimed # <<>> /\ q = Head(claimed)
      PROVE  QueueGrows
  <2> DEFINE u == SetStatus(q, s, w)
  <2>1. /\ u \in Seq(Row) /\ Len(u) = Len(queue) /\ DOMAIN u = DOMAIN queue
        /\ \A r \in DOMAIN queue : u[r].ddl = queue[r].ddl
        /\ \A r \in DOMAIN queue \ {q} : u[r] = queue[r]
        /\ u[q].status = s /\ u[q].by = w
    BY <1>q, SetStatusRow
  <2> HIDE DEF u
  <2>2. queue' = u
    BY <1>2 DEF u
  <2> QED BY <1>q, <1>2, <2>1, <2>2 DEF QueueGrows
<1>3. ASSUME NEW R, NEW s \in {"queued", "stale"}, queue' = Restatused(R, s)
      PROVE  QueueGrows
  <2> DEFINE u == Restatused(R, s)
  <2>1. /\ u \in Seq(Row) /\ Len(u) = Len(queue) /\ DOMAIN u = DOMAIN queue
        /\ \A q \in DOMAIN queue : u[q].ddl = queue[q].ddl
        /\ \A q \in DOMAIN queue : u[q].status = "committed" => u[q] = queue[q]
    BY <1>q, RestatusedRows
  <2> HIDE DEF u
  <2>2. queue' = u
    BY <1>3 DEF u
  <2> QED BY <1>q, <2>1, <2>2 DEF QueueGrows
<1>4. ASSUME NEW d \in Ddl, Enqueue(d) PROVE QueueGrows
  <2> DEFINE row == [ddl |-> d, status |-> "queued", by |-> "nobody"]
  <2>1. row \in Row
    BY DEF Row, InFlight
  <2> HIDE DEF row
  <2>2. queue' = Append(queue, row) /\ Len(queue) < MaxRows
    BY <1>4 DEF Enqueue, row
  <2>3. row.status # "committed"
    BY DEF row
  <2>4. /\ queue' \in Seq(Row) /\ Len(queue') = Len(queue) + 1 /\ Len(queue) \in Nat
        /\ \A r \in 1 .. Len(queue) : queue'[r] = queue[r]
        /\ queue'[Len(queue) + 1] = row
        /\ DOMAIN queue = 1 .. Len(queue) /\ DOMAIN queue' = 1 .. Len(queue')
    BY <1>q, <2>1, <2>2, AppendProperties, LenProperties
  <2> QED BY <2>2, <2>3, <2>4, BoundsAssumption, SMT DEF QueueGrows
<1>5. ASSUME NEW q \in DOMAIN queue, Claim(q) \/ ReviewClaim(q) PROVE QueueGrows
  BY <1>2, <1>5 DEF Claim, ReviewClaim, InFlight
<1>6. ASSUME NEW q \in DOMAIN queue, Age(q) PROVE QueueGrows
  <2>1. queue' = Restatused({q}, "stale")
    BY <1>6 DEF Age, Restatused
  <2> QED BY <1>3, <2>1
<1>7. CASE ApplyNow
  <2>1. CASE UNCHANGED queue
    BY <1>1, <2>1
  <2>2. CASE queue' = [q \in DOMAIN queue |->
           IF queue[q].status = "stale" THEN [queue[q] EXCEPT !.status = "queued"] ELSE queue[q]]
    <3> DEFINE R == {q \in DOMAIN queue : queue[q].status = "stale"}
    <3>1. queue' = Restatused(R, "queued")
      BY <2>2 DEF Restatused
    <3> HIDE DEF R
    <3> QED BY <1>3, <3>1
  <2> QED BY <1>7, <2>1, <2>2 DEF ApplyNow
<1>8. CASE GiveUp
  <2>1. PICK R \in SUBSET Range(claimed) : queue' = Restatused(R, "queued")
    BY <1>8, Zenon DEF GiveUp, Restatused
  <2> QED BY <1>3, <2>1
<1>9. CASE Finish
  <2>1. Head(claimed) \in DOMAIN queue /\ claimed # <<>> /\ outcome \in Terminal
    BY <1>9, HeadTailProperties DEF Finish, TypeOK, SubjectIsAuthorised
  <2> QED BY <1>2, <1>9, <2>1, Zenon DEF Finish
<1>10. CASE ReviewDone
  <2>1. review \in DOMAIN queue
    BY <1>10 DEF ReviewDone, TypeOK
  <2>2. CASE queue' = SetStatus(review, "committed", "process")
    BY <1>2, <2>1, <2>2 DEF Terminal
  <2>3. CASE queue' = SetStatus(review, "failed", "process")
    BY <1>2, <2>1, <2>3 DEF Terminal
  <2> QED BY <1>10, <2>2, <2>3 DEF ReviewDone
<1>11. ASSUME NEW d \in Ddl, RecordPass(d) \/ MergePr(d) PROVE QueueGrows
  BY <1>1, <1>11 DEF RecordPass, MergePr, postgres
<1>12. CASE Pull \/ ClaimFails \/ ClaimDone \/ TakeFlock \/ Applying \/ Crash
  BY <1>1, <1>12 DEF Pull, ClaimFails, ClaimDone, TakeFlock, Applying, Check, CheckFails,
     Execute, ExecuteFails, Verify, Crash, postgres
<1>13. CASE FinishFails \/ Release \/ PromoteNow
  BY <1>1, <1>13 DEF FinishFails, NextRow, Release, PromoteNow, postgres
<1>14. CASE Nightly
  BY <1>1, <1>14 DEF Nightly, SetupDb, SetupDone, PromoteNightly, SkipFile, RunFile,
     RunFileFails, NextFile, postgres
<1>15. CASE UNCHANGED vars
  BY <1>1, <1>15 DEF vars, postgres
<1> QED
  BY <1>4, <1>5, <1>6, <1>7, <1>8, <1>9, <1>10, <1>11, <1>12, <1>13, <1>14, <1>15
  DEF Next, Writers, Claiming, Finishing, Reviewing
-----------------------------------------------------------------------------
(* The database.                                                           *)

\* The row in hand is a row of the queue, and asks for a content.
LEMMA SubjectInQueue ==
  ASSUME TypeOK, claimed # <<>>
  PROVE  Head(claimed) \in DOMAIN queue /\ Subject \in Ddl
<1>1. Head(claimed) \in DOMAIN queue
  BY HeadTailProperties DEF TypeOK
<1>2. queue[Head(claimed)] \in Row
  BY <1>1, LenProperties DEF TypeOK
<1> QED BY <1>1, <1>2 DEF Subject, Row

\* Whichever lane runs a DDL, its version was free and its content is merged.
Runs(d) ==
  /\ Run(d) /\ recorded[VersionOf[d]] = NoName /\ d \in merged
  /\ UNCHANGED <<git, served>>

\* The database changes only so.
LEMMA RunStep ==
  IInv /\ [Next]_vars => UNCHANGED <<effects, recorded>> \/ \E d \in Ddl : Runs(d)
<1> SUFFICES ASSUME IInv, [Next]_vars
             PROVE  UNCHANGED <<effects, recorded>> \/ \E d \in Ddl : Runs(d)
  OBVIOUS
<1>1. CASE Execute
  <2>1. Subject \in Ddl /\ Subject \in merged
    BY <1>1, SubjectInQueue DEF Execute, IInv, SubjectIsAuthorised
  <2> QED BY <1>1, <2>1 DEF Execute, Runs
<1>2. ASSUME NEW n \in Name, RunFile(n)
      PROVE  \E d \in Ddl : Runs(d)
  <2>1. box[n] \in Ddl /\ box[n] \in merged /\ NameOf[box[n]] = n
    BY <1>2 DEF RunFile, NextFile, IInv, TypeOK, CheckoutsAreMerged
  <2>2. recorded[VersionOf[box[n]]] = NoName
    BY <1>2, <2>1 DEF RunFile, VersionOf
  <2> QED BY <1>2, <2>1, <2>2 DEF RunFile, NextFile, Runs
<1>3. ASSUME NEW d \in Ddl, RecordPass(d) \/ Enqueue(d) \/ MergePr(d)
      PROVE  UNCHANGED <<effects, recorded>>
  BY <1>3 DEF RecordPass, Enqueue, MergePr, warehouse
<1>4. ASSUME NEW q \in DOMAIN queue, Age(q) \/ Claim(q) \/ ReviewClaim(q)
      PROVE  UNCHANGED <<effects, recorded>>
  BY <1>4 DEF Age, Claim, ReviewClaim, warehouse
<1>5. CASE Pull \/ ApplyNow \/ ClaimFails \/ ClaimDone \/ TakeFlock \/ GiveUp
  BY <1>5 DEF Pull, ApplyNow, ClaimFails, ClaimDone, TakeFlock, GiveUp, warehouse
<1>6. CASE Check \/ CheckFails \/ ExecuteFails \/ Verify \/ Finishing
  BY <1>6 DEF Check, CheckFails, ExecuteFails, Verify, Finishing, Finish, FinishFails,
              NextRow, Release, PromoteNow, warehouse
<1>7. CASE ReviewDone \/ Crash
  BY <1>7 DEF ReviewDone, Crash, warehouse
<1>8. CASE SetupDb \/ SetupDone \/ PromoteNightly
  BY <1>8 DEF SetupDb, SetupDone, PromoteNightly, warehouse
<1>9. ASSUME NEW n \in Name, SkipFile(n) \/ RunFileFails(n)
      PROVE  UNCHANGED <<effects, recorded>>
  BY <1>9 DEF SkipFile, RunFileFails
<1>10. CASE UNCHANGED vars
  BY <1>10 DEF vars, warehouse
<1> QED
  BY <1>1, <1>2, <1>3, <1>4, <1>5, <1>6, <1>7, <1>8, <1>9, <1>10
  DEF Next, Writers, Claiming, Applying, Reviewing, Nightly

\* Appending to the effects shows nothing else.
LEMMA RunAppends ==
  ASSUME TypeOK, NEW d \in Ddl, Run(d)
  PROVE  /\ effects' \in Seq(Ddl) /\ recorded' \in [Version -> Name \cup {NoName}]
         /\ DOMAIN effects = 1 .. Len(effects) /\ Len(effects) \in Nat
         /\ DOMAIN effects' = 1 .. Len(effects) + 1
         /\ \A i \in DOMAIN effects : effects'[i] = effects[i]
         /\ effects'[Len(effects) + 1] = d
         /\ VersionOf[d] \in Version /\ VersionOf[d] = NumberOf[NameOf[d]] /\ NameOf[d] \in Name
         /\ recorded' = [recorded EXCEPT ![VersionOf[d]] = NameOf[d]]
<1>1. VersionOf[d] \in Version /\ VersionOf[d] = NumberOf[NameOf[d]] /\ NameOf[d] \in Name
  BY NameOfAssumption DEF VersionOf
<1>2. effects \in Seq(Ddl) /\ effects' = Append(effects, d)
  BY DEF TypeOK, Run
<1>3. effects' \in Seq(Ddl) /\ Len(effects') = Len(effects) + 1 /\ Len(effects) \in Nat
  BY <1>2, AppendProperties, LenProperties
<1>4. DOMAIN effects = 1 .. Len(effects) /\ DOMAIN effects' = 1 .. Len(effects')
  BY <1>2, <1>3, LenProperties
<1>5. \A i \in 1 .. Len(effects) : effects'[i] = effects[i]
  BY <1>2, AppendProperties
<1>6. effects'[Len(effects) + 1] = d
  BY <1>2, AppendProperties
<1> QED BY <1>1, <1>3, <1>4, <1>5, <1>6 DEF Run, TypeOK

-----------------------------------------------------------------------------
(* Each part of the invariant is kept.                                     *)

\* The warehouse starts empty, with nobody at work.
LEMMA InitIInv == Init => IInv
<1> SUFFICES ASSUME Init PROVE IInv
  OBVIOUS
<1>1. TypeOK
  <2>1. queue \in Seq(Row) /\ Len(queue) = 0 /\ claimed \in Seq(DOMAIN queue)
    BY EmptySeq DEF Init
  <2>2. effects \in Seq(Ddl) /\ served \subseteq Range(effects)
    BY EmptySeq DEF Init
  <2>3. recorded \in [Version -> Name \cup {NoName}] /\ main \in [Name -> Ddl \cup {NoDdl}]
    BY DEF Init
  <2>4. Len(queue) <= MaxRows /\ faults \in 0 .. MaxFaults
    BY <2>1, BoundsAssumption, SMT DEF Init
  <2>5. box \in [Name -> Ddl \cup {NoDdl}]
    BY <2>3 DEF Init
  <2>6. ledger \subseteq Ddl /\ merged \subseteq Ddl /\ todo \subseteq Name
    BY DEF Init
  <2>7. /\ flock = "free" /\ now = "idle" /\ outcome \in Terminal /\ night = "idle"
        /\ fresh = FALSE /\ applied = FALSE /\ review = 0
    BY DEF Init, Terminal
  <2> QED BY <2>1, <2>2, <2>3, <2>4, <2>5, <2>6, <2>7 DEF TypeOK
<1>2. FlockFollowsLanes /\ SubjectIsAuthorised /\ CheckoutsAreMerged /\ EffectsAreMerged
  BY DEF Init, FlockFollowsLanes, SubjectIsAuthorised, CheckoutsAreMerged, EffectsAreMerged
<1>3. OneEffectPerVersion /\ NotSwallowed
  BY NoDdlAssumption DEF Init, OneEffectPerVersion, NotSwallowed
<1> QED BY <1>1, <1>2, <1>3 DEF IInv

\* Claims only ever name rows of the queue.
LEMMA ClaimsStep == IInv /\ [Next]_vars => claimed' \in Seq(DOMAIN queue')
<1> SUFFICES ASSUME IInv, [Next]_vars PROVE claimed' \in Seq(DOMAIN queue')
  OBVIOUS
<1>q. DOMAIN queue \subseteq DOMAIN queue' /\ claimed \in Seq(DOMAIN queue)
  BY QueueStep DEF IInv, QueueGrows, TypeOK
<1>1. CASE claimed' = claimed
  BY <1>q, <1>1, SeqMonotonic
<1>2. CASE claimed' = <<>>
  BY <1>2, EmptySeq
<1>3. ASSUME NEW q \in DOMAIN queue, claimed' = Append(claimed, q)
      PROVE  claimed' \in Seq(DOMAIN queue')
  BY <1>q, <1>3, SeqMonotonic, AppendProperties
<1>4. CASE now = "finish" /\ claimed' = Tail(claimed)
  <2>1. Tail(claimed) \in Seq(DOMAIN queue)
    BY <1>q, <1>4, HeadTailProperties DEF IInv, SubjectIsAuthorised
  <2> QED BY <1>q, <1>4, <2>1, SeqMonotonic
<1>5. ASSUME NEW d \in Ddl, RecordPass(d) \/ Enqueue(d) \/ MergePr(d) PROVE claimed' = claimed
  BY <1>5 DEF RecordPass, Enqueue, MergePr, batch
<1>6. ASSUME NEW q \in DOMAIN queue, Claim(q) PROVE claimed' = Append(claimed, q)
  BY <1>6 DEF Claim
<1>7. ASSUME NEW q \in DOMAIN queue, Age(q) \/ ReviewClaim(q) PROVE claimed' = claimed
  BY <1>7 DEF Age, ReviewClaim, batch
<1>8. CASE ApplyNow \/ ClaimFails \/ GiveUp \/ Crash
  BY <1>2, <1>8 DEF ApplyNow, ClaimFails, GiveUp, Crash
<1>9. CASE Finish \/ FinishFails
  BY <1>4, <1>9 DEF Finish, FinishFails, NextRow
<1>10. CASE Pull \/ ClaimDone \/ TakeFlock \/ Applying \/ Release \/ PromoteNow \/ ReviewDone
  BY <1>1, <1>10 DEF Pull, ClaimDone, TakeFlock, Applying, Check, CheckFails, Execute,
     ExecuteFails, Verify, Release, PromoteNow, ReviewDone, batch
<1>11. CASE Nightly
  BY <1>1, <1>11 DEF Nightly, SetupDb, SetupDone, PromoteNightly, SkipFile, RunFile,
     RunFileFails, NextFile, batch
<1>12. CASE UNCHANGED vars
  BY <1>1, <1>12 DEF vars, batch
<1> QED
  BY <1>1, <1>3, <1>5, <1>6, <1>7, <1>8, <1>9, <1>10, <1>11, <1>12
  DEF Next, Writers, Claiming, Finishing, Reviewing

\* The repository only moves by a merge or a pull.
LEMMA GitStep ==
  TypeOK /\ [Next]_vars =>
    \/ UNCHANGED git
    \/ box # main /\ box' = main /\ UNCHANGED <<main, merged, todo>>
    \/ \E d \in Ddl : /\ main' = [main EXCEPT ![NameOf[d]] = d] /\ merged' = merged \cup {d}
                       /\ d \notin merged /\ UNCHANGED <<box, todo, effects, served>>
<1> SUFFICES ASSUME TypeOK, [Next]_vars, ~ UNCHANGED git
    PROVE \/ box # main /\ box' = main /\ UNCHANGED <<main, merged, todo>>
          \/ \E d \in Ddl : /\ main' = [main EXCEPT ![NameOf[d]] = d] /\ merged' = merged \cup {d}
                             /\ d \notin merged /\ UNCHANGED <<box, todo, effects, served>>
  OBVIOUS
<1>1. CASE Pull
  BY <1>1 DEF Pull, nightly
<1>2. ASSUME NEW d \in Ddl, MergePr(d)
      PROVE  /\ main' = [main EXCEPT ![NameOf[d]] = d] /\ merged' = merged \cup {d}
             /\ d \notin merged /\ UNCHANGED <<box, todo, effects, served>>
  BY <1>2 DEF MergePr, nightly, warehouse
<1>3. ASSUME NEW d \in Ddl, RecordPass(d) \/ Enqueue(d) PROVE FALSE
  BY <1>3 DEF RecordPass, Enqueue
<1>4. ASSUME NEW q \in DOMAIN queue, Age(q) \/ Claim(q) \/ ReviewClaim(q) PROVE FALSE
  BY <1>4 DEF Age, Claim, ReviewClaim
<1>5. CASE ApplyNow \/ ClaimFails \/ ClaimDone \/ TakeFlock \/ GiveUp
  BY <1>5 DEF ApplyNow, ClaimFails, ClaimDone, TakeFlock, GiveUp
<1>6. CASE Applying \/ Finishing \/ ReviewDone \/ Crash
  BY <1>6 DEF Applying, Check, CheckFails, Execute, ExecuteFails, Verify,
     Finishing, Finish, FinishFails, NextRow, Release, PromoteNow, ReviewDone, Crash
<1>7. CASE Nightly
  BY <1>7 DEF Nightly, SetupDb, SetupDone, PromoteNightly, SkipFile, RunFile,
     RunFileFails, NextFile
<1>8. CASE UNCHANGED vars
  BY <1>8 DEF vars
<1> QED
  BY <1>1, <1>2, <1>3, <1>4, <1>5, <1>6, <1>7, <1>8 DEF Next, Writers, Claiming, Reviewing

\* Snapshots are whole: the serving copy stays, or takes over what is live.
LEMMA ServedStep ==
  [Next]_vars => UNCHANGED served \/ (served' = Range(effects) /\ UNCHANGED <<effects, git>>)
<1> SUFFICES ASSUME [Next]_vars
    PROVE UNCHANGED served \/ (served' = Range(effects) /\ UNCHANGED <<effects, git>>)
  OBVIOUS
<1>1. CASE PromoteNow \/ PromoteNightly
  BY <1>1 DEF PromoteNow, PromoteNightly
<1>2. ASSUME NEW d \in Ddl, RecordPass(d) \/ Enqueue(d) \/ MergePr(d) PROVE UNCHANGED served
  BY <1>2 DEF RecordPass, Enqueue, MergePr, warehouse
<1>3. ASSUME NEW q \in DOMAIN queue, Age(q) \/ Claim(q) \/ ReviewClaim(q)
      PROVE UNCHANGED served
  BY <1>3 DEF Age, Claim, ReviewClaim, warehouse
<1>4. CASE Pull \/ ApplyNow \/ ClaimFails \/ ClaimDone \/ TakeFlock \/ GiveUp
  BY <1>4 DEF Pull, ApplyNow, ClaimFails, ClaimDone, TakeFlock, GiveUp, warehouse
<1>5. CASE Applying \/ Finish \/ FinishFails \/ Release \/ ReviewDone \/ Crash
  BY <1>5 DEF Applying, Check, CheckFails, Execute, ExecuteFails, Verify,
     Finish, FinishFails, NextRow, Release, ReviewDone, Crash, warehouse
<1>6. CASE SetupDb \/ SetupDone \/ \E n \in Name : SkipFile(n) \/ RunFile(n) \/ RunFileFails(n)
  BY <1>6 DEF SetupDb, SetupDone, SkipFile, RunFile, RunFileFails, NextFile, warehouse
<1>7. CASE UNCHANGED vars
  BY <1>7 DEF vars, warehouse
<1> QED
  BY <1>1, <1>2, <1>3, <1>4, <1>5, <1>6, <1>7
  DEF Next, Writers, Claiming, Finishing, Reviewing, Nightly

\* The positions of the two lanes, the flags and the counters.
ControlOK ==
  /\ ledger \subseteq Ddl
  /\ flock \in {"free", "apply", "nightly"}
  /\ now \in {"idle", "claim", "wait", "check", "execute", "verify", "finish", "promote"}
  /\ outcome \in Terminal /\ fresh \in BOOLEAN /\ applied \in BOOLEAN
  /\ night \in {"idle", "setup", "promote"} /\ todo \subseteq Name
  /\ faults \in 0 .. MaxFaults

\* Every step moves the lanes along their known steps.
LEMMA ControlStep == TypeOK /\ [Next]_vars => ControlOK'
<1> SUFFICES ASSUME TypeOK, [Next]_vars PROVE ControlOK'
  OBVIOUS
<1>0. ControlOK
  BY DEF TypeOK, ControlOK
<1>f. Fault => faults' \in 0 .. MaxFaults
  BY <1>0, BoundsAssumption, SMT DEF Fault, ControlOK
<1> USE <1>0, <1>f DEF ControlOK
<1>1. ASSUME NEW d \in Ddl, RecordPass(d) \/ Enqueue(d) \/ MergePr(d) PROVE ControlOK'
  BY <1>1 DEF RecordPass, Enqueue, MergePr, postgres, batch, nightly
<1>2. ASSUME NEW q \in DOMAIN queue, Age(q) \/ Claim(q) \/ ReviewClaim(q) PROVE ControlOK'
  BY <1>2 DEF Age, Claim, ReviewClaim, batch, nightly
<1>3. CASE Pull \/ ClaimDone \/ TakeFlock
  BY <1>3 DEF Pull, ClaimDone, TakeFlock, postgres, batch, nightly
<1>4. CASE ApplyNow \/ ClaimFails \/ GiveUp \/ Crash
  BY <1>4 DEF ApplyNow, ClaimFails, GiveUp, Crash, postgres, nightly, Terminal
<1>5. CASE Check \/ CheckFails \/ Execute \/ ExecuteFails \/ Verify
  BY <1>5 DEF Check, CheckFails, Execute, ExecuteFails, Verify, postgres, nightly, Terminal
<1>6. CASE Finishing
  BY <1>6 DEF Finishing, Finish, FinishFails, NextRow, Release, PromoteNow, postgres, batch, nightly
<1>7. CASE ReviewDone
  <2>1. review \in DOMAIN queue /\ queue[review].ddl \in Ddl
    <3>1. review \in DOMAIN queue
      BY <1>7 DEF ReviewDone, TypeOK
    <3>2. queue[review] \in Row
      BY <3>1, LenProperties DEF TypeOK
    <3> QED BY <3>1, <3>2 DEF Row
  <2> QED BY <1>7, <2>1 DEF ReviewDone, batch, nightly
<1>8. CASE SetupDb \/ SetupDone \/ PromoteNightly
  BY <1>8 DEF SetupDb, SetupDone, PromoteNightly, postgres, batch
<1>9. ASSUME NEW n \in Name, SkipFile(n) \/ RunFile(n) \/ RunFileFails(n) PROVE ControlOK'
  BY <1>9 DEF SkipFile, RunFile, RunFileFails, NextFile, postgres, batch
<1>10. CASE UNCHANGED vars
  BY <1>10 DEF vars, postgres, batch, nightly
<1> QED
  BY <1>1, <1>2, <1>3, <1>4, <1>5, <1>6, <1>7, <1>8, <1>9, <1>10
  DEF Next, Writers, Claiming, Applying, Reviewing, Nightly

\* A review is of a row of the queue.
LEMMA ReviewStep == IInv /\ [Next]_vars => review' \in {0} \cup DOMAIN queue'
<1> SUFFICES ASSUME IInv, [Next]_vars PROVE review' \in {0} \cup DOMAIN queue'
  OBVIOUS
<1>q. DOMAIN queue \subseteq DOMAIN queue' /\ review \in {0} \cup DOMAIN queue
  BY QueueStep DEF IInv, QueueGrows, TypeOK
<1>1. CASE review' = review
  BY <1>q, <1>1
<1>2. CASE review' = 0
  BY <1>2
<1>3. ASSUME NEW q \in DOMAIN queue, ReviewClaim(q) PROVE review' \in DOMAIN queue'
  BY <1>q, <1>3 DEF ReviewClaim
<1>4. ASSUME NEW d \in Ddl, RecordPass(d) \/ Enqueue(d) \/ MergePr(d) PROVE review' = review
  BY <1>4 DEF RecordPass, Enqueue, MergePr
<1>5. ASSUME NEW q \in DOMAIN queue, Age(q) \/ Claim(q) PROVE review' = review
  BY <1>5 DEF Age, Claim
<1>6. CASE Pull \/ ApplyNow \/ ClaimFails \/ ClaimDone \/ TakeFlock \/ GiveUp
  BY <1>1, <1>6 DEF Pull, ApplyNow, ClaimFails, ClaimDone, TakeFlock, GiveUp
<1>7. CASE Applying \/ Finishing
  BY <1>1, <1>7 DEF Applying, Check, CheckFails, Execute, ExecuteFails, Verify,
     Finishing, Finish, FinishFails, NextRow, Release, PromoteNow
<1>8. CASE ReviewDone \/ Crash
  BY <1>2, <1>8 DEF ReviewDone, Crash
<1>9. CASE Nightly
  BY <1>1, <1>9 DEF Nightly, SetupDb, SetupDone, PromoteNightly, SkipFile, RunFile,
     RunFileFails, NextFile
<1>10. CASE UNCHANGED vars
  BY <1>1, <1>10 DEF vars
<1> QED
  BY <1>1, <1>3, <1>4, <1>5, <1>6, <1>7, <1>8, <1>9, <1>10 DEF Next, Writers, Claiming, Reviewing

\* What is served stays a part of what is live.
LEMMA DatabaseStep ==
  IInv /\ [Next]_vars =>
    /\ effects' \in Seq(Ddl) /\ recorded' \in [Version -> Name \cup {NoName}]
    /\ served' \subseteq Range(effects')
<1> SUFFICES ASSUME IInv, [Next]_vars
             PROVE  /\ effects' \in Seq(Ddl) /\ recorded' \in [Version -> Name \cup {NoName}]
                    /\ served' \subseteq Range(effects')
  OBVIOUS
<1>0. TypeOK
  BY DEF IInv
<1>1. CASE UNCHANGED <<effects, recorded>>
  BY <1>0, <1>1, ServedStep DEF TypeOK
<1>2. ASSUME NEW d \in Ddl, Runs(d)
      PROVE  /\ effects' \in Seq(Ddl) /\ recorded' \in [Version -> Name \cup {NoName}]
             /\ served' \subseteq Range(effects')
  <2>1. /\ effects' \in Seq(Ddl) /\ recorded' \in [Version -> Name \cup {NoName}]
        /\ DOMAIN effects \subseteq DOMAIN effects'
        /\ \A i \in DOMAIN effects : effects'[i] = effects[i]
    BY <1>0, <1>2, RunAppends DEF Runs
  <2>2. Range(effects) \subseteq Range(effects')
    BY <2>1 DEF Range
  <2>3. served' = served /\ served \subseteq Range(effects)
    BY <1>0, <1>2 DEF TypeOK, Runs
  <2> QED BY <2>1, <2>2, <2>3
<1> QED BY <1>1, <1>2, RunStep

\* Every step keeps every variable in its type.
LEMMA TypeStep == IInv /\ [Next]_vars => TypeOK'
<1> SUFFICES ASSUME IInv, [Next]_vars PROVE TypeOK'
  OBVIOUS
<1>0. TypeOK
  BY DEF IInv
<1>1. queue' \in Seq(Row) /\ Len(queue') <= MaxRows
  BY QueueStep DEF IInv, QueueGrows
<1>2. claimed' \in Seq(DOMAIN queue') /\ review' \in {0} \cup DOMAIN queue'
  BY ClaimsStep, ReviewStep
<1>3. /\ effects' \in Seq(Ddl) /\ recorded' \in [Version -> Name \cup {NoName}]
      /\ served' \subseteq Range(effects')
  BY DatabaseStep
<1>4. ControlOK'
  BY <1>0, ControlStep
<1>5. /\ merged' \subseteq Ddl
      /\ main' \in [Name -> Ddl \cup {NoDdl}] /\ box' \in [Name -> Ddl \cup {NoDdl}]
  BY <1>0, GitStep DEF TypeOK, git
<1> QED BY <1>1, <1>2, <1>3, <1>4, <1>5 DEF TypeOK, ControlOK

\* The flock is taken, kept and released with the lane that holds it.
LEMMA FlockStep ==
  TypeOK /\ FlockFollowsLanes /\ [Next]_vars => FlockFollowsLanes'
<1> SUFFICES ASSUME TypeOK, FlockFollowsLanes, [Next]_vars PROVE FlockFollowsLanes'
  OBVIOUS
<1> USE DEF FlockFollowsLanes
<1>1. ASSUME NEW d \in Ddl, RecordPass(d) \/ Enqueue(d) \/ MergePr(d) PROVE FlockFollowsLanes'
  BY <1>1 DEF RecordPass, Enqueue, MergePr, nightly
<1>2. ASSUME NEW q \in DOMAIN queue, Age(q) \/ Claim(q) \/ ReviewClaim(q)
      PROVE FlockFollowsLanes'
  BY <1>2 DEF Age, Claim, ReviewClaim, nightly
<1>3. CASE Pull \/ ApplyNow \/ ClaimFails \/ ClaimDone \/ TakeFlock \/ GiveUp
  BY <1>3 DEF Pull, ApplyNow, ClaimFails, ClaimDone, TakeFlock, GiveUp, nightly
<1>4. CASE Check \/ CheckFails \/ Execute \/ ExecuteFails \/ Verify
  BY <1>4 DEF Check, CheckFails, Execute, ExecuteFails, Verify, nightly
<1>5. CASE Finishing
  BY <1>5 DEF Finishing, Finish, FinishFails, NextRow, Release, PromoteNow, nightly
<1>6. CASE ReviewDone
  BY <1>6 DEF ReviewDone, nightly
<1>7. CASE Crash
  BY <1>7 DEF Crash, nightly
<1>8. CASE SetupDb \/ SetupDone \/ PromoteNightly
  BY <1>8 DEF SetupDb, SetupDone, PromoteNightly
<1>9. ASSUME NEW n \in Name, SkipFile(n) \/ RunFile(n) \/ RunFileFails(n)
      PROVE FlockFollowsLanes'
  BY <1>9 DEF SkipFile, RunFile, RunFileFails, NextFile
<1>10. CASE UNCHANGED vars
  BY <1>10 DEF vars, nightly
<1> QED
  BY <1>1, <1>2, <1>3, <1>4, <1>5, <1>6, <1>7, <1>8, <1>9, <1>10
  DEF Next, Writers, Claiming, Applying, Reviewing, Nightly

\* History only grows: what was merged stays merged, what ran stays run.
LEMMA HistoryGrows ==
  IInv /\ [Next]_vars =>
    /\ merged \subseteq merged'
    /\ \A i \in DOMAIN effects : i \in DOMAIN effects' /\ effects'[i] = effects[i]
<1> SUFFICES ASSUME IInv, [Next]_vars
    PROVE /\ merged \subseteq merged'
          /\ \A i \in DOMAIN effects : i \in DOMAIN effects' /\ effects'[i] = effects[i]
  OBVIOUS
<1>0. TypeOK
  BY DEF IInv
<1>1. merged \subseteq merged'
  BY <1>0, GitStep DEF git
<1>2. ASSUME NEW d \in Ddl, Runs(d)
      PROVE  \A i \in DOMAIN effects : i \in DOMAIN effects' /\ effects'[i] = effects[i]
  BY <1>0, <1>2, RunAppends DEF Runs
<1>3. UNCHANGED effects =>
        \A i \in DOMAIN effects : i \in DOMAIN effects' /\ effects'[i] = effects[i]
  OBVIOUS
<1> QED BY <1>1, <1>2, <1>3, RunStep

\* Some content of file n is live.
TookEffect(n) == \E i \in DOMAIN effects : NameOf[effects[i]] = n

\* Between the check and its status the row in hand is still the one checked.
LEMMA SubjectStep == IInv /\ [Next]_vars => SubjectIsAuthorised'
<1> SUFFICES ASSUME IInv, [Next]_vars PROVE SubjectIsAuthorised'
  OBVIOUS
<1>0. TypeOK /\ SubjectIsAuthorised /\ OneEffectPerVersion /\ CheckoutsAreMerged
  BY DEF IInv
<1>1. merged \subseteq merged' /\ \A n : TookEffect(n) => TookEffect(n)'
  BY HistoryGrows DEF TookEffect
<1>2. claimed # <<>> /\ claimed' = claimed => Subject' = Subject
  <2>1. claimed # <<>> => Head(claimed) \in DOMAIN queue
    BY <1>0, SubjectInQueue
  <2> QED BY <1>0, <2>1, QueueStep DEF QueueGrows, Subject
<1> DEFINE Safe == now' \notin {"execute", "verify", "finish"}
<1>s. Safe => SubjectIsAuthorised'
  BY DEF SubjectIsAuthorised
<1> USE DEF SubjectIsAuthorised, TookEffect
<1>3. CASE UNCHANGED <<now, claimed, outcome>>
  BY <1>0, <1>1, <1>2, <1>3
<1>4. CASE Check
  <2>1. claimed # <<>> /\ claimed' = claimed /\ outcome' = "blocked" /\ now' \in {"execute", "finish"}
    BY <1>4 DEF Check
  <2>2. now' = "execute" => Subject \in merged'
    <3>1. now' = "execute" => main[NameOf[Subject]] = Subject
      BY <1>4 DEF Check
    <3>2. Subject \in Ddl /\ NameOf[Subject] \in Name
      BY <1>0, <2>1, SubjectInQueue, NameOfAssumption
    <3> QED BY <1>0, <1>1, <3>1, <3>2, NoDdlAssumption DEF CheckoutsAreMerged
  <2> QED BY <1>2, <2>1, <2>2
<1>5. CASE CheckFails
  BY <1>5 DEF CheckFails
<1>6. CASE Execute
  <2>1. claimed # <<>> /\ claimed' = claimed /\ now' \in {"verify", "finish"} /\ Subject \in Ddl
    BY <1>0, <1>6, SubjectInQueue DEF Execute, batch
  <2>2. CASE recorded[VersionOf[Subject]] = NoName
    <3>1. NameOf[Subject] # NoName
      BY <2>1, NameOfAssumption, NoDdlAssumption
    <3>2. Run(Subject)
      BY <1>6, <2>2, <3>1 DEF Execute
    <3>3. /\ Len(effects) + 1 \in DOMAIN effects' /\ effects'[Len(effects) + 1] = Subject
      BY <1>0, <2>1, <3>2, RunAppends, SMT
    <3>4. \E i \in DOMAIN effects' : effects'[i] = Subject
      BY <3>3
    <3> QED BY <1>2, <2>1, <3>4
  <2>3. CASE recorded[VersionOf[Subject]] # NoName /\ outcome' = "committed"
    <3>1. recorded[VersionOf[Subject]] = NameOf[Subject]
      BY <1>6, <2>3 DEF Execute
    <3>2. VersionOf[Subject] \in Version /\ NameOf[Subject] \in Name
      BY <2>1, NameOfAssumption DEF VersionOf
    <3>3. TookEffect(NameOf[Subject])
      BY <1>0, <3>1, <3>2 DEF OneEffectPerVersion
    <3> QED BY <1>1, <1>2, <2>1, <3>3
  <2>4. CASE outcome' # "committed"
    BY <2>1, <2>4
  <2> QED BY <2>2, <2>3, <2>4
<1>7. CASE ExecuteFails
  BY <1>0, <1>7 DEF ExecuteFails
<1>8. CASE Verify
  <2>1. claimed # <<>> /\ claimed' = claimed /\ now' = "finish" /\ outcome' \in {outcome, "failed"}
    BY <1>0, <1>8 DEF Verify
  <2>2. now = "verify"
    BY <1>8 DEF Verify
  <2> QED BY <1>0, <1>1, <1>2, <2>1, <2>2
<1>9. ASSUME NEW d \in Ddl, RecordPass(d) \/ Enqueue(d) \/ MergePr(d) PROVE SubjectIsAuthorised'
  <2>1. UNCHANGED <<now, claimed, outcome>>
    BY <1>9 DEF RecordPass, Enqueue, MergePr, batch
  <2> QED BY <1>3, <2>1
<1>10. ASSUME NEW q \in DOMAIN queue, Age(q) \/ ReviewClaim(q) PROVE SubjectIsAuthorised'
  <2>1. UNCHANGED <<now, claimed, outcome>>
    BY <1>10 DEF Age, ReviewClaim, batch
  <2> QED BY <1>3, <2>1
<1>11. ASSUME NEW q \in DOMAIN queue, Claim(q) PROVE SubjectIsAuthorised'
  BY <1>s, <1>11 DEF Claim
<1>12. CASE Pull \/ ReviewDone \/ Nightly \/ UNCHANGED vars
  <2>1. UNCHANGED <<now, claimed, outcome>>
    BY <1>12 DEF Pull, ReviewDone, Nightly, SetupDb, SetupDone, PromoteNightly,
       SkipFile, RunFile, RunFileFails, NextFile, batch, vars
  <2> QED BY <1>3, <2>1
<1>13. CASE ApplyNow \/ ClaimFails \/ ClaimDone \/ TakeFlock \/ GiveUp \/ Crash
  BY <1>s, <1>13 DEF ApplyNow, ClaimFails, ClaimDone, TakeFlock, GiveUp, Crash
<1>14. CASE Finishing
  BY <1>s, <1>14 DEF Finishing, Finish, FinishFails, NextRow, Release, PromoteNow
<1> QED
  BY <1>4, <1>5, <1>6, <1>7, <1>8, <1>9, <1>10, <1>11, <1>12, <1>13, <1>14
  DEF Next, Writers, Claiming, Applying, Reviewing

\* setup_db looks only at the files of the checkout it started from.
LEMMA TodoStep ==
  [Next]_vars =>
    \/ UNCHANGED todo
    \/ UNCHANGED git /\ (todo' \subseteq todo \/ todo' = {n \in Name : box[n] # NoDdl})
<1> SUFFICES ASSUME [Next]_vars
    PROVE \/ UNCHANGED todo
          \/ UNCHANGED git /\ (todo' \subseteq todo \/ todo' = {n \in Name : box[n] # NoDdl})
  OBVIOUS
<1>1. CASE Nightly
  BY <1>1 DEF Nightly, SetupDb, SetupDone, PromoteNightly, SkipFile, RunFile,
     RunFileFails, NextFile
<1>2. ASSUME NEW d \in Ddl, RecordPass(d) \/ Enqueue(d) \/ MergePr(d) PROVE UNCHANGED todo
  BY <1>2 DEF RecordPass, Enqueue, MergePr, nightly
<1>3. ASSUME NEW q \in DOMAIN queue, Age(q) \/ Claim(q) \/ ReviewClaim(q) PROVE UNCHANGED todo
  BY <1>3 DEF Age, Claim, ReviewClaim, nightly
<1>4. CASE Pull \/ ApplyNow \/ ClaimFails \/ ClaimDone \/ TakeFlock \/ GiveUp
  BY <1>4 DEF Pull, ApplyNow, ClaimFails, ClaimDone, TakeFlock, GiveUp, nightly
<1>5. CASE Applying \/ Finishing \/ ReviewDone \/ Crash
  BY <1>5 DEF Applying, Check, CheckFails, Execute, ExecuteFails, Verify, Finishing,
     Finish, FinishFails, NextRow, Release, PromoteNow, ReviewDone, Crash, nightly
<1>6. CASE UNCHANGED vars
  BY <1>6 DEF vars, nightly
<1> QED
  BY <1>1, <1>2, <1>3, <1>4, <1>5, <1>6 DEF Next, Writers, Claiming, Reviewing

\* Merges and pulls keep the checkouts merged, and the file list covered.
LEMMA CheckoutsStep == IInv /\ [Next]_vars => CheckoutsAreMerged'
<1> SUFFICES ASSUME IInv, [Next]_vars PROVE CheckoutsAreMerged'
  OBVIOUS
<1>0. TypeOK /\ CheckoutsAreMerged
  BY DEF IInv
<1>1. CASE UNCHANGED git
  BY <1>0, <1>1, TodoStep DEF CheckoutsAreMerged, git
<1>2. CASE box # main /\ box' = main /\ UNCHANGED <<main, merged, todo>>
  BY <1>0, <1>2 DEF CheckoutsAreMerged
<1>3. ASSUME NEW d \in Ddl, main' = [main EXCEPT ![NameOf[d]] = d],
             merged' = merged \cup {d}, UNCHANGED <<box, todo>>
      PROVE  CheckoutsAreMerged'
  <2>1. ASSUME NEW n \in Name
        PROVE  main'[n] = (IF n = NameOf[d] THEN d ELSE main[n])
    BY <1>0, <1>3 DEF TypeOK
  <2> QED BY <1>0, <1>3, <2>1, NoDdlAssumption DEF CheckoutsAreMerged
<1> QED BY <1>0, <1>1, <1>2, <1>3, GitStep

\* Both lanes run merged content only.
LEMMA EffectsMergedStep == IInv /\ [Next]_vars => EffectsAreMerged'
<1> SUFFICES ASSUME IInv, [Next]_vars PROVE EffectsAreMerged'
  OBVIOUS
<1>0. TypeOK /\ EffectsAreMerged
  BY DEF IInv
<1>1. CASE UNCHANGED effects
  BY <1>0, <1>1, HistoryGrows DEF EffectsAreMerged
<1>2. ASSUME NEW d \in Ddl, Runs(d) PROVE EffectsAreMerged'
  <2>1. merged' = merged /\ d \in merged
    BY <1>2 DEF Runs, git
  <2>2. \A i \in DOMAIN effects' : effects'[i] = d \/ (i \in DOMAIN effects /\ effects'[i] = effects[i])
    BY <1>0, <1>2, RunAppends, SMT DEF Runs
  <2> QED BY <1>0, <2>1, <2>2 DEF EffectsAreMerged
<1> QED BY <1>1, <1>2, RunStep

\* Running on a free version spends that version alone.
LEMMA OneEffectStep == IInv /\ [Next]_vars => OneEffectPerVersion'
<1> SUFFICES ASSUME IInv, [Next]_vars PROVE OneEffectPerVersion'
  OBVIOUS
<1>0. TypeOK /\ OneEffectPerVersion
  BY DEF IInv
<1>1. CASE UNCHANGED <<effects, recorded>>
  BY <1>0, <1>1 DEF OneEffectPerVersion
<1>2. ASSUME NEW d \in Ddl, Runs(d) PROVE OneEffectPerVersion'
  <2> DEFINE k == Len(effects) + 1
  <2>1. /\ Len(effects) \in Nat /\ DOMAIN effects = 1 .. Len(effects)
        /\ DOMAIN effects' = 1 .. k
        /\ \A i \in DOMAIN effects : effects'[i] = effects[i]
        /\ effects'[k] = d
        /\ VersionOf[d] \in Version /\ NameOf[d] \in Name
        /\ recorded' = [recorded EXCEPT ![VersionOf[d]] = NameOf[d]]
    BY <1>0, <1>2, RunAppends DEF Runs
  <2>2. k \notin DOMAIN effects /\ DOMAIN effects' = DOMAIN effects \cup {k}
    BY <2>1, SMT
  <2> HIDE DEF k
  <2>3. \A i \in DOMAIN effects : NameOf[effects[i]] \in Name /\ VersionOf[effects[i]] \in Version
    <3>1. \A i \in DOMAIN effects : effects[i] \in Ddl
      BY <1>0, <2>1, ElementOfSeq DEF TypeOK
    <3> QED BY <3>1, NameOfAssumption DEF VersionOf
  <2>4. \A i \in DOMAIN effects : VersionOf[effects[i]] # VersionOf[d]
    <3> SUFFICES ASSUME NEW i \in DOMAIN effects, VersionOf[effects[i]] = VersionOf[d] PROVE FALSE
      OBVIOUS
    <3>1. recorded[VersionOf[d]] = NameOf[effects[i]]
      BY <1>0, <2>1, <2>3 DEF OneEffectPerVersion
    <3> QED BY <1>2, <2>3, <3>1, NoDdlAssumption DEF Runs
  <2>5. ASSUME NEW i \in DOMAIN effects', NEW j \in DOMAIN effects',
               VersionOf[effects'[i]] = VersionOf[effects'[j]]
        PROVE  i = j
    BY <1>0, <2>1, <2>2, <2>4, <2>5 DEF OneEffectPerVersion
  <2>6. ASSUME NEW v \in Version, NEW n \in Name
        PROVE  recorded'[v] = n <=>
                 \E i \in DOMAIN effects' : VersionOf[effects'[i]] = v /\ NameOf[effects'[i]] = n
    <3>1. CASE v = VersionOf[d]
      <4>1. recorded'[v] = NameOf[d]
        BY <1>0, <2>1, <3>1 DEF TypeOK
      <4>2. \A i \in DOMAIN effects' : VersionOf[effects'[i]] = v <=> i = k
        BY <2>1, <2>2, <2>4, <3>1
      <4> QED BY <2>1, <2>2, <4>1, <4>2
    <3>2. CASE v # VersionOf[d]
      <4>1. recorded'[v] = recorded[v]
        BY <1>0, <2>1, <3>2 DEF TypeOK
      <4>2. recorded[v] = n <=>
              \E i \in DOMAIN effects : VersionOf[effects[i]] = v /\ NameOf[effects[i]] = n
        BY <1>0 DEF OneEffectPerVersion
      <4> QED BY <2>1, <2>2, <3>2, <4>1, <4>2
    <3> QED BY <3>1, <3>2
  <2>7. \A i, j \in DOMAIN effects' : VersionOf[effects'[i]] = VersionOf[effects'[j]] => i = j
    BY <2>5
  <2>8. \A v \in Version : \A n \in Name : recorded'[v] = n <=>
          \E i \in DOMAIN effects' : VersionOf[effects'[i]] = v /\ NameOf[effects'[i]] = n
    BY <2>6
  <2> QED BY <2>7, <2>8 DEF OneEffectPerVersion, VersionOf
<1> QED BY <1>1, <1>2, RunStep

\* A row becomes committed only in the hands of apply-now.
LEMMA NotSwallowedStep == IInv /\ [Next]_vars => NotSwallowed'
<1> SUFFICES ASSUME IInv, [Next]_vars PROVE NotSwallowed'
  OBVIOUS
<1>0. TypeOK /\ SubjectIsAuthorised /\ NotSwallowed
  BY DEF IInv
<1>1. QueueGrows
  BY <1>0, QueueStep
<1>2. \A n : TookEffect(n) => TookEffect(n)'
  BY HistoryGrows DEF TookEffect
<1>3. ASSUME NEW q \in DOMAIN queue', queue'[q].status = "committed", queue'[q].by = "apply"
      PROVE  q \in DOMAIN queue /\ TookEffect(NameOf[queue[q].ddl])
  <2>1. CASE q \in DOMAIN queue /\ queue[q].status = "committed" /\ queue[q].by = "apply"
    BY <1>0, <2>1 DEF NotSwallowed, TookEffect
  <2>2. CASE now = "finish" /\ outcome = "committed" /\ claimed # <<>> /\ q = Head(claimed)
    <3>1. TookEffect(NameOf[Subject])
      BY <1>0, <2>2 DEF SubjectIsAuthorised, TookEffect
    <3>2. q \in DOMAIN queue /\ Subject = queue[q].ddl
      BY <1>0, <2>2, SubjectInQueue DEF Subject
    <3> QED BY <3>1, <3>2
  <2> QED BY <1>1, <1>3, <2>1, <2>2 DEF QueueGrows
<1>4. \A q \in DOMAIN queue : queue'[q].ddl = queue[q].ddl
  BY <1>1 DEF QueueGrows
<1> QED BY <1>2, <1>3, <1>4 DEF NotSwallowed, TookEffect

-----------------------------------------------------------------------------
(* The invariants.                                                         *)

LEMMA IInvStep == IInv /\ [Next]_vars => IInv'
BY TypeStep, FlockStep, SubjectStep, CheckoutsStep, EffectsMergedStep, OneEffectStep,
   NotSwallowedStep DEF IInv

\* IInv is an invariant: it holds initially and every step keeps it.
THEOREM Invariance == Spec => []IInv
BY InitIInv, IInvStep, PTL DEF Spec

\* Every variable keeps its type.
THEOREM TypeCorrect == Spec => []TypeOK
<1>1. IInv => TypeOK
  BY DEF IInv
<1> QED BY Invariance, <1>1, PTL

\* However often a row is reaped, released, retried or overtaken by the other
\* lane, no version number takes effect twice, and schema_version names exactly
\* the files that did.
THEOREM VersionsSpentOnce == Spec => []OneEffectPerVersion
<1>1. IInv => OneEffectPerVersion
  BY DEF IInv
<1> QED BY Invariance, <1>1, PTL

\* A row that apply-now reports committed really took effect, or an earlier
\* content of its own file did.
THEOREM CommittedTookEffect == Spec => []NotSwallowed
<1>1. IInv => NotSwallowed
  BY DEF IInv
<1> QED BY Invariance, <1>1, PTL

\* Neither lane is in the live database while the other one is.
LanesExclude == ~ (now \in {"check", "execute", "verify", "finish"} /\ night = "setup")

\* The apply lane and setup_db are never in the live database together: this is
\* all the flock between them is for.
THEOREM LanesAreExclusive == Spec => []LanesExclude
<1>1. IInv => LanesExclude
  BY DEF IInv, FlockFollowsLanes, LanesExclude
<1> QED BY Invariance, <1>1, PTL

-----------------------------------------------------------------------------
(* SchemaApply implements SchemaHistory.                                   *)

LiveMap == [v \in Version |-> LiveDdl(v)]
ServedMap == [v \in Version |-> IF LiveDdl(v) \in served THEN LiveDdl(v) ELSE NoDdl]

\* The content that took effect under version v in the history e, in any state.
Landed(e, v) ==
  IF \E i \in DOMAIN e : VersionOf[e[i]] = v
  THEN e[CHOOSE i \in DOMAIN e : VersionOf[e[i]] = v]
  ELSE NoDdl

\* With one effect per version, that content is unambiguous.
LEMMA LandedIsTheEffect ==
  ASSUME NEW e, NEW v,
         \A i, j \in DOMAIN e : VersionOf[e[i]] = VersionOf[e[j]] => i = j
  PROVE  /\ \A i \in DOMAIN e : VersionOf[e[i]] = v => Landed(e, v) = e[i]
         /\ (\A i \in DOMAIN e : VersionOf[e[i]] # v) => Landed(e, v) = NoDdl
<1>1. ASSUME NEW i \in DOMAIN e, VersionOf[e[i]] = v PROVE Landed(e, v) = e[i]
  <2> DEFINE j == CHOOSE k \in DOMAIN e : VersionOf[e[k]] = v
  <2>1. j \in DOMAIN e /\ VersionOf[e[j]] = v
    BY <1>1
  <2>2. j = i
    BY <1>1, <2>1
  <2>3. Landed(e, v) = e[j]
    BY <1>1, Zenon DEF Landed
  <2> QED BY <2>2, <2>3
<1>2. ASSUME \A i \in DOMAIN e : VersionOf[e[i]] # v PROVE Landed(e, v) = NoDdl
  BY <1>2 DEF Landed
<1> QED BY <1>1, <1>2

\* LiveDdl is Landed of the history so far.
LEMMA LiveIsLanded == \A v : LiveDdl(v) = Landed(effects, v) /\ LiveDdl(v)' = Landed(effects', v)
BY DEF LiveDdl, Landed

\* A DDL that runs is a Land: merged, on a version nothing had landed on.
LEMMA RunLands ==
  ASSUME IInv, IInv', NEW d \in Ddl, Runs(d)
  PROVE  History!Land(d)
<1> DEFINE k == Len(effects) + 1
<1>0. /\ Len(effects) \in Nat /\ DOMAIN effects = 1 .. Len(effects)
      /\ DOMAIN effects' = 1 .. k
      /\ \A i \in DOMAIN effects : effects'[i] = effects[i]
      /\ effects'[k] = d
      /\ VersionOf[d] \in Version /\ NameOf[d] \in Name
  BY RunAppends DEF IInv, Runs
<1>1. /\ k \notin DOMAIN effects /\ DOMAIN effects' = DOMAIN effects \cup {k}
      /\ \A i \in DOMAIN effects : effects'[i] = effects[i]
      /\ effects'[k] = d
      /\ VersionOf[d] \in Version /\ NameOf[d] \in Name
  BY <1>0, SMT
<1> HIDE DEF k
<1>2. \A i \in DOMAIN effects : VersionOf[effects[i]] # VersionOf[d]
  <2> SUFFICES ASSUME NEW i \in DOMAIN effects, VersionOf[effects[i]] = VersionOf[d] PROVE FALSE
    OBVIOUS
  <2>1. effects[i] \in Ddl /\ NameOf[effects[i]] \in Name
    BY ElementOfSeq, LenProperties, NameOfAssumption DEF IInv, TypeOK
  <2>2. recorded[VersionOf[d]] = NameOf[effects[i]]
    BY <1>1, <2>1 DEF IInv, OneEffectPerVersion
  <2> QED BY <2>1, <2>2, NoDdlAssumption DEF Runs
<1>3. LiveDdl(VersionOf[d]) = NoDdl
  BY <1>2, LandedIsTheEffect, LiveIsLanded DEF IInv, OneEffectPerVersion
<1>p. \A i, j \in DOMAIN effects' : VersionOf[effects'[i]] = VersionOf[effects'[j]] => i = j
  BY DEF IInv, OneEffectPerVersion, VersionOf
<1>4. LiveMap' = [LiveMap EXCEPT ![VersionOf[d]] = d]
  <2>1. ASSUME NEW v \in Version
        PROVE  LiveDdl(v)' = IF v = VersionOf[d] THEN d ELSE LiveDdl(v)
    <3>1. CASE v = VersionOf[d]
      <4>1. Landed(effects', v) = effects'[k]
        BY <1>p, <1>1, <3>1, LandedIsTheEffect
      <4> QED BY <1>1, <3>1, <4>1, LiveIsLanded
    <3>2. CASE \E i \in DOMAIN effects : VersionOf[effects[i]] = v
      <4>1. PICK i \in DOMAIN effects : VersionOf[effects[i]] = v
        BY <3>2
      <4>2. LiveDdl(v) = effects[i]
        BY <4>1, LandedIsTheEffect, LiveIsLanded DEF IInv, OneEffectPerVersion
      <4>3. Landed(effects', v) = effects[i]
        BY <1>p, <1>1, <4>1, LandedIsTheEffect
      <4> QED BY <1>2, <4>1, <4>2, <4>3, LiveIsLanded
    <3>3. CASE v # VersionOf[d] /\ \A i \in DOMAIN effects : VersionOf[effects[i]] # v
      <4>1. LiveDdl(v) = NoDdl
        BY <3>3, LandedIsTheEffect, LiveIsLanded DEF IInv, OneEffectPerVersion
      <4>2. Landed(effects', v) = NoDdl
        BY <1>p, <1>1, <3>3, LandedIsTheEffect
      <4> QED BY <3>3, <4>1, <4>2, LiveIsLanded
    <3> QED BY <3>1, <3>2, <3>3
  <2> QED BY <2>1 DEF LiveMap
<1>5. d \notin served /\ NoDdl \notin served
  <2>1. served \subseteq Range(effects) /\ effects \in Seq(Ddl)
    BY DEF IInv, TypeOK
  <2>2. \A i \in DOMAIN effects : effects[i] # d /\ effects[i] # NoDdl
    BY <1>2, <2>1, ElementOfSeq, LenProperties, NoDdlAssumption
  <2> QED BY <2>1, <2>2 DEF Range
<1>6. ServedMap' = ServedMap
  <2>1. served' = served
    BY DEF Runs
  <2>2. ASSUME NEW v \in Version
        PROVE  /\ LiveMap'[v] = LiveDdl(v)' /\ LiveMap[v] = LiveDdl(v)
               /\ LiveMap'[v] = (IF v = VersionOf[d] THEN d ELSE LiveMap[v])
    BY <1>4 DEF LiveMap
  <2>3. ASSUME NEW v \in Version
        PROVE  (IF LiveDdl(v)' \in served' THEN LiveDdl(v)' ELSE NoDdl)
                 = (IF LiveDdl(v) \in served THEN LiveDdl(v) ELSE NoDdl)
    BY <1>3, <1>5, <2>1, <2>2
  <2> QED BY <2>3 DEF ServedMap
<1>7. d \in merged /\ merged' = merged
  BY DEF Runs, git
<1>8. LiveMap[VersionOf[d]] = NoDdl
  BY <1>1, <1>3 DEF LiveMap
<1> QED BY <1>4, <1>6, <1>7, <1>8 DEF History!Land, LiveMap, ServedMap

\* A promote shows exactly what is live.
LEMMA PromotePromotes ==
  ASSUME IInv, served' = Range(effects), UNCHANGED <<effects, git>>
  PROVE  History!Promote
<1>1. LiveMap' = LiveMap
  BY LiveIsLanded DEF LiveMap
<1>2. ASSUME NEW v \in Version
      PROVE  (IF LiveDdl(v)' \in served' THEN LiveDdl(v)' ELSE NoDdl) = LiveDdl(v)
  <2>1. LiveDdl(v)' = LiveDdl(v)
    BY LiveIsLanded
  <2>2. CASE \E i \in DOMAIN effects : VersionOf[effects[i]] = v
    <3>1. PICK i \in DOMAIN effects : VersionOf[effects[i]] = v
      BY <2>2
    <3>2. LiveDdl(v) = effects[i]
      BY <3>1, LandedIsTheEffect, LiveIsLanded DEF IInv, OneEffectPerVersion
    <3> QED BY <2>1, <3>2 DEF Range
  <2>3. CASE \A i \in DOMAIN effects : VersionOf[effects[i]] # v
    BY <2>1, <2>3, LandedIsTheEffect, LiveIsLanded DEF IInv, OneEffectPerVersion
  <2> QED BY <2>2, <2>3
<1>3. ServedMap' = LiveMap
  BY <1>2 DEF ServedMap, LiveMap
<1> QED BY <1>1, <1>3 DEF History!Promote, LiveMap, ServedMap, git

\* Every other step leaves the history alone, or merges.
LEMMA HistoryStep ==
  IInv /\ IInv' /\ [Next]_vars => [History!Next]_<<merged, LiveMap, ServedMap>>
<1> SUFFICES ASSUME IInv, IInv', [Next]_vars
             PROVE  [History!Next]_<<merged, LiveMap, ServedMap>>
  OBVIOUS
<1>1. ASSUME NEW d \in Ddl, Runs(d) PROVE History!Next
  BY <1>1, RunLands DEF History!Next
<1>2. CASE served' = Range(effects) /\ UNCHANGED <<effects, git>>
  BY <1>2, PromotePromotes DEF History!Next
<1>3. CASE UNCHANGED effects /\ UNCHANGED served
  <2>1. LiveMap' = LiveMap /\ ServedMap' = ServedMap
    BY <1>3, LiveIsLanded DEF LiveMap, ServedMap
  <2>2. ASSUME NEW d \in Ddl, merged' = merged \cup {d} PROVE History!Next
    <3>1. History!Merge(d)
      BY <2>1, <2>2 DEF History!Merge, LiveMap, ServedMap
    <3> QED BY <3>1 DEF History!Next
  <2>3. CASE merged' = merged
    BY <2>1, <2>3
  <2>4. merged' = merged \/ \E d \in Ddl : merged' = merged \cup {d}
    BY GitStep DEF IInv, git
  <2> QED BY <2>2, <2>3, <2>4
<1> QED BY <1>1, <1>2, <1>3, RunStep, ServedStep DEF Runs

\* Nothing is merged, live or served at first.
LEMMA HistoryInit == Init => History!Init
<1> SUFFICES ASSUME Init PROVE History!Init
  OBVIOUS
<1>1. \A v : LiveDdl(v) = NoDdl
  BY DEF Init, LiveDdl
<1> QED BY <1>1 DEF Init, History!Init

\* The two lanes, the queue and the crashes implement the owner's promise: each
\* step merges, lands a merged DDL on a fresh version, promotes, or stutters.
THEOREM Refinement == Spec => ImplementsHistory
<1> QED
  BY Invariance, HistoryInit, HistoryStep, PTL
  DEF Spec, ImplementsHistory, History!Spec, LiveMap, ServedMap
=============================================================================
