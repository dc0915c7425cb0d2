--------------------------- MODULE ThreadDrainProofs ---------------------------
(***************************************************************************)
(* Proofs about ThreadDrain for any leads, workspaces, clock, overlap      *)
(* above the lag and number of faults, in every setting the drain          *)
(* survives.                                                               *)
(***************************************************************************)
EXTENDS ThreadDrain, FiniteSetTheorems, SequenceTheorems, TLAPS

-----------------------------------------------------------------------------
\* Everything known of l is older than what a mark m leaves to discover.
PassedBy(l, m) == \A t \in atom[l] : t <= m - Overlap

\* T goes as far as everything known of l.
Reached(l, T) == \A t \in atom[l] : \E u \in T : t <= u

Ledger == failed \cup again \cup prior

\* Replies come in order and the inbound sync is at most Lag behind.
LagKept ==
  \A l \in Lead :
    /\ \A t \in server[l] : t < now
    /\ atom[l] \subseteq server[l]
    /\ \A t \in server[l] \ atom[l] : now - t <= Lag

\* No mark is ahead of the clock, and w has one before it has any row.
MarksPast ==
  /\ \A w \in Ws : wm[w] <= now /\ progress[w] <= now /\ drained[w] <= now
  /\ started <= now
  /\ \A l \in Lead : wm[Home[l]] = Unset => committed[l] = {} /\ Staged(l) = {}

\* What the fetch keeps in memory, it keeps while it runs.
Forgotten ==
  /\ phase \notin {"fetch", "pull", "rewrite"} =>
       again = {} /\ prior = {} /\ retried = {} /\ ceiled = {} /\ drained = NoMarks
  /\ phase \notin {"fetch", "pull"} => buffer = <<>>
  /\ toVisit \cap retried = {}

\* The ledger on disk against the one in memory, and what fills them.
LedgerKept ==
  /\ phase \in {"fetch", "pull"} =>
       /\ prior \subseteq failed /\ failed \subseteq again \cup prior
       /\ "append_error" \in setting.may \/ again \subseteq failed
  /\ phase = "rewrite" => failed = {}
  /\ Ledger # {} => Ledgered(setting)
  /\ ceiled \cup quarantined # {} => "ceiling" \in setting.may

\* The marks: in the watermark file, in the sidecar and in memory.
MarkSound ==
  \A l \in Lead : PassedBy(l, wm[Home[l]]) =>
    \/ Reached(l, committed[l])
    \/ l \in Ledger
    \/ /\ Reached(l, committed[l] \cup stage[l])
       /\ Ledgered(setting) /\ (setting.keep \/ phase = "apply")

ProgressSound ==
  \A l \in Lead : PassedBy(l, progress[Home[l]]) \/ PassedBy(l, drained[Home[l]]) =>
    Reached(l, committed[l] \cup stage[l]) \/ l \in Ledger

Durable ==
  phase = "merge" => \A l \in Lead : Home[l] \notin quarantined => stage[l] \subseteq committed[l]

\* The discovery of ws left l out for good reason.
Settled(l) ==
  \/ \A t \in server[l] : t + Lag < started => t <= since
  \/ \A t \in server[l] : t + Lag < started => \E u \in committed[l] : t <= u

\* The rows of l on their way go as far as what l had said before m.
PulledTo(l, m) == \A t \in server[l] : t < m => \E u \in Staged(l) : t <= u

InSlots(l) == \E i \in DOMAIN slots : slots[i].lead = l

PullSound ==
  phase = "pull" =>
    /\ ws \notin toVisit \cup retried
    /\ wm[ws] # Unset /\ wm[ws] <= started /\ since = Later(0, wm[ws] - Overlap)
    /\ \A l \in LeadsOf(ws) : InSlots(l) \/ (l \notin prior /\ Settled(l))
    /\ \A i \in DOMAIN slots :
         /\ Home[slots[i].lead] = ws /\ slots[i].key <= started
         /\ slots[i].key = Unset \/ slots[i].key \in atom[slots[i].lead]
         /\ i \in handled => slots[i].lead \in again \/ PulledTo(slots[i].lead, started)
    /\ \A i, j \in DOMAIN slots : i < j => slots[i].key <= slots[j].key

\* A prior failure whose workspace was done is retried, up to every mark.
RetriedSound ==
  \A l \in prior : Home[l] \in retried =>
    \/ l \in again
    \/ \A t \in atom[l] :
         (\E m \in {wm[Home[l]], progress[Home[l]], drained[Home[l]]} : t <= m - Overlap) =>
           \E u \in Staged(l) : t <= u

\* The inductive invariant of NoLeadPassedOver.
IInv ==
  /\ TypeOK
  /\ LagKept /\ MarksPast /\ Forgotten /\ LedgerKept
  /\ MarkSound /\ ProgressSound /\ Durable /\ PullSound /\ RetriedSound

-----------------------------------------------------------------------------
(* Times, marks and their greatest.                                        *)

\* A set of integers with an upper bound has a greatest element.
LEMMA MaxOfBounded ==
  ASSUME NEW T \in SUBSET Int, T # {}, NEW n \in Int, \A t \in T : t <= n
  PROVE  Max(T) \in T /\ \A t \in T : t <= Max(T)
<1> DEFINE D == {n - t : t \in T}
<1>1. D \subseteq Nat /\ D # {} /\ \A t \in T : n - t \in D
  <2>1. PICK t \in T : TRUE
    OBVIOUS
  <2>2. n - t \in D
    BY DEF D
  <2>3. \A y \in D : y \in Nat
    BY SMT DEF D
  <2> QED BY <2>2, <2>3
<1> HIDE DEF D
<1>3. PICK x \in D : \A y \in D : <<y, x>> \notin OpToRel(<, Nat)
  BY <1>1, NatLessThanWellFounded, WFMin, Zenon
<1>4. \A y \in D : x <= y
  <2> SUFFICES ASSUME NEW y \in D, y < x PROVE FALSE
    BY <1>1, SMT
  <2>1. <<y, x>> \in OpToRel(<, Nat)
    BY <1>1, Zenon DEF OpToRel
  <2> QED BY <1>3, <2>1, Zenon
<1>5. PICK g \in T : x = n - g
  BY DEF D
<1>6. \A t \in T : t <= g
  BY <1>1, <1>4, <1>5, SMT
<1>7. \A t \in T : g >= t
  BY <1>6, SMT
<1>8. Max(T) \in T /\ \A t \in T : Max(T) >= t
  BY <1>5, <1>7, Zenon DEF Max
<1> QED BY <1>8, SMT

\* Latest of some marks is one of them, and no other is later.
LEMMA LatestMark ==
  ASSUME NEW T \in SUBSET Mark
  PROVE  /\ T = {} => Latest(T) = Unset
         /\ T # {} => Latest(T) \in T /\ \A t \in T : t <= Latest(T)
         /\ Latest(T) \in Mark
<1>1. Mark \subseteq Int /\ (\A t \in Mark : t <= MaxTime) /\ MaxTime \in Int
  BY BoundsAssumption, SMT DEF Mark, Time, Unset
<1>2. CASE T = {}
  BY <1>2 DEF Latest, Mark
<1>3. CASE T # {}
  <2>1. Max(T) \in T /\ \A t \in T : t <= Max(T)
    BY <1>1, <1>3, MaxOfBounded
  <2> QED BY <1>3, <2>1 DEF Latest
<1> QED BY <1>2, <1>3

-----------------------------------------------------------------------------
(* Sequences of rows.                                                      *)

\* A sequence of a set has every element of it.
LEMMA SeqOfSet ==
  ASSUME NEW S, IsFiniteSet(S), NEW s \in SetToSeqs(S)
  PROVE  s \in Seq(S) /\ Range(s) = S
<1> DEFINE n == Cardinality(S)
<1>1. n \in Nat
  BY FS_CardinalityType
<1>2. s \in [1 .. n -> S] /\ \A i, j \in 1 .. n : i # j => s[i] # s[j]
  BY DEF SetToSeqs
<1>3. IsFiniteSet(1 .. n) /\ Cardinality(1 .. n) = n
  BY <1>1, FS_Interval
<1> HIDE DEF n
<1>4. s \in Injection(1 .. n, S)
  BY <1>2 DEF Injection, IsInjective
<1>5. s \in Surjection(1 .. n, S)
  BY <1>3, <1>4, FS_Injection DEF n
<1>6. s \in Seq(S)
  BY <1>1, <1>2, SeqDef
<1> QED BY <1>2, <1>5, <1>6 DEF Surjection, Range

\* The rows of l in two files one after the other are those of both.
LEMMA TimesInConcat ==
  ASSUME NEW a \in Seq(Lead \X Time), NEW b \in Seq(Lead \X Time), NEW l
  PROVE  \A t : t \in TimesIn(a \o b, l) <=> t \in TimesIn(a, l) \/ t \in TimesIn(b, l)
<1>1. Range(a \o b) = Range(a) \cup Range(b)
  <2>1. ASSUME NEW x \in Range(a \o b) PROVE x \in Range(a) \cup Range(b)
    <3>1. PICK i \in 1 .. Len(a) + Len(b) : x = (a \o b)[i]
      BY <2>1, ConcatProperties, LenProperties DEF Range
    <3>2. CASE i <= Len(a)
      BY <3>1, <3>2, ConcatProperties, LenProperties DEF Range
    <3>3. CASE ~(i <= Len(a))
      <4>1. i - Len(a) \in 1 .. Len(b) /\ x = b[i - Len(a)]
        BY <3>1, <3>3, ConcatProperties, LenProperties
      <4> QED BY <4>1, LenProperties DEF Range
    <3> QED BY <3>2, <3>3
  <2>2. ASSUME NEW i \in DOMAIN a PROVE a[i] \in Range(a \o b)
    <3>1. i \in 1 .. Len(a \o b) /\ (a \o b)[i] = a[i]
      BY ConcatProperties, LenProperties
    <3> QED BY <3>1, ConcatProperties, LenProperties DEF Range
  <2>3. ASSUME NEW i \in DOMAIN b PROVE b[i] \in Range(a \o b)
    <3>1. Len(a) + i \in 1 .. Len(a \o b) /\ (a \o b)[Len(a) + i] = b[i]
      BY ConcatProperties, LenProperties
    <3> QED BY <3>1, ConcatProperties, LenProperties DEF Range
  <2> QED BY <2>1, <2>2, <2>3 DEF Range
<1> QED BY <1>1 DEF TimesIn

\* Nor does a spill change them.
LEMMA TimesInSpill ==
  ASSUME NEW a \in Seq(Lead \X Time), a # <<>>, NEW l
  PROVE  \A t : t \in TimesIn(a, l) <=> t \in TimesIn(<<Head(a)>>, l) \/ t \in TimesIn(Tail(a), l)
<1> DEFINE h == <<Head(a)>>
           r == Tail(a)
<1>1. h \in Seq(Lead \X Time) /\ r \in Seq(Lead \X Time)
  BY HeadTailProperties
<1>2. a = h \o r
  BY SMT
<1> HIDE DEF h, r
<1>3. \A t : t \in TimesIn(h \o r, l) <=> t \in TimesIn(h, l) \/ t \in TimesIn(r, l)
  BY <1>1, TimesInConcat
<1> QED BY <1>2, <1>3 DEF h, r

\* No rows, no times.
LEMMA TimesInNone == ASSUME NEW l PROVE TimesIn(<<>>, l) = {}
BY DEF TimesIn, Range

\* A stage file takes the rows of a buffer.
LEMMA AppendedRows ==
  ASSUME NEW f \in [Lead -> SUBSET Time], NEW rows
  PROVE  /\ Append2(rows, f) \in [Lead -> SUBSET Time]
         /\ \A l \in Lead : Append2(rows, f)[l] = f[l] \cup TimesIn(rows, l)
BY DEF Append2, TimesIn

\* What a pull at T writes is what is not staged of T, of that lead alone.
LEMMA PulledRows ==
  ASSUME TypeOK, NEW l \in Lead, NEW T \in SUBSET Time, NEW rows \in Rows(l, T)
  PROVE  /\ rows \in Seq(Lead \X Time)
         /\ TimesIn(rows, l) = T \ Staged(l)
         /\ \A k \in Lead \ {l} : TimesIn(rows, k) = {}
<1> DEFINE S == {l} \X (T \ Staged(l))
<1>1. rows \in SetToSeqs(S)
  BY DEF Rows
<1>2. IsFiniteSet(S)
  <2>1. IsFiniteSet(Time)
    BY FS_Interval, BoundsAssumption DEF Time
  <2>2. IsFiniteSet(T \ Staged(l))
    BY <2>1, FS_Subset
  <2> QED BY <2>2, FS_Product, FS_Singleton
<1>3. rows \in Seq(S) /\ Range(rows) = S
  BY <1>1, <1>2, SeqOfSet
<1>4. S \subseteq Lead \X Time
  OBVIOUS
<1>5. rows \in Seq(Lead \X Time)
  BY <1>3, <1>4, SeqMonotonic
<1> QED BY <1>3, <1>5 DEF TimesIn

\* A discovery finds every lead of w that has an unseen reply or is owed one.
LEMMA FoundSlots ==
  ASSUME TypeOK, NEW w \in Ws,
         NEW s \in InOrder(w)
  PROVE  /\ s \in Seq([lead : Lead, key : Mark]) /\ Range(s) = Found(w)
         /\ \A i, j \in DOMAIN s : i < j => s[i].key <= s[j].key
<1>1. Found(w) \subseteq [lead : Lead, key : Mark]
  <2>1. \A l \in Lead : Latest(atom[l]) \in Mark
    BY LatestMark DEF TypeOK, Mark
  <2> QED BY <2>1 DEF Found, LeadsOf, Mark
<1>2. IsFiniteSet(Found(w))
  <2> DEFINE L == {m \in LeadsOf(w) : Candidate(m) \/ m \in prior}
             row(l) == [lead |-> l, key |-> IF Candidate(l) THEN Latest(atom[l]) ELSE Unset]
  <2>1. IsFiniteSet(L)
    BY HomeAssumption, FS_Subset DEF LeadsOf
  <2> DEFINE f == [l \in L |-> row(l)]
  <2>2. f \in Surjection(L, Found(w))
    BY Zenon DEF Found, Surjection, Range
  <2> HIDE DEF L, f
  <2>3. IsFiniteSet(Found(w))
    BY <2>1, <2>2, FS_Surjection
  <2> QED BY <2>3
<1>3. s \in SetToSeqs(Found(w)) /\ \A i, j \in DOMAIN s : i < j => s[i].key <= s[j].key
  BY DEF InOrder
<1>4. s \in Seq(Found(w)) /\ Range(s) = Found(w)
  BY <1>2, <1>3, SeqOfSet
<1>5. s \in Seq([lead : Lead, key : Mark])
  BY <1>1, <1>4, SeqMonotonic
<1> QED BY <1>3, <1>4, <1>5

\* The lower bound of a workspace is the mark less the overlap, never below
\* the epoch, and the epoch where nothing is known.
LEMMA SinceBounds ==
  ASSUME TypeOK, NEW w \in Ws
  PROVE  /\ Since(w) \in Mark /\ Since(w) >= 0
         /\ wm[w] # Unset => Since(w) = Later(0, wm[w] - Overlap)
         /\ wm[w] = Unset /\ (\A l \in LeadsOf(w) : committed[l] = {}) => Since(w) = 0
<1> DEFINE C == UNION {committed[l] : l \in LeadsOf(w)}
           mark == IF wm[w] # Unset THEN wm[w] ELSE Latest(C)
<1>1. C \subseteq Mark
  BY DEF TypeOK, LeadsOf, Mark
<1>2. Latest(C) \in Mark /\ (C = {} => Latest(C) = Unset)
  BY <1>1, LatestMark
<1>3. (\A l \in LeadsOf(w) : committed[l] = {}) => C = {}
  OBVIOUS
<1>4. mark \in Mark
  BY <1>2 DEF TypeOK
<1>5. Since(w) = Later(0, mark - Overlap)
  BY DEF Since
<1>6. (wm[w] # Unset => mark = wm[w]) /\ (wm[w] = Unset /\ C = {} => mark = Unset)
  BY <1>2
<1> HIDE DEF mark, C
<1>7. Since(w) \in Mark /\ Since(w) >= 0
  BY <1>4, <1>5, BoundsAssumption, SMT DEF Mark, Time, Unset, Later
<1>8. mark = Unset => Since(w) = 0
  BY <1>5, BoundsAssumption, SMT DEF Unset, Later
<1> QED BY <1>3, <1>5, <1>6, <1>7, <1>8

\* The prefix reached is no key or the key of a slot that ends a closed prefix.
LEMMA PrefixKey ==
  ASSUME TypeOK, NEW done
  PROVE  /\ DrainedThrough(done) \in Mark
         /\ \/ DrainedThrough(done) = Unset
            \/ \E j \in DOMAIN slots : 1 .. j \subseteq done /\ DrainedThrough(done) = slots[j].key
<1> DEFINE K == {slots[i].key : i \in {j \in DOMAIN slots : 1 .. j \subseteq done}}
<1>1. \A i \in DOMAIN slots : slots[i].key \in Mark
  <2>1. \A i \in DOMAIN slots : slots[i] \in [lead : Lead, key : Mark]
    BY LenProperties DEF TypeOK
  <2> QED BY <2>1
<1>2. K \subseteq Mark
  BY <1>1
<1>3. DrainedThrough(done) = Latest(K)
  BY DEF DrainedThrough
<1>4. CASE K = {}
  BY <1>2, <1>3, <1>4, LatestMark
<1>5. CASE K # {}
  <2>1. Latest(K) \in K
    BY <1>2, <1>5, LatestMark
  <2> QED BY <1>2, <1>3, <2>1
<1> QED BY <1>4, <1>5

\* The rows of l on their way are times.
LEMMA StagedType ==
  ASSUME TypeOK, NEW l \in Lead
  PROVE  Staged(l) \subseteq Time
BY DEF TypeOK, Staged, TimesIn

\* What a consumed slot does to the rows and to the progress: rows become
\* staged, and progress is made only when all staged rows are on disk.
LEMMA ConsumeRows ==
  ASSUME TypeOK, NEW i, NEW rows \in Seq(Lead \X Time), NEW done,
         Consume(i, rows, done)
  PROVE  /\ stage' \in [Lead -> SUBSET Time] /\ buffer' \in Seq(Lead \X Time)
         /\ drained' \in [Ws -> Mark] /\ progress' \in [Ws -> Mark]
         /\ \A l \in Lead : stage[l] \subseteq stage'[l]
         /\ \A l \in Lead : \A t :
              t \in Staged(l)' <=> t \in Staged(l) \/ t \in TimesIn(rows, l)
         /\ \/ UNCHANGED <<drained, progress>>
            \/ /\ drained' = [drained EXCEPT ![ws] = Later(since, DrainedThrough(done))]
               /\ progress' = drained'
               /\ \A l \in Lead : stage'[l] = Staged(l)'
<1>1. buffer \o rows \in Seq(Lead \X Time) /\ <<>> \in Seq(Lead \X Time)
  BY ConcatProperties, EmptySeq DEF TypeOK
<1>2. \A l \in Lead : \A t :
        t \in TimesIn(buffer \o rows, l) <=> t \in TimesIn(buffer, l) \/ t \in TimesIn(rows, l)
  BY TimesInConcat DEF TypeOK
<1>3. CASE Cardinality(handled') % SyncEvery = 0
  <2>1. /\ stage' = Append2(buffer \o rows, stage) /\ buffer' = <<>>
        /\ drained' = [drained EXCEPT ![ws] = Later(since, DrainedThrough(done))]
        /\ progress' = drained'
    BY <1>3 DEF Consume
  <2>2. /\ stage' \in [Lead -> SUBSET Time]
        /\ \A l \in Lead : stage'[l] = stage[l] \cup TimesIn(buffer \o rows, l)
    BY <2>1, AppendedRows DEF TypeOK
  <2>3. Later(since, DrainedThrough(done)) \in Mark
    BY PrefixKey DEF TypeOK, Later
  <2>4. drained' \in [Ws -> Mark]
    BY <2>1, <2>3 DEF TypeOK
  <2>5. \A l \in Lead : Staged(l)' = stage'[l]
    BY <2>1, TimesInNone DEF Staged
  <2> QED BY <1>1, <1>2, <2>1, <2>2, <2>4, <2>5 DEF Staged
<1>4. CASE ~(Cardinality(handled') % SyncEvery = 0)
  <2>1. buffer' = buffer \o rows /\ UNCHANGED <<stage, drained, progress>>
    BY <1>4 DEF Consume
  <2> QED BY <1>1, <1>2, <2>1 DEF Staged, TypeOK
<1> QED BY <1>3, <1>4

\* A pull that brings rows: P is what it read of the thread, it reaches what the
\* lead had said before the discovery, and it is whole or w is quarantined.
Brings(i, P) ==
  /\ P \subseteq server[slots[i].lead]
  /\ \A t \in server[slots[i].lead] : t < started => \E u \in P : t <= u
  /\ \A l \in Lead : stage[l] \subseteq stage'[l]
  /\ \A l \in Lead : \A t : t \in Staged(l)' <=> t \in Staged(l) \/ (l = slots[i].lead /\ t \in P)
  /\ handled' = handled \cup {i} /\ closed' \subseteq closed \cup {i}
  /\ \/ UNCHANGED <<drained, progress>>
     \/ /\ drained' = [drained EXCEPT ![ws] = Later(since, DrainedThrough(closed'))]
        /\ progress' = drained'
        /\ \A l \in Lead : stage'[l] = Staged(l)'
  /\ \/ UNCHANGED <<ceiled, quarantined>>
        /\ \A t \in P : \A u \in server[slots[i].lead] : u < t => u \in P
     \/ "ceiling" \in setting.may /\ ceiled' = ceiled \cup {ws} /\ quarantined' = ceiled'
  /\ UNCHANGED <<failed, again>>

\* A pull that raises: the lead is in the ledger in memory, and on disk too
\* unless the append failed.
Records(i) ==
  /\ Ledgered(setting)
  /\ handled' = handled \cup {i} /\ closed' \subseteq closed \cup {i}
  /\ again' = again \cup {slots[i].lead}
  /\ \/ failed' = failed \cup {slots[i].lead}
     \/ failed' = failed /\ "append_error" \in setting.may
  /\ UNCHANGED <<stage, buffer, drained, progress, ceiled, quarantined>>

\* The lead of a slot.
LEMMA SlotLead ==
  ASSUME TypeOK, NEW i \in DOMAIN slots
  PROVE  slots[i].lead \in Lead /\ slots[i].key \in Mark
<1>1. slots \in Seq([lead : Lead, key : Mark])
  BY DEF TypeOK
<1>2. slots[i] \in [lead : Lead, key : Mark]
  BY <1>1, LenProperties
<1> QED BY <1>2

\* A consumed slot that read P and closes or does not.
LEMMA ConsumeBrings ==
  ASSUME TypeOK, NEW i \in DOMAIN slots, NEW P \in SUBSET server[slots[i].lead],
         NEW rows \in Rows(slots[i].lead, P), NEW done, done \subseteq closed \cup {i},
         Consume(i, rows, done),
         \A t \in server[slots[i].lead] : t < started => \E u \in P : t <= u,
         \/ UNCHANGED <<ceiled, quarantined>>
            /\ \A t \in P : \A u \in server[slots[i].lead] : u < t => u \in P
         \/ "ceiling" \in setting.may /\ ceiled' = ceiled \cup {ws} /\ quarantined' = ceiled',
         UNCHANGED <<failed, again>>
  PROVE  /\ Brings(i, P)
         /\ stage' \in [Lead -> SUBSET Time] /\ buffer' \in Seq(Lead \X Time)
         /\ drained' \in [Ws -> Mark] /\ progress' \in [Ws -> Mark]
<1> DEFINE l == slots[i].lead
<1>1. l \in Lead
  BY SlotLead
<1>2. P \in SUBSET Time
  BY <1>1 DEF TypeOK
<1> HIDE DEF l
<1>3. /\ rows \in Seq(Lead \X Time)
      /\ TimesIn(rows, l) = P \ Staged(l)
      /\ \A k \in Lead \ {l} : TimesIn(rows, k) = {}
  BY <1>1, <1>2, PulledRows DEF l
<1>4. /\ stage' \in [Lead -> SUBSET Time] /\ buffer' \in Seq(Lead \X Time)
      /\ drained' \in [Ws -> Mark] /\ progress' \in [Ws -> Mark]
      /\ \A k \in Lead : stage[k] \subseteq stage'[k]
      /\ \A k \in Lead : \A t :
           t \in Staged(k)' <=> t \in Staged(k) \/ t \in TimesIn(rows, k)
      /\ \/ UNCHANGED <<drained, progress>>
         \/ /\ drained' = [drained EXCEPT ![ws] = Later(since, DrainedThrough(done))]
            /\ progress' = drained'
            /\ \A k \in Lead : stage'[k] = Staged(k)'
  BY <1>3, ConsumeRows
<1>5. \A k \in Lead : \A t : t \in Staged(k)' <=> t \in Staged(k) \/ (k = l /\ t \in P)
  BY <1>3, <1>4
<1>6. handled' = handled \cup {i} /\ closed' = done
  BY DEF Consume
<1> QED BY <1>4, <1>5, <1>6 DEF Brings, l

\* A pull brings rows or is recorded.
LEMMA PullOutcome ==
  ASSUME TypeOK, NEW i \in DOMAIN slots, Pull(i), UNCHANGED setting
  PROVE  /\ phase = "pull" /\ i \notin handled
         /\ \/ Records(i)
            \/ \E P \in SUBSET server[slots[i].lead] : Brings(i, P)
         /\ stage' \in [Lead -> SUBSET Time] /\ buffer' \in Seq(Lead \X Time)
         /\ drained' \in [Ws -> Mark] /\ progress' \in [Ws -> Mark]
         /\ UNCHANGED <<world, committed, wm, phase, toVisit, ws, since, started, slots, prior, retried>>
<1> DEFINE l == slots[i].lead
<1>1. l \in Lead /\ server[l] \subseteq Time /\ started \in Nat /\ now \in Nat
  BY SlotLead, BoundsAssumption DEF TypeOK, Time
<1>2. server[l] \subseteq Nat
  BY <1>1, BoundsAssumption DEF Time
<1>3. CASE PullSucceeds(i)
  <2>1. PICK s \in started .. now : \E rows \in Rows(l, Pulled(i, s)) :
          Consume(i, rows, closed \cup {i})
    BY <1>3 DEF PullSucceeds
  <2>2. PICK rows \in Rows(l, Pulled(i, s)) : Consume(i, rows, closed \cup {i})
    BY <2>1
  <2>3. /\ Pulled(i, s) \in SUBSET server[l]
        /\ \A t \in server[l] : t < started => \E u \in Pulled(i, s) : t <= u
        /\ \A t \in Pulled(i, s) : \A u \in server[l] : u < t => u \in Pulled(i, s)
    BY <1>1, <1>2, SMT DEF Pulled
  <2>4. UNCHANGED <<failed, again, ceiled, quarantined>>
    BY <1>3 DEF PullSucceeds
  <2>5. /\ Brings(i, Pulled(i, s))
        /\ stage' \in [Lead -> SUBSET Time] /\ buffer' \in Seq(Lead \X Time)
        /\ drained' \in [Ws -> Mark] /\ progress' \in [Ws -> Mark]
    BY <2>2, <2>3, <2>4, ConsumeBrings
  <2>6. UNCHANGED <<world, committed, wm, phase, toVisit, ws, since, started, slots, prior, retried>>
    BY <2>2 DEF Consume
  <2> QED BY <1>3, <2>3, <2>5, <2>6 DEF PullSucceeds, Pending
<1>4. CASE PullTruncated(i)
  <2>1. PICK s \in started .. now : \E t \in Pulled(i, s) \ {Min(Pulled(i, s))} :
          \E rows \in Rows(l, {u \in Pulled(i, s) : u >= t}) : Consume(i, rows, closed)
    BY <1>4 DEF PullTruncated
  <2>2. PICK t \in Pulled(i, s) :
          \E rows \in Rows(l, {u \in Pulled(i, s) : u >= t}) : Consume(i, rows, closed)
    BY <2>1
  <2> DEFINE P == {u \in Pulled(i, s) : u >= t}
  <2>3. PICK rows \in Rows(l, P) : Consume(i, rows, closed)
    BY <2>2
  <2>4. P \in SUBSET server[l] /\ \A x \in server[l] : x < started => \E u \in P : x <= u
    <3>1. t \in P /\ t \in Nat
      BY <1>2, SMT DEF Pulled
    <3>2. ASSUME NEW x \in server[l], x < started PROVE \E u \in P : x <= u
      <4>1. x \in Pulled(i, s) /\ x \in Nat
        BY <1>1, <1>2, <3>2, SMT DEF Pulled
      <4>2. CASE x >= t
        BY <4>1, <4>2
      <4>3. CASE x < t
        BY <3>1, <4>1, <4>3
      <4> QED BY <3>1, <4>1, <4>2, <4>3
    <3> QED BY <3>2 DEF Pulled
  <2>5. /\ "ceiling" \in setting.may /\ ceiled' = ceiled \cup {ws} /\ quarantined' = ceiled'
        /\ UNCHANGED <<failed, again>>
    BY <1>4 DEF PullTruncated, Fault
  <2> HIDE DEF P
  <2>6. /\ Brings(i, P)
        /\ stage' \in [Lead -> SUBSET Time] /\ buffer' \in Seq(Lead \X Time)
        /\ drained' \in [Ws -> Mark] /\ progress' \in [Ws -> Mark]
    BY <2>3, <2>4, <2>5, ConsumeBrings
  <2>7. UNCHANGED <<world, committed, wm, phase, toVisit, ws, since, started, slots, prior, retried>>
    BY <2>3 DEF Consume
  <2> QED BY <1>4, <2>4, <2>6, <2>7 DEF PullTruncated, Pending
<1>5. CASE PullFails(i)
  BY <1>5 DEF PullFails, Pending, Fault, Records, Ledgered, TypeOK, world
<1>6. CASE PullFailsUnrecorded(i)
  BY <1>6 DEF PullFailsUnrecorded, Pending, Fault, Records, Ledgered, TypeOK, world, files
<1> QED BY <1>3, <1>4, <1>5, <1>6 DEF Pull

-----------------------------------------------------------------------------
(* Types.                                                                  *)

\* The initial state has its types.
LEMMA InitType == Init => TypeOK
<1> SUFFICES ASSUME Init PROVE TypeOK
  OBVIOUS
<1>1. <<>> \in Seq([lead : Lead, key : Mark]) /\ <<>> \in Seq(Lead \X Time) /\ Len(<<>>) = 0
  BY EmptySeq
<1> QED BY <1>1, BoundsAssumption, SMT
     DEF Init, TypeOK, NoRows, NoMarks, Time, Mark, Unset, Phases

\* Every step keeps the types.
LEMMA TypeStep == TypeOK /\ [Next]_vars => TypeOK'
<1> SUFFICES ASSUME TypeOK, [Next]_vars PROVE TypeOK'
  OBVIOUS
<1>0. /\ <<>> \in Seq([lead : Lead, key : Mark]) /\ <<>> \in Seq(Lead \X Time) /\ Len(<<>>) = 0
      /\ Len(slots) \in Nat /\ DOMAIN slots = 1 .. Len(slots)
  BY EmptySeq, LenProperties DEF TypeOK
<1> USE DEF world, slot, memory, files
<1>1. CASE UNCHANGED vars
  BY <1>1, Zenon DEF vars, TypeOK
<1>2. CASE World
  <2>1. CASE Wait
    BY <1>2, <2>1, BoundsAssumption, SMT DEF World, Wait, Tick, TypeOK, Time
  <2>2. ASSUME NEW l \in Lead, Reply(l) PROVE TypeOK'
    <3>1. now' \in Time /\ now \in Time /\ server' = [server EXCEPT ![l] = @ \cup {now}]
      BY <2>2, BoundsAssumption, SMT DEF Reply, Tick, TypeOK, Time
    <3>2. server' \in [Lead -> SUBSET Time]
      BY <3>1 DEF TypeOK
    <3> QED BY <1>2, <2>2, <3>1, <3>2 DEF World, Reply, TypeOK
  <2>3. ASSUME NEW l \in Lead, Sync(l) PROVE TypeOK'
    <3>1. atom' \in [Lead -> SUBSET Time]
      BY <2>3 DEF Sync, TypeOK
    <3> QED BY <1>2, <2>3, <3>1 DEF World, Sync, TypeOK
  <2> QED BY <1>2, <2>1, <2>2, <2>3 DEF World
<1>3. CASE Fetch
  <2>s. UNCHANGED setting
    BY <1>3 DEF Fetch
  <2>1. CASE StartFetch
    BY <1>0, <2>1, <2>s DEF StartFetch, TypeOK, NoMarks, Mark, Phases
  <2>2. ASSUME NEW w \in Ws, Discover(w) PROVE TypeOK'
    <3>1. slots' \in Seq([lead : Lead, key : Mark])
      BY <2>2, FoundSlots DEF Discover
    <3>2. Since(w) \in Mark
      BY SinceBounds
    <3>3. wm' \in [Ws -> Mark] /\ drained' \in [Ws -> Mark] /\ progress' \in [Ws -> Mark]
      BY <2>2, <3>2 DEF Discover, SeededMarks, TypeOK, Later
    <3>4. Len(slots') \in Nat /\ handled' = {} /\ closed' = {}
      BY <2>2, <3>1, LenProperties DEF Discover
    <3> QED BY <2>2, <2>s, <3>1, <3>2, <3>3, <3>4 DEF Discover, TypeOK, Phases
  <2>3. ASSUME NEW w \in Ws, WsFailsEarly(w) PROVE TypeOK'
    BY <2>3, <2>s, BoundsAssumption DEF WsFailsEarly, Fault, TypeOK
  <2>4. ASSUME NEW i \in DOMAIN slots, Pull(i) PROVE TypeOK'
    <3>1. /\ stage' \in [Lead -> SUBSET Time] /\ buffer' \in Seq(Lead \X Time)
          /\ drained' \in [Ws -> Mark] /\ progress' \in [Ws -> Mark]
          /\ UNCHANGED <<now, server, atom, committed, wm, phase, toVisit, ws, since, started,
                         slots, prior, retried>>
          /\ Records(i) \/ \E P \in SUBSET server[slots[i].lead] : Brings(i, P)
      BY <2>4, <2>s, PullOutcome
    <3>2. handled' = handled \cup {i} /\ closed' \subseteq closed \cup {i}
      BY <3>1 DEF Records, Brings
    <3>3. failed' \subseteq Lead /\ again' \subseteq Lead
      BY <3>1, SlotLead DEF Records, Brings, TypeOK
    <3>4. ceiled' \subseteq Ws /\ quarantined' \subseteq Ws
      BY <3>1 DEF Records, Brings, TypeOK
    <3>5. faults' \in 0 .. MaxFaults
      BY <2>4, BoundsAssumption
         DEF Pull, PullSucceeds, PullTruncated, PullFails, PullFailsUnrecorded, Fault, TypeOK
    <3>6. handled' \subseteq 1 .. Len(slots') /\ closed' \subseteq handled'
      BY <1>0, <3>1, <3>2 DEF TypeOK
    <3> QED BY <2>s, <3>1, <3>3, <3>4, <3>5, <3>6 DEF TypeOK
  <2>5. CASE Spill
    <3>1. stage' \in [Lead -> SUBSET Time]
      BY <2>5, AppendedRows DEF Spill, TypeOK
    <3>2. buffer' \in Seq(Lead \X Time)
      BY <2>5, HeadTailProperties DEF Spill, TypeOK
    <3> QED BY <2>5, <2>s, <3>1, <3>2 DEF Spill, TypeOK
  <2>6. CASE FinishWs
    <3>1. stage' \in [Lead -> SUBSET Time]
      BY <2>6, AppendedRows DEF FinishWs, TypeOK
    <3>2. Later(since, DrainedThrough(closed)) \in Mark /\ started \in Mark
      BY PrefixKey DEF TypeOK, Later, Mark
    <3>3. drained' \in [Ws -> Mark] /\ progress' \in [Ws -> Mark]
      BY <2>6, <3>2 DEF FinishWs, TypeOK
    <3> QED BY <1>0, <2>6, <2>s, <3>1, <3>3 DEF FinishWs, TypeOK, Phases
  <2>7. CASE WsFailsLate
    BY <1>0, <2>7, <2>s, BoundsAssumption DEF WsFailsLate, Fault, TypeOK, Phases
  <2>8. CASE CloseStage
    <3>1. stage' \in [Lead -> SUBSET Time]
      BY <2>8, AppendedRows DEF CloseStage, TypeOK
    <3> QED BY <1>0, <2>8, <2>s, <3>1 DEF CloseStage, TypeOK, Phases
  <2>9. CASE RewriteFailed
    BY <1>0, <2>9, <2>s DEF RewriteFailed, Forget, Carried, TypeOK, Phases, NoMarks, Mark
  <2>10. CASE Kill
    BY <1>0, <2>10, <2>s, BoundsAssumption DEF Kill, Fault, Forget, TypeOK, Phases, NoMarks, Mark
  <2> QED BY <1>3, <2>1, <2>2, <2>3, <2>4, <2>5, <2>6, <2>7, <2>8, <2>9, <2>10 DEF Fetch
<1>4. CASE Apply
  <2>s. UNCHANGED setting
    BY <1>4 DEF Apply
  <2>1. CASE Commit
    <3>1. committed' \in [Lead -> SUBSET Time]
      BY <2>1 DEF Commit, TypeOK
    <3> QED BY <2>1, <2>s, <3>1 DEF Commit, TypeOK, Phases
  <2>2. CASE Merge
    <3>1. wm' \in [Ws -> Mark]
      BY <2>2 DEF Merge, MergedMarks, TypeOK, Later
    <3> QED BY <2>2, <2>s, <3>1 DEF Merge, TypeOK, Phases
  <2>3. CASE ApplyFails
    BY <2>3, <2>s, BoundsAssumption DEF ApplyFails, Fault, TypeOK, Phases
  <2>4. CASE Cleanup
    <3>1. stage' \in [Lead -> SUBSET Time] /\ quarantined' \subseteq Ws /\ progress' \in [Ws -> Mark]
      BY <2>4 DEF Cleanup, TypeOK, NoRows, NoMarks, Mark
    <3> QED BY <2>4, <2>s, <3>1 DEF Cleanup, TypeOK, Phases
  <2> QED BY <1>4, <2>1, <2>2, <2>3, <2>4 DEF Apply
<1> QED BY <1>1, <1>2, <1>3, <1>4 DEF Next

\* Every variable keeps its type, whatever fails.
THEOREM TypeCorrect == Spec => []TypeOK
<1> QED BY InitType, TypeStep, PTL DEF Spec

-----------------------------------------------------------------------------
(* The inductive invariant.                                                *)

\* Times and marks are numbers, an overlap is longer than a lag, and a lag is
\* some time.
LEMMA Numbers ==
  ASSUME TypeOK
  PROVE  /\ now \in Nat /\ started \in Nat /\ since \in Int
         /\ Overlap \in Nat /\ Lag \in Nat /\ Lag >= 1 /\ Lag < Overlap
         /\ \A w \in Ws : wm[w] \in Int /\ progress[w] \in Int /\ drained[w] \in Int
         /\ \A w \in Ws : wm[w] >= Unset /\ progress[w] >= Unset /\ drained[w] >= Unset
         /\ \A l \in Lead : Home[l] \in Ws
         /\ \A l \in Lead : \A t \in server[l] : t \in Nat /\ t >= 1
         /\ \A l \in Lead : \A t \in atom[l] : t \in Nat /\ t >= 1
         /\ \A l \in Lead : \A t \in committed[l] : t \in Nat
         /\ \A l \in Lead : \A t \in stage[l] : t \in Nat
         /\ \A l \in Lead : \A t \in Staged(l) : t \in Nat
<1>1. Time \subseteq Nat /\ (\A t \in Time : t >= 1) /\ Mark \subseteq Int /\ \A m \in Mark : m >= Unset
  BY BoundsAssumption, SMT DEF Time, Mark, Unset
<1>2. /\ now \in Time /\ started \in Time /\ since \in Mark
      /\ \A w \in Ws : wm[w] \in Mark /\ progress[w] \in Mark /\ drained[w] \in Mark
      /\ \A l \in Lead : /\ server[l] \subseteq Time /\ atom[l] \subseteq Time
                         /\ committed[l] \subseteq Time /\ stage[l] \subseteq Time
  BY DEF TypeOK
<1>3. \A l \in Lead : Staged(l) \subseteq Time
  BY StagedType
<1>4. Overlap \in Nat /\ Lag \in Nat /\ Lag >= 1 /\ Lag < Overlap
  BY BoundsAssumption
<1>5. \A l \in Lead : Home[l] \in Ws
  BY HomeAssumption
<1> QED BY <1>1, <1>2, <1>3, <1>4, <1>5

\* The initial state.
LEMMA InitIInv == Init => IInv
<1> SUFFICES ASSUME Init PROVE IInv
  OBVIOUS
<1>1. TypeOK
  BY InitType
<1>2. \A l \in Lead : Staged(l) = {}
  BY TimesInNone DEF Init, Staged, NoRows
<1> QED BY <1>1, <1>2, HomeAssumption, SMT
     DEF Init, IInv, LagKept, MarksPast, Forgotten, LedgerKept, MarkSound, ProgressSound, Durable,
         PullSound, RetriedSound, NoRows, NoMarks, Unset, Reached, PassedBy, Ledger

\* When the inbound sync brings something of l, its newest reply is too recent
\* for any mark to pass it.
LEMMA SyncedNotPassed ==
  ASSUME IInv, NEW l \in Lead, Sync(l), NEW m \in Int, m <= now
  PROVE  /\ \E t \in atom'[l] : ~(t <= m - Overlap)
         /\ \A t \in atom'[l] \ atom[l] : ~(t <= m - Overlap)
<1>1. atom'[l] = server[l] /\ atom[l] # server[l]
  BY DEF Sync, IInv, TypeOK
<1>2. atom[l] \subseteq server[l] /\ \A t \in server[l] \ atom[l] : now - t <= Lag
  BY DEF IInv, LagKept
<1>3. \A t \in server[l] \ atom[l] : ~(t <= m - Overlap)
  BY <1>2, Numbers, SMT DEF IInv
<1> QED BY <1>1, <1>2, <1>3

\* Replies and syncs.
LEMMA WorldStep == IInv /\ World => IInv'
<1> SUFFICES ASSUME IInv, World PROVE IInv'
  OBVIOUS
<1>t. TypeOK /\ TypeOK'
  BY TypeStep DEF IInv, Next
<1>u. /\ UNCHANGED <<committed, wm, failed, stage, quarantined, progress, phase, toVisit, ws, since,
                     started, slots, handled, closed, buffer, drained, prior, again, retried,
                     ceiled, setting>>
      /\ \A l : Staged(l)' = Staged(l)
  BY DEF World, Wait, Reply, Sync, Staged, files, slot, memory
<1>n. /\ now \in Nat /\ started <= now /\ started \in Nat /\ Lag \in Nat /\ Lag >= 1
      /\ \A w \in Ws : wm[w] <= now /\ progress[w] <= now /\ drained[w] <= now
      /\ \A w \in Ws : wm[w] \in Int /\ progress[w] \in Int /\ drained[w] \in Int
      /\ \A l \in Lead : Home[l] \in Ws
      /\ \A l \in Lead : \A t \in server[l] : t \in Nat
  BY <1>t, Numbers DEF IInv, MarksPast
<1>1. Forgotten' /\ LedgerKept' /\ Durable'
  BY <1>u DEF IInv, Forgotten, LedgerKept, Durable, Ledger, Ledgered
<1>2. CASE Wait \/ \E l \in Lead : Reply(l)
  <2>1. now' = now + 1 /\ UNCHANGED atom
    BY <1>2 DEF Wait, Reply, Tick
  <2>2. /\ \A l \in Lead : server[l] \subseteq server'[l] /\ server'[l] \subseteq server[l] \cup {now}
        /\ \A l \in Lead : \A t \in server[l] \ atom[l] : now + 1 - t <= Lag
    BY <1>2, <1>t DEF Wait, Reply, Tick, TypeOK
  <2>3. LagKept'
    <3> SUFFICES ASSUME NEW l \in Lead
                 PROVE  /\ \A t \in server'[l] : t < now'
                        /\ atom'[l] \subseteq server'[l]
                        /\ \A t \in server'[l] \ atom'[l] : now' - t <= Lag
      BY DEF LagKept
    <3>1. (\A t \in server[l] : t < now) /\ atom[l] \subseteq server[l]
      BY DEF IInv, LagKept
    <3> QED BY <2>1, <2>2, <3>1, <1>n
  <2>4. MarksPast'
    BY <1>u, <1>n, <2>1, SMT DEF IInv, MarksPast
  <2>5. MarkSound' /\ ProgressSound' /\ RetriedSound'
    <3>1. MarkSound'
      BY <1>u, <2>1 DEF IInv, MarkSound, PassedBy, Reached, Ledger, Ledgered
    <3>2. ProgressSound'
      BY <1>u, <2>1 DEF IInv, ProgressSound, PassedBy, Reached, Ledger
    <3>3. RetriedSound'
      BY <1>u, <2>1 DEF IInv, RetriedSound
    <3> QED BY <3>1, <3>2, <3>3
  <2>6. PullSound'
    <3>1. ASSUME NEW l \in Lead, Settled(l) PROVE Settled(l)'
      <4>1. \A t \in server'[l] : t + Lag < started => t \in server[l]
        BY <2>2, <1>n
      <4> QED BY <1>u, <3>1, <4>1 DEF Settled
    <3>2. ASSUME NEW l \in Lead, PulledTo(l, started) PROVE PulledTo(l, started)'
      <4>1. \A t \in server'[l] : t < started => t \in server[l]
        BY <2>2, <1>n
      <4> QED BY <1>u, <3>2, <4>1 DEF PulledTo
    <3>3. \A i \in DOMAIN slots : slots[i].lead \in Lead
      BY <1>t, SlotLead
    <3>4. \A l \in Lead : InSlots(l)' <=> InSlots(l)
      BY <1>u DEF InSlots
    <3> QED BY <1>u, <2>1, <3>1, <3>2, <3>3, <3>4 DEF IInv, PullSound, LeadsOf
  <2> QED BY <1>t, <1>1, <2>3, <2>4, <2>5, <2>6 DEF IInv
<1>3. ASSUME NEW k \in Lead, Sync(k) PROVE IInv'
  <2>1. UNCHANGED <<now, server>> /\ atom'[k] = server[k] /\ \A l \in Lead \ {k} : atom'[l] = atom[l]
    BY <1>3, <1>t DEF Sync, TypeOK
  <2>2. LagKept'
    BY <2>1 DEF IInv, LagKept
  <2>3. MarksPast'
    BY <1>u, <2>1 DEF IInv, MarksPast
  <2>4. ASSUME NEW m \in Int, m <= now, NEW l \in Lead
        PROVE  /\ PassedBy(l, m)' => PassedBy(l, m) /\ l # k
               /\ \A t \in atom'[l] : t <= m - Overlap => t \in atom[l]
    BY <1>3, <2>1, <2>4, SyncedNotPassed DEF PassedBy
  <2>5. \A l \in Lead : l # k => \A T : Reached(l, T)' <=> Reached(l, T)
    BY <2>1 DEF Reached
  <2>6. MarkSound'
    <3> SUFFICES ASSUME NEW l \in Lead, PassedBy(l, wm[Home[l]])'
                 PROVE  \/ Reached(l, committed[l])'
                        \/ l \in Ledger'
                        \/ /\ Reached(l, committed[l] \cup stage[l])'
                           /\ Ledgered(setting') /\ (setting'.keep \/ phase' = "apply")
      BY DEF MarkSound
    <3>1. PassedBy(l, wm[Home[l]]) /\ l # k
      BY <1>n, <1>u, <2>4 DEF PassedBy
    <3> QED BY <1>u, <2>1, <3>1 DEF IInv, MarkSound, Reached, Ledger
  <2>7. ProgressSound'
    <3> SUFFICES ASSUME NEW l \in Lead, PassedBy(l, progress[Home[l]])' \/ PassedBy(l, drained[Home[l]])'
                 PROVE  Reached(l, committed[l] \cup stage[l])' \/ l \in Ledger'
      BY DEF ProgressSound
    <3>1. (PassedBy(l, progress[Home[l]]) \/ PassedBy(l, drained[Home[l]])) /\ l # k
      BY <1>n, <1>u, <2>4 DEF PassedBy
    <3> QED BY <1>u, <2>1, <3>1 DEF IInv, ProgressSound, Reached, Ledger
  <2>8. RetriedSound'
    <3> SUFFICES ASSUME NEW l \in prior, Home[l] \in retried, l \notin again, NEW t \in atom'[l],
                        NEW m \in {wm[Home[l]], progress[Home[l]], drained[Home[l]]},
                        t <= m - Overlap
                 PROVE  \E u \in Staged(l) : t <= u
      BY <1>u, <1>t DEF RetriedSound, TypeOK
    <3>1. l \in Lead /\ Home[l] \in Ws
      BY <1>t, <1>n DEF TypeOK
    <3>2. m \in Int /\ m <= now
      BY <1>n, <3>1
    <3>3. t \in atom[l]
      BY <2>4, <3>1, <3>2
    <3> QED BY <3>3 DEF IInv, RetriedSound
  <2>9. PullSound'
    <3>1. \A l : Settled(l)' <=> Settled(l)
      BY <1>u, <2>1 DEF Settled
    <3>2. \A l : PulledTo(l, started)' <=> PulledTo(l, started)
      BY <1>u, <2>1 DEF PulledTo
    <3>3. \A l : InSlots(l)' <=> InSlots(l)
      BY <1>u DEF InSlots
    <3>4. \A l \in Lead : atom[l] \subseteq atom'[l]
      <4>1. atom[k] \subseteq server[k]
        BY DEF IInv, LagKept
      <4> QED BY <2>1, <4>1
    <3>5. \A i \in DOMAIN slots : slots[i].lead \in Lead
      BY <1>t, SlotLead
    <3> SUFFICES ASSUME phase = "pull"
                 PROVE  /\ \A l \in LeadsOf(ws) : InSlots(l)' \/ (l \notin prior /\ Settled(l)')
                        /\ \A i \in DOMAIN slots :
                             /\ slots[i].key = Unset \/ slots[i].key \in atom'[slots[i].lead]
                             /\ i \in handled => slots[i].lead \in again \/ PulledTo(slots[i].lead, started)'
      BY <1>u DEF IInv, PullSound, LeadsOf
    <3>6. \A l \in LeadsOf(ws) : InSlots(l)' \/ (l \notin prior /\ Settled(l)')
      <4>1. \A l \in LeadsOf(ws) : InSlots(l) \/ (l \notin prior /\ Settled(l))
        BY DEF IInv, PullSound
      <4> QED BY <3>1, <3>3, <4>1
    <3>7. ASSUME NEW i \in DOMAIN slots
          PROVE  /\ slots[i].key = Unset \/ slots[i].key \in atom'[slots[i].lead]
                 /\ i \in handled => slots[i].lead \in again \/ PulledTo(slots[i].lead, started)'
      <4>1. /\ slots[i].key = Unset \/ slots[i].key \in atom[slots[i].lead]
            /\ i \in handled => slots[i].lead \in again \/ PulledTo(slots[i].lead, started)
        BY DEF IInv, PullSound
      <4>2. slots' = slots /\ started' = started
        BY <1>u
      <4> QED BY <3>2, <3>4, <3>5, <4>1, <4>2
    <3> QED BY <3>6, <3>7
  <2> QED BY <1>t, <1>1, <2>2, <2>3, <2>6, <2>7, <2>8, <2>9 DEF IInv
<1> QED BY <1>2, <1>3 DEF World

\* What keeps the marks sound where none of them moves: the stage only grows
\* and nobody leaves the ledger.
LEMMA MarksStay ==
  ASSUME IInv, UNCHANGED <<world, committed, wm, drained, progress, setting>>,
         \A l \in Lead : stage[l] \subseteq stage'[l],
         Ledger \subseteq Ledger', phase = "apply" => phase' = "apply"
  PROVE  LagKept' /\ MarkSound' /\ ProgressSound'
<1>1. LagKept'
  BY DEF world, IInv, LagKept
<1>2. MarkSound'
  <2> SUFFICES ASSUME NEW l \in Lead, PassedBy(l, wm[Home[l]])'
               PROVE  \/ Reached(l, committed[l])'
                      \/ l \in Ledger'
                      \/ /\ Reached(l, committed[l] \cup stage[l])'
                         /\ Ledgered(setting') /\ (setting'.keep \/ phase' = "apply")
    BY DEF MarkSound
  <2>1. PassedBy(l, wm[Home[l]])
    BY DEF PassedBy, world
  <2>2. \/ Reached(l, committed[l])
        \/ l \in Ledger
        \/ /\ Reached(l, committed[l] \cup stage[l])
           /\ Ledgered(setting) /\ (setting.keep \/ phase = "apply")
    BY <2>1 DEF IInv, MarkSound
  <2> QED BY <2>2 DEF Reached, world
<1>3. ProgressSound'
  <2> SUFFICES ASSUME NEW l \in Lead, PassedBy(l, progress[Home[l]])' \/ PassedBy(l, drained[Home[l]])'
               PROVE  Reached(l, committed[l] \cup stage[l])' \/ l \in Ledger'
    BY DEF ProgressSound
  <2>1. Reached(l, committed[l] \cup stage[l]) \/ l \in Ledger
    BY DEF IInv, ProgressSound, PassedBy, world
  <2> QED BY <2>1 DEF Reached, world
<1> QED BY <1>1, <1>2, <1>3

\* The fetch starts.
LEMMA StartFetchStep == IInv /\ StartFetch /\ UNCHANGED setting => IInv'
<1> SUFFICES ASSUME IInv, StartFetch, UNCHANGED setting PROVE IInv'
  OBVIOUS
<1>t. TypeOK /\ TypeOK'
  BY TypeStep DEF IInv, Next, Fetch
<1>0. again = {} /\ prior = {} /\ retried = {} /\ ceiled = {} /\ drained = NoMarks /\ buffer = <<>>
  BY DEF IInv, Forgotten, StartFetch
<1>u. /\ UNCHANGED <<now, server, atom, committed, wm, failed, stage, quarantined, progress,
                     started, buffer, drained, again, retried, ceiled, setting>>
      /\ phase = "idle" /\ phase' = "fetch" /\ prior' = failed
      /\ \A l : Staged(l)' = Staged(l)
  BY <1>0 DEF StartFetch, world, files, slot, Staged
<1>1. LagKept' /\ MarkSound' /\ ProgressSound'
  <2>1. Ledger \subseteq Ledger'
    BY <1>u, <1>0 DEF Ledger
  <2> QED BY <1>u, <2>1, MarksStay DEF world
<1>2. MarksPast'
  BY <1>u DEF IInv, MarksPast
<1>3. Forgotten' /\ Durable' /\ PullSound'
  BY <1>u, <1>0 DEF Forgotten, Durable, PullSound
<1>4. LedgerKept'
  BY <1>u, <1>0 DEF IInv, LedgerKept, Ledger, Ledgered
<1>5. RetriedSound'
  BY <1>u, <1>0 DEF RetriedSound
<1> QED BY <1>t, <1>1, <1>2, <1>3, <1>4, <1>5 DEF IInv

\* A workspace fails as a whole.
LEMMA WsFailsStep ==
  (WsFailsLate \/ \E w \in Ws : WsFailsEarly(w)) /\ IInv /\ UNCHANGED setting => IInv'
<1> SUFFICES ASSUME WsFailsLate \/ \E w \in Ws : WsFailsEarly(w), IInv, UNCHANGED setting
             PROVE  IInv'
  OBVIOUS
<1>t. TypeOK /\ TypeOK'
  BY TypeStep DEF IInv, Next, Fetch
<1>u. /\ UNCHANGED <<now, server, atom, committed, wm, failed, stage, quarantined, progress,
                     started, buffer, drained, prior, again, retried, ceiled, setting>>
      /\ phase \in {"fetch", "pull"} /\ phase' = "fetch" /\ toVisit' \subseteq toVisit
      /\ \A l : Staged(l)' = Staged(l)
  BY DEF WsFailsLate, WsFailsEarly, world, files, slot, memory, Staged
<1>1. LagKept' /\ MarkSound' /\ ProgressSound'
  <2>1. Ledger \subseteq Ledger'
    BY <1>u DEF Ledger
  <2> QED BY <1>u, <2>1, MarksStay DEF world
<1>2. MarksPast' /\ RetriedSound'
  BY <1>u DEF IInv, MarksPast, RetriedSound
<1>3. Forgotten' /\ Durable' /\ PullSound'
  BY <1>u DEF IInv, Forgotten, Durable, PullSound
<1>4. LedgerKept'
  BY <1>u DEF IInv, LedgerKept, Ledger, Ledgered
<1> QED BY <1>t, <1>1, <1>2, <1>3, <1>4 DEF IInv

\* A row goes to disk.
LEMMA SpillStep == IInv /\ Spill /\ UNCHANGED setting => IInv'
<1> SUFFICES ASSUME IInv, Spill, UNCHANGED setting PROVE IInv'
  OBVIOUS
<1>t. TypeOK /\ TypeOK'
  BY TypeStep DEF IInv, Next, Fetch
<1>u. /\ UNCHANGED <<now, server, atom, committed, wm, failed, quarantined, progress, phase, ws, since,
                     started, slots, handled, closed, toVisit, drained, prior, again, retried,
                     ceiled, setting>>
      /\ phase = "pull" /\ buffer # <<>>
  BY DEF Spill, world, slot
<1>s. /\ \A l \in Lead : stage[l] \subseteq stage'[l]
      /\ \A l \in Lead : Staged(l)' = Staged(l)
  <2>1. /\ \A l \in Lead : stage'[l] = stage[l] \cup TimesIn(<<Head(buffer)>>, l)
        /\ buffer' = Tail(buffer)
    BY <1>t, AppendedRows DEF Spill, TypeOK
  <2>2. \A l \in Lead : \A t : t \in TimesIn(buffer, l)
          <=> t \in TimesIn(<<Head(buffer)>>, l) \/ t \in TimesIn(Tail(buffer), l)
    BY <1>t, <1>u, TimesInSpill DEF TypeOK
  <2> QED BY <2>1, <2>2 DEF Staged
<1>1. LagKept' /\ MarkSound' /\ ProgressSound'
  <2>1. Ledger \subseteq Ledger'
    BY <1>u DEF Ledger
  <2> QED BY <1>u, <1>s, <2>1, MarksStay DEF world
<1>2. MarksPast'
  BY <1>u, <1>s DEF IInv, MarksPast
<1>3. Forgotten' /\ Durable'
  BY <1>u DEF IInv, Forgotten, Durable
<1>4. LedgerKept'
  BY <1>u DEF IInv, LedgerKept, Ledger, Ledgered
<1>5. RetriedSound'
  BY <1>u, <1>s, <1>t DEF IInv, RetriedSound, TypeOK
<1>6. PullSound'
  <2>1. \A l : Settled(l)' <=> Settled(l)
    BY <1>u DEF Settled
  <2>2. \A l : InSlots(l)' <=> InSlots(l)
    BY <1>u DEF InSlots
  <2>3. \A l \in Lead : PulledTo(l, started)' <=> PulledTo(l, started)
    BY <1>u, <1>s DEF PulledTo
  <2>4. \A l \in LeadsOf(ws) : InSlots(l)' \/ (l \notin prior /\ Settled(l)')
    <3>1. \A l \in LeadsOf(ws) : InSlots(l) \/ (l \notin prior /\ Settled(l))
      BY <1>u DEF IInv, PullSound
    <3> QED BY <2>1, <2>2, <3>1
  <2>5. ASSUME NEW i \in DOMAIN slots, i \in handled
        PROVE  slots[i].lead \in again \/ PulledTo(slots[i].lead, started)'
    <3>1. slots[i].lead \in Lead
      BY <1>t, SlotLead
    <3>2. slots[i].lead \in again \/ PulledTo(slots[i].lead, started)
      BY <1>u, <2>5 DEF IInv, PullSound
    <3>3. slots' = slots /\ started' = started
      BY <1>u
    <3> QED BY <2>3, <3>1, <3>2, <3>3
  <2> QED BY <1>u, <2>4, <2>5 DEF IInv, PullSound, LeadsOf
<1> QED BY <1>t, <1>1, <1>2, <1>3, <1>4, <1>5, <1>6 DEF IInv

\* The stage is closed and the ledger file emptied; it is all in memory.
LEMMA CloseStageStep == IInv /\ CloseStage /\ UNCHANGED setting => IInv'
<1> SUFFICES ASSUME IInv, CloseStage, UNCHANGED setting PROVE IInv'
  OBVIOUS
<1>t. TypeOK /\ TypeOK'
  BY TypeStep DEF IInv, Next, Fetch
<1>u. /\ UNCHANGED <<now, server, atom, committed, wm, quarantined, progress, started, toVisit,
                     drained, prior, again, retried, ceiled, setting>>
      /\ phase = "fetch" /\ phase' = "rewrite" /\ buffer' = <<>> /\ failed' = {}
  BY DEF CloseStage, world, slot
<1>s. /\ \A l \in Lead : stage[l] \subseteq stage'[l]
      /\ \A l \in Lead : Staged(l)' = Staged(l)
  <2>1. \A l \in Lead : stage'[l] = stage[l] \cup TimesIn(buffer, l)
    BY <1>t, AppendedRows DEF CloseStage, TypeOK
  <2> QED BY <1>u, <2>1, TimesInNone DEF Staged
<1>l. Ledger' = again \cup prior /\ Ledger \subseteq Ledger'
  BY <1>u DEF IInv, LedgerKept, Ledger
<1>1. LagKept' /\ MarkSound' /\ ProgressSound'
  BY <1>u, <1>s, <1>l, MarksStay DEF world
<1>2. MarksPast'
  BY <1>u, <1>s DEF IInv, MarksPast
<1>3. Forgotten' /\ Durable' /\ PullSound'
  BY <1>u DEF IInv, Forgotten, Durable, PullSound
<1>4. LedgerKept'
  BY <1>u, <1>l DEF IInv, LedgerKept, Ledger, Ledgered
<1>5. RetriedSound'
  BY <1>u, <1>s, <1>t DEF IInv, RetriedSound, TypeOK
<1> QED BY <1>t, <1>1, <1>2, <1>3, <1>4, <1>5 DEF IInv

\* The ledger is written anew: a prior failure is dropped only when its
\* workspace was done, and then its rows are in the stage about to be applied.
LEMMA RewriteStep == IInv /\ RewriteFailed /\ UNCHANGED setting => IInv'
<1> SUFFICES ASSUME IInv, RewriteFailed, UNCHANGED setting PROVE IInv'
  OBVIOUS
<1>t. TypeOK /\ TypeOK'
  BY TypeStep DEF IInv, Next, Fetch
<1>0. buffer = <<>>
  BY DEF IInv, Forgotten, RewriteFailed
<1>u. /\ UNCHANGED <<now, server, atom, committed, wm, stage, progress, started, buffer, setting>>
      /\ phase = "rewrite" /\ phase' = "apply"
      /\ failed' = again \cup {l \in prior : Home[l] \notin retried} /\ quarantined' = ceiled
      /\ toVisit' = {} /\ again' = {} /\ prior' = {} /\ retried' = {} /\ ceiled' = {}
      /\ drained' = NoMarks
  BY <1>0 DEF RewriteFailed, Forget, Carried, world
<1>s. \A l \in Lead : Staged(l)' = Staged(l) /\ Staged(l) = stage[l]
  BY <1>0, <1>u, TimesInNone DEF Staged
<1>n. \A l \in Lead : Home[l] \in Ws
  BY <1>t, Numbers
<1>1. LagKept' /\ Forgotten' /\ Durable' /\ PullSound' /\ RetriedSound'
  <2>1. LagKept'
    BY <1>u DEF IInv, LagKept
  <2> QED BY <1>u, <1>0, <2>1 DEF Forgotten, Durable, PullSound, RetriedSound
<1>2. MarksPast'
  BY <1>u, <1>s, <1>t, Numbers, SMT DEF IInv, MarksPast, NoMarks, Unset
<1>3. LedgerKept'
  <2>1. Ledger' = failed' /\ failed' \subseteq Ledger
    BY <1>u DEF Ledger
  <2> QED BY <1>u, <2>1 DEF IInv, LedgerKept, Ledgered
<1>4. ASSUME NEW l \in Lead, l \in Ledger, l \notin Ledger',
             NEW m \in {wm[Home[l]], progress[Home[l]]}, PassedBy(l, m)
      PROVE  Reached(l, stage[l]) /\ Ledgered(setting)
  <2>1. Ledgered(setting)
    BY <1>4 DEF IInv, LedgerKept
  <2>2. CASE l \in prior
    <3>1. Home[l] \in retried /\ l \notin again
      BY <1>4, <1>u, <2>2 DEF Ledger
    <3>2. \A t \in atom[l] : t <= m - Overlap => \E u \in Staged(l) : t <= u
      BY <2>2, <3>1 DEF IInv, RetriedSound
    <3> QED BY <1>s, <1>4, <2>1, <3>2 DEF PassedBy, Reached
  <2>3. CASE l \in again
    BY <1>4, <1>u, <2>3 DEF Ledger
  <2>4. CASE l \in failed
    BY <1>u, <2>4 DEF IInv, LedgerKept
  <2> QED BY <1>4, <2>1, <2>2, <2>3, <2>4 DEF Ledger
<1>5. MarkSound'
  <2> SUFFICES ASSUME NEW l \in Lead, PassedBy(l, wm[Home[l]]), l \notin Ledger',
                      ~Reached(l, committed[l])
               PROVE  Reached(l, committed[l] \cup stage[l]) /\ Ledgered(setting)
    BY <1>u DEF MarkSound, PassedBy, Reached
  <2>1. \/ l \in Ledger
        \/ Reached(l, committed[l] \cup stage[l]) /\ Ledgered(setting)
    BY DEF IInv, MarkSound
  <2>2. CASE l \in Ledger
    BY <1>4, <2>2 DEF Reached
  <2> QED BY <2>1, <2>2
<1>6. ProgressSound'
  <2> SUFFICES ASSUME NEW l \in Lead, PassedBy(l, progress[Home[l]]) \/ PassedBy(l, Unset), l \notin Ledger'
               PROVE  Reached(l, committed[l] \cup stage[l])
    BY <1>u, <1>n DEF ProgressSound, PassedBy, Reached, NoMarks
  <2>1. CASE PassedBy(l, Unset)
    <3>1. atom[l] = {}
      BY <1>t, <2>1, Numbers, SMT DEF PassedBy, Unset
    <3> QED BY <3>1 DEF Reached
  <2>2. CASE PassedBy(l, progress[Home[l]])
    <3>1. Reached(l, committed[l] \cup stage[l]) \/ l \in Ledger
      BY <2>2 DEF IInv, ProgressSound
    <3>2. CASE l \in Ledger
      BY <1>4, <2>2, <3>2 DEF Reached
    <3> QED BY <3>1, <3>2
  <2> QED BY <2>1, <2>2
<1> QED BY <1>t, <1>1, <1>2, <1>3, <1>5, <1>6 DEF IInv

\* The fetch is killed: who is in a ledger is in the one on disk, or else this
\* setting has nobody in a ledger.
LEMMA KillStep ==
  ASSUME IInv, Kill, UNCHANGED setting, Survives(setting)
  PROVE  IInv'
<1>t. TypeOK /\ TypeOK'
  BY TypeStep DEF IInv, Next, Fetch
<1>u. /\ UNCHANGED <<now, server, atom, committed, wm, failed, stage, quarantined, progress, started, setting>>
      /\ phase' = "apply" /\ buffer' = <<>> /\ toVisit' = {}
      /\ again' = {} /\ prior' = {} /\ retried' = {} /\ ceiled' = {}
      /\ drained' = NoMarks
  BY DEF Kill, Forget, world, files
<1>k. \/ phase \in {"fetch", "pull"} /\ "kill" \in setting.may
      \/ phase = "rewrite" /\ "rewrite_kill" \in setting.may
  BY DEF Kill, Fault
<1>n. \A l \in Lead : Home[l] \in Ws
  BY <1>t, Numbers
<1>l. Ledger = Ledger'
  <2>1. CASE phase \in {"fetch", "pull"} /\ "kill" \in setting.may
    <3>1. "append_error" \notin setting.may
      BY <2>1 DEF Survives
    <3>2. prior \subseteq failed /\ again \subseteq failed
      BY <2>1, <3>1 DEF IInv, LedgerKept
    <3> QED BY <1>u, <3>2 DEF Ledger
  <2>2. CASE phase = "rewrite" /\ "rewrite_kill" \in setting.may
    <3>1. Ledger = {}
      BY <2>2 DEF IInv, LedgerKept, Survives
    <3> QED BY <1>u, <3>1 DEF Ledger
  <2> QED BY <1>k, <2>1, <2>2
<1>1. LagKept' /\ Forgotten' /\ Durable' /\ PullSound' /\ RetriedSound'
  <2>1. LagKept'
    BY <1>u DEF IInv, LagKept
  <2> QED BY <1>u, <2>1 DEF Forgotten, Durable, PullSound, RetriedSound
<1>2. MarksPast'
  <2>1. \A l : Staged(l)' = stage[l]
    BY <1>u, TimesInNone DEF Staged
  <2>2. \A l \in Lead : stage[l] \subseteq Staged(l)
    BY DEF Staged
  <2>3. \A w \in Ws : wm'[w] <= now' /\ progress'[w] <= now' /\ drained'[w] <= now'
    BY <1>u, <1>t, Numbers, SMT DEF IInv, MarksPast, NoMarks, Unset
  <2> QED BY <1>u, <2>1, <2>2, <2>3 DEF IInv, MarksPast
<1>3. LedgerKept'
  BY <1>u, <1>l DEF IInv, LedgerKept, Ledgered
<1>4. MarkSound'
  BY <1>u, <1>l DEF IInv, MarkSound, PassedBy, Reached
<1>5. ProgressSound'
  <2> SUFFICES ASSUME NEW l \in Lead, PassedBy(l, progress[Home[l]]) \/ PassedBy(l, Unset), l \notin Ledger'
               PROVE  Reached(l, committed[l] \cup stage[l])
    BY <1>u, <1>n DEF ProgressSound, PassedBy, Reached, NoMarks
  <2>1. CASE PassedBy(l, Unset)
    <3>1. atom[l] = {}
      BY <1>t, <2>1, Numbers, SMT DEF PassedBy, Unset
    <3> QED BY <3>1 DEF Reached
  <2>2. CASE PassedBy(l, progress[Home[l]])
    BY <1>l, <2>2 DEF IInv, ProgressSound
  <2> QED BY <2>1, <2>2
<1> QED BY <1>t, <1>1, <1>2, <1>3, <1>4, <1>5 DEF IInv

\* The stage is committed: what it reached, the warehouse reaches.
LEMMA CommitStep ==
  ASSUME IInv, Commit, UNCHANGED setting, Survives(setting)
  PROVE  IInv'
<1>t. TypeOK /\ TypeOK'
  BY TypeStep DEF IInv, Next, Apply
<1>u. /\ UNCHANGED <<now, server, atom, wm, failed, stage, quarantined, progress, started, buffer,
                     toVisit, drained, prior, again, retried, ceiled, setting>>
      /\ phase = "apply" /\ phase' = "merge"
      /\ \A l : Staged(l)' = Staged(l)
      /\ \A l \in Lead : committed'[l] =
           IF Home[l] \in quarantined THEN committed[l] ELSE committed[l] \cup stage[l]
  BY <1>t DEF Commit, world, files, slot, memory, Staged
<1>c. \A l \in Lead : /\ committed[l] \subseteq committed'[l]
                      /\ committed'[l] \subseteq committed[l] \cup stage[l]
                      /\ stage[l] \subseteq Staged(l)
  BY <1>u DEF Staged
<1>1. LagKept' /\ Forgotten' /\ Durable' /\ PullSound' /\ RetriedSound' /\ LedgerKept'
  <2>1. LagKept' /\ Forgotten'
    BY <1>u DEF IInv, LagKept, Forgotten
  <2>2. Durable' /\ PullSound'
    BY <1>u DEF Durable, PullSound
  <2>3. RetriedSound' /\ LedgerKept'
    BY <1>u DEF IInv, RetriedSound, LedgerKept, Ledger, Ledgered
  <2> QED BY <2>1, <2>2, <2>3
<1>2. MarksPast'
  BY <1>u, <1>c, SMT DEF IInv, MarksPast
<1>3. MarkSound'
  <2> SUFFICES ASSUME NEW l \in Lead, PassedBy(l, wm[Home[l]]), l \notin Ledger
               PROVE  Reached(l, committed'[l])
    BY <1>u DEF MarkSound, PassedBy, Reached, Ledger
  <2>1. CASE Reached(l, committed[l])
    BY <1>c, <2>1 DEF Reached
  <2>2. CASE Reached(l, committed[l] \cup stage[l]) /\ Ledgered(setting)
    <3>1. quarantined = {}
      BY <2>2 DEF IInv, LedgerKept, Survives
    <3> QED BY <1>u, <2>2, <3>1
  <2> QED BY <2>1, <2>2 DEF IInv, MarkSound
<1>4. ProgressSound'
  BY <1>u, <1>c DEF IInv, ProgressSound, PassedBy, Reached, Ledger
<1> QED BY <1>t, <1>1, <1>2, <1>3, <1>4 DEF IInv

\* The marks advance to a progress whose rows are committed.
LEMMA MergeStep == IInv /\ Merge /\ UNCHANGED setting => IInv'
<1> SUFFICES ASSUME IInv, Merge, UNCHANGED setting PROVE IInv'
  OBVIOUS
<1>t. TypeOK /\ TypeOK'
  BY TypeStep DEF IInv, Next, Apply
<1>u. /\ UNCHANGED <<now, server, atom, committed, failed, stage, quarantined, progress, started, buffer,
                     toVisit, drained, prior, again, retried, ceiled, setting>>
      /\ phase = "merge" /\ phase' = "cleanup"
      /\ \A l : Staged(l)' = Staged(l)
      /\ \A w \in Ws : wm'[w] = IF w \in quarantined THEN wm[w] ELSE Later(wm[w], progress[w])
  BY DEF Merge, MergedMarks, world, slot, memory, Staged
<1>n. /\ \A l \in Lead : Home[l] \in Ws
      /\ \A w \in Ws : wm[w] \in Int /\ progress[w] \in Int /\ wm[w] >= Unset /\ progress[w] >= Unset
  BY <1>t, Numbers
<1>0. prior = {}
  BY <1>u DEF IInv, Forgotten
<1>1. LagKept' /\ Forgotten' /\ Durable' /\ PullSound' /\ RetriedSound' /\ LedgerKept'
  <2>1. LagKept' /\ Forgotten'
    BY <1>u DEF IInv, LagKept, Forgotten
  <2>2. Durable' /\ PullSound' /\ RetriedSound'
    BY <1>u, <1>0 DEF Durable, PullSound, RetriedSound
  <2>3. LedgerKept'
    BY <1>u DEF IInv, LedgerKept, Ledger, Ledgered
  <2> QED BY <2>1, <2>2, <2>3
<1>2. MarksPast'
  <2>1. \A w \in Ws : wm'[w] <= now /\ (wm'[w] = Unset => wm[w] = Unset)
    BY <1>u, <1>n, SMT DEF IInv, MarksPast, Later, Unset
  <2> QED BY <1>u, <1>n, <2>1 DEF IInv, MarksPast
<1>3. MarkSound'
  <2> SUFFICES ASSUME NEW l \in Lead, PassedBy(l, wm'[Home[l]])
               PROVE  \/ Reached(l, committed[l])
                      \/ l \in Ledger
                      \/ /\ Reached(l, committed[l] \cup stage[l])
                         /\ Ledgered(setting) /\ setting.keep
    BY <1>u DEF MarkSound, PassedBy, Reached, Ledger, Ledgered
  <2>1. CASE wm'[Home[l]] = wm[Home[l]]
    BY <1>u, <2>1 DEF IInv, MarkSound
  <2>2. CASE Home[l] \notin quarantined /\ wm'[Home[l]] = progress[Home[l]]
    <3>1. stage[l] \subseteq committed[l]
      BY <1>u, <2>2 DEF IInv, Durable
    <3>2. Reached(l, committed[l] \cup stage[l]) \/ l \in Ledger
      BY <2>2 DEF IInv, ProgressSound
    <3> QED BY <3>1, <3>2 DEF Reached
  <2> QED BY <1>u, <1>n, <2>1, <2>2 DEF Later
<1>4. ProgressSound'
  BY <1>u DEF IInv, ProgressSound, PassedBy, Reached, Ledger
<1> QED BY <1>t, <1>1, <1>2, <1>3, <1>4 DEF IInv

\* Apply dies: where somebody is in a ledger the stage is kept.
LEMMA ApplyFailsStep ==
  ASSUME IInv, ApplyFails, UNCHANGED setting, Survives(setting)
  PROVE  IInv'
<1>t. TypeOK /\ TypeOK'
  BY TypeStep DEF IInv, Next, Apply
<1>u. /\ UNCHANGED <<now, server, atom, committed, wm, failed, stage, quarantined, progress, started, buffer,
                     toVisit, drained, prior, again, retried, ceiled, setting>>
      /\ phase \in {"apply", "merge"} /\ phase' = "cleanup" /\ "apply_error" \in setting.may
      /\ \A l : Staged(l)' = Staged(l)
  BY DEF ApplyFails, Fault, world, files, slot, memory, Staged
<1>1. LagKept' /\ Forgotten' /\ Durable' /\ PullSound' /\ RetriedSound' /\ LedgerKept'
  <2>1. LagKept' /\ Forgotten'
    BY <1>u DEF IInv, LagKept, Forgotten
  <2>2. Durable' /\ PullSound'
    BY <1>u DEF Durable, PullSound
  <2>3. RetriedSound' /\ LedgerKept'
    BY <1>u DEF IInv, RetriedSound, LedgerKept, Ledger, Ledgered
  <2> QED BY <2>1, <2>2, <2>3
<1>2. MarksPast'
  BY <1>u DEF IInv, MarksPast
<1>3. Ledgered(setting) => setting.keep
  BY <1>u DEF Survives
<1>4. MarkSound'
  BY <1>u, <1>3 DEF IInv, MarkSound, PassedBy, Reached, Ledger, Ledgered
<1>5. ProgressSound'
  BY <1>u DEF IInv, ProgressSound, PassedBy, Reached, Ledger
<1> QED BY <1>t, <1>1, <1>2, <1>4, <1>5 DEF IInv

\* The stage and the sidecars go together, or stay together.
LEMMA CleanupStep == IInv /\ Cleanup /\ UNCHANGED setting => IInv'
<1> SUFFICES ASSUME IInv, Cleanup, UNCHANGED setting PROVE IInv'
  OBVIOUS
<1>t. TypeOK /\ TypeOK'
  BY TypeStep DEF IInv, Next, Apply
<1>u. /\ UNCHANGED <<now, server, atom, committed, wm, failed, started, buffer,
                     toVisit, drained, prior, again, retried, ceiled, setting>>
      /\ phase = "cleanup" /\ phase' = "idle"
      /\ \/ setting.keep /\ UNCHANGED <<stage, quarantined, progress>>
         \/ ~setting.keep /\ stage' = NoRows /\ quarantined' = {} /\ progress' = NoMarks
  BY DEF Cleanup, world, slot, memory
<1>0. prior = {} /\ again = {} /\ retried = {} /\ buffer = <<>> /\ drained = NoMarks
  BY <1>u DEF IInv, Forgotten
<1>n. \A l \in Lead : Home[l] \in Ws
  BY <1>t, Numbers
<1>s. \A l \in Lead : stage'[l] \subseteq stage[l] /\ Staged(l)' = stage'[l] /\ Staged(l) = stage[l]
  BY <1>u, <1>0, TimesInNone DEF Staged, NoRows
<1>1. LagKept' /\ Forgotten' /\ Durable' /\ PullSound' /\ RetriedSound' /\ LedgerKept'
  <2>1. LagKept' /\ Forgotten'
    BY <1>u DEF IInv, LagKept, Forgotten
  <2>2. Durable' /\ PullSound' /\ RetriedSound'
    BY <1>u, <1>0 DEF Durable, PullSound, RetriedSound
  <2>3. LedgerKept'
    BY <1>u DEF IInv, LedgerKept, Ledger, Ledgered
  <2> QED BY <2>1, <2>2, <2>3
<1>2. MarksPast'
  <2>1. \A w \in Ws : progress'[w] <= now
    BY <1>u, <1>t, Numbers, SMT DEF IInv, MarksPast, NoMarks, Unset
  <2> QED BY <1>u, <1>s, <2>1 DEF IInv, MarksPast
<1>3. MarkSound'
  <2> SUFFICES ASSUME NEW l \in Lead, PassedBy(l, wm[Home[l]])
               PROVE  \/ Reached(l, committed[l])
                      \/ l \in Ledger
                      \/ /\ Reached(l, committed[l] \cup stage'[l])
                         /\ Ledgered(setting) /\ setting.keep
    BY <1>u DEF MarkSound, PassedBy, Reached, Ledger, Ledgered
  <2> QED BY <1>u DEF IInv, MarkSound
<1>4. ProgressSound'
  <2>1. CASE setting.keep
    BY <1>u, <2>1 DEF IInv, ProgressSound, PassedBy, Reached, Ledger
  <2>2. CASE ~setting.keep
    <3>1. \A l \in Lead : progress'[Home[l]] = Unset /\ drained'[Home[l]] = Unset
      BY <1>u, <1>0, <1>n, <2>2 DEF NoMarks
    <3>2. \A l \in Lead : PassedBy(l, Unset) => atom[l] = {}
      BY <1>t, Numbers, SMT DEF PassedBy, Unset
    <3> QED BY <1>u, <3>1, <3>2 DEF ProgressSound, PassedBy, Reached
  <2> QED BY <2>1, <2>2
<1> QED BY <1>t, <1>1, <1>2, <1>3, <1>4 DEF IInv

\* The lower bound of a discovery is at most the mark, or the epoch.
LEMMA SinceAtMost ==
  ASSUME IInv, NEW w \in Ws
  PROVE  /\ Since(w) \in Int /\ Since(w) >= 0 /\ Since(w) <= now
         /\ wm[w] # Unset => Since(w) <= wm[w] /\ Since(w) = Later(0, wm[w] - Overlap)
         /\ wm[w] = Unset => Since(w) = 0
<1>t. TypeOK
  BY DEF IInv
<1>1. wm[w] = Unset => \A l \in LeadsOf(w) : committed[l] = {}
  BY DEF IInv, MarksPast, LeadsOf
<1>2. /\ Since(w) \in Mark /\ Since(w) >= 0
      /\ wm[w] # Unset => Since(w) = Later(0, wm[w] - Overlap)
      /\ wm[w] = Unset => Since(w) = 0
  BY <1>t, <1>1, SinceBounds
<1>3. wm[w] <= now /\ wm[w] \in Int /\ wm[w] >= Unset /\ now \in Nat /\ Overlap \in Nat
  BY <1>t, Numbers DEF IInv, MarksPast
<1>4. Since(w) \in Int
  BY <1>2, BoundsAssumption, SMT DEF Mark, Time, Unset
<1> QED BY <1>2, <1>3, <1>4, SMT DEF Later, Unset

\* A lead the discovery leaves out is settled.
LEMMA LeftOutSettled ==
  ASSUME IInv, NEW w \in Ws, NEW l \in Lead, ~Candidate(l), Home[l] = w,
         NEW t \in server[l], t + Lag < now
  PROVE  \/ Latest(atom[l]) <= Since(w) /\ t <= Since(w)
         \/ AlreadyCommitted(l) /\ \E u \in committed[l] : t <= u
<1>t. TypeOK
  BY DEF IInv
<1>1. atom[l] \subseteq Mark /\ committed[l] \subseteq Mark
  BY <1>t DEF TypeOK, Mark
<1>2. now \in Nat /\ Lag \in Nat /\ t \in Nat
  BY <1>t, Numbers
<1>3. t \in atom[l]
  BY <1>2 DEF IInv, LagKept
<1>4. t <= Latest(atom[l]) /\ Latest(atom[l]) \in Int /\ Latest(atom[l]) >= 1
  <2>1. Latest(atom[l]) \in atom[l] /\ t <= Latest(atom[l])
    BY <1>1, <1>3, LatestMark
  <2> QED BY <1>t, <2>1, Numbers
<1>5. CASE Latest(atom[l]) <= Since(w)
  BY <1>2, <1>4, <1>5, SinceAtMost
<1>6. CASE AlreadyCommitted(l)
  <2>1. Latest(atom[l]) <= Latest(committed[l])
    BY <1>6 DEF AlreadyCommitted
  <2>2. committed[l] # {}
    BY <1>1, <1>4, <2>1, LatestMark, SMT DEF Unset
  <2>3. Latest(committed[l]) \in committed[l]
    BY <1>1, <2>2, LatestMark
  <2>4. t <= Latest(committed[l])
    BY <1>2, <1>4, <1>t, <2>1, <2>3, Numbers, SMT
  <2> QED BY <1>6, <2>3, <2>4
<1>7. Since(w) \in Int
  BY SinceAtMost
<1> QED BY <1>4, <1>5, <1>6, <1>7 DEF Candidate

\* A discovery.
LEMMA DiscoverStep ==
  ASSUME IInv, NEW w \in Ws, Discover(w), UNCHANGED setting
  PROVE  IInv'
<1>t. TypeOK /\ TypeOK'
  BY TypeStep DEF IInv, Next, Fetch
<1>u. /\ UNCHANGED <<now, server, atom, committed, failed, stage, quarantined, buffer, prior, again,
                     retried, ceiled, setting>>
      /\ phase = "fetch" /\ phase' = "pull" /\ w \in toVisit /\ toVisit' = toVisit \ {w}
      /\ ws' = w /\ since' = Since(w) /\ started' = now /\ handled' = {} /\ closed' = {}
      /\ wm' = [wm EXCEPT ![w] = Later(@, Since(w))]
      /\ drained' = [drained EXCEPT ![w] = Since(w)] /\ progress' = drained'
      /\ \A l : Staged(l)' = Staged(l)
  BY DEF Discover, SeededMarks, world, Staged
<1>n. /\ now \in Nat /\ Overlap \in Nat /\ Overlap >= 1
      /\ \A l \in Lead : Home[l] \in Ws
      /\ \A v \in Ws : wm[v] \in Int /\ wm[v] >= Unset /\ wm[v] <= now
      /\ \A v \in Ws : progress[v] \in Int /\ drained[v] \in Int /\ drained[v] <= now
      /\ \A l \in Lead : \A t \in atom[l] : t \in Nat /\ t >= 1
  BY <1>t, Numbers DEF IInv, MarksPast
<1>s. /\ Since(w) \in Int /\ Since(w) >= 0 /\ Since(w) <= now
      /\ wm[w] # Unset => Since(w) <= wm[w] /\ Since(w) = Later(0, wm[w] - Overlap)
      /\ wm[w] = Unset => Since(w) = 0
  BY SinceAtMost
<1>w. /\ \A v \in Ws \ {w} : wm'[v] = wm[v] /\ drained'[v] = drained[v] /\ progress'[v] = drained[v]
      /\ wm'[w] = Later(wm[w], Since(w)) /\ drained'[w] = Since(w) /\ progress'[w] = Since(w)
  BY <1>u, <1>t DEF TypeOK
<1>m. /\ wm[w] # Unset => wm'[w] = wm[w]
      /\ wm[w] = Unset => wm'[w] = 0
      /\ wm'[w] # Unset /\ wm'[w] <= now /\ Since(w) = Later(0, wm'[w] - Overlap)
  BY <1>n, <1>s, <1>w, SMT DEF Later, Unset
\* What the seeded mark passes by, the old one did, or nothing is known.
<1>p. ASSUME NEW l \in Lead, Home[l] = w,
             NEW m \in {wm'[w], Since(w)}, PassedBy(l, m)
      PROVE  PassedBy(l, wm[w]) \/ atom[l] = {}
  <2>1. CASE wm[w] # Unset
    BY <1>n, <1>s, <1>m, <1>p, <2>1, SMT DEF PassedBy
  <2>2. CASE wm[w] = Unset
    BY <1>n, <1>s, <1>m, <1>p, <2>2, SMT DEF PassedBy
  <2> QED BY <2>1, <2>2
<1>1. LagKept' /\ Forgotten' /\ Durable' /\ LedgerKept'
  BY <1>u DEF IInv, LagKept, Forgotten, Durable, LedgerKept, Ledger, Ledgered
<1>2. MarksPast'
  <2>1. \A v \in Ws : wm'[v] <= now' /\ progress'[v] <= now' /\ drained'[v] <= now'
    BY <1>u, <1>n, <1>s, <1>w, <1>m
  <2>2. \A v \in Ws : wm'[v] = Unset => wm[v] = Unset
    BY <1>w, <1>m
  <2>3. started' <= now'
    BY <1>u, <1>n
  <2> QED BY <1>u, <1>n, <2>1, <2>2, <2>3 DEF IInv, MarksPast
<1>3. MarkSound'
  <2> SUFFICES ASSUME NEW l \in Lead, PassedBy(l, wm'[Home[l]])
               PROVE  \/ Reached(l, committed[l])
                      \/ l \in Ledger
                      \/ /\ Reached(l, committed[l] \cup stage[l])
                         /\ Ledgered(setting) /\ setting.keep
    BY <1>u DEF MarkSound, PassedBy, Reached, Ledger, Ledgered
  <2>1. PassedBy(l, wm[Home[l]]) \/ atom[l] = {}
    BY <1>n, <1>w, <1>p
  <2> QED BY <1>u, <2>1 DEF IInv, MarkSound, Reached
<1>4. ProgressSound'
  <2> SUFFICES ASSUME NEW l \in Lead, PassedBy(l, drained'[Home[l]])
               PROVE  Reached(l, committed[l] \cup stage[l]) \/ l \in Ledger
    BY <1>u DEF ProgressSound, PassedBy, Reached, Ledger
  <2>1. CASE Home[l] = w
    <3>1. PassedBy(l, wm[w]) \/ atom[l] = {}
      BY <1>p, <1>w, <2>1
    <3> QED BY <2>1, <3>1 DEF IInv, MarkSound, Reached
  <2>2. CASE Home[l] # w
    BY <1>n, <1>w, <2>2 DEF IInv, ProgressSound
  <2> QED BY <2>1, <2>2
<1>5. RetriedSound'
  <2> SUFFICES ASSUME NEW l \in prior, Home[l] \in retried, l \notin again, NEW t \in atom[l],
                      NEW m \in {wm'[Home[l]], progress'[Home[l]], drained'[Home[l]]},
                      t <= m - Overlap
               PROVE  \E u \in Staged(l) : t <= u
    BY <1>u DEF RetriedSound
  <2>1. Home[l] \in Ws \ {w}
    BY <1>t, <1>n, <1>u DEF IInv, Forgotten, TypeOK
  <2>2. m \in {wm[Home[l]], drained[Home[l]]}
    BY <1>w, <2>1
  <2> QED BY <2>2 DEF IInv, RetriedSound
<1>6. PullSound'
  <2>f. /\ slots' \in Seq([lead : Lead, key : Mark]) /\ Range(slots') = Found(w)
        /\ \A i, j \in DOMAIN slots' : i < j => slots'[i].key <= slots'[j].key
    BY <1>t, FoundSlots DEF Discover
  <2>1. w \notin toVisit' \cup retried'
    BY <1>u DEF IInv, Forgotten
  <2>2. ASSUME NEW l \in LeadsOf(w) PROVE InSlots(l)' \/ (l \notin prior' /\ Settled(l)')
    <3>1. l \in Lead /\ Home[l] = w
      BY DEF LeadsOf
    <3>2. CASE Candidate(l) \/ l \in prior
      <4>1. \E f \in Range(slots') : f.lead = l
        <5> DEFINE f == [lead |-> l, key |-> IF Candidate(l) THEN Latest(atom[l]) ELSE Unset]
        <5>1. f \in Found(w)
          BY <3>2 DEF Found
        <5>2. f.lead = l
          OBVIOUS
        <5> QED BY <2>f, <5>1, <5>2
      <4> QED BY <4>1 DEF InSlots, Range
    <3>3. CASE ~Candidate(l) /\ l \notin prior
      <4>1. CASE \A t \in server[l] : t + Lag < now => t <= Since(w)
        BY <1>u, <3>3, <4>1 DEF Settled
      <4>2. CASE \E t \in server[l] : t + Lag < now /\ ~(t <= Since(w))
        <5>1. AlreadyCommitted(l)
          BY <3>1, <3>3, <4>2, LeftOutSettled
        <5>2. ~(Latest(atom[l]) <= Since(w))
          <6>1. PICK t \in server[l] : t + Lag < now /\ ~(t <= Since(w))
            BY <4>2
          <6>2. t \in atom[l]
            BY <1>t, <3>1, <6>1, Numbers, SMT DEF IInv, LagKept
          <6>3. atom[l] \subseteq Mark
            BY <1>t, <3>1 DEF TypeOK, Mark
          <6>4. t <= Latest(atom[l]) /\ Latest(atom[l]) \in atom[l]
            BY <6>2, <6>3, LatestMark
          <6> QED BY <1>n, <1>s, <3>1, <6>1, <6>2, <6>4
        <5>3. \A t \in server[l] : t + Lag < now => \E u \in committed[l] : t <= u
          BY <3>1, <3>3, <5>2, LeftOutSettled
        <5> QED BY <1>u, <3>3, <5>3 DEF Settled
      <4> QED BY <4>1, <4>2
    <3> QED BY <3>2, <3>3
  <2>3. ASSUME NEW i \in DOMAIN slots'
        PROVE  /\ Home[slots'[i].lead] = w /\ slots'[i].key <= now
               /\ slots'[i].key = Unset \/ slots'[i].key \in atom[slots'[i].lead]
    <3>1. slots'[i] \in Found(w)
      BY <2>f DEF Range
    <3>2. PICK l \in LeadsOf(w) : /\ slots'[i].lead = l
                                  /\ slots'[i].key = IF Candidate(l) THEN Latest(atom[l]) ELSE Unset
      BY <3>1 DEF Found
    <3>3. l \in Lead /\ Home[l] = w
      BY DEF LeadsOf
    <3>4. CASE ~Candidate(l)
      BY <1>n, <3>2, <3>3, <3>4 DEF Unset
    <3>5. CASE Candidate(l)
      <4>1. Latest(atom[l]) > Since(w) /\ atom[l] \subseteq Mark
        BY <1>t, <3>3, <3>5 DEF Candidate, TypeOK, Mark
      <4>2. atom[l] # {}
        BY <1>s, <4>1, LatestMark, SMT DEF Unset
      <4>3. Latest(atom[l]) \in atom[l]
        BY <4>1, <4>2, LatestMark
      <4>4. Latest(atom[l]) <= now
        BY <1>n, <1>t, <3>3, <4>3, Numbers, SMT DEF IInv, LagKept
      <4> QED BY <3>2, <3>3, <3>5, <4>3, <4>4
    <3> QED BY <3>4, <3>5
  <2> QED BY <1>u, <1>m, <2>f, <2>1, <2>2, <2>3 DEF PullSound, LeadsOf
<1> QED BY <1>t, <1>1, <1>2, <1>3, <1>4, <1>5, <1>6 DEF IInv

\* While w is pulled its numbers are in order.
LEMMA PullNumbers ==
  ASSUME IInv, phase = "pull"
  PROVE  /\ ws \in Ws /\ wm[ws] \in Int /\ wm[ws] >= 0 /\ wm[ws] <= started
         /\ since \in Int /\ since >= 0 /\ since <= wm[ws]
         /\ \A t \in Nat : t >= 1 /\ t <= since => t <= wm[ws] - Overlap
         /\ \A l \in LeadsOf(ws) : l \in Lead /\ Home[l] = ws
<1>1. TypeOK /\ PullSound /\ ws \in Ws
  BY DEF IInv, TypeOK
<1>2. wm[ws] # Unset /\ wm[ws] <= started /\ since = Later(0, wm[ws] - Overlap)
  BY <1>1 DEF PullSound
<1>3. wm[ws] \in Int /\ wm[ws] >= Unset /\ Overlap \in Nat /\ started \in Nat
  BY <1>1, Numbers
<1> QED BY <1>1, <1>2, <1>3, SMT DEF Later, Unset, LeadsOf

\* What a pull of w brought reaches all that a mark of it passes by.
LEMMA Delivered ==
  ASSUME IInv, phase = "pull", NEW l \in LeadsOf(ws), l \notin Ledger,
         NEW m \in Int, m <= started, PassedBy(l, m),
         NEW T, stage[l] \subseteq T,
         InSlots(l) => \A t \in server[l] : t < started => \E u \in T : t <= u
  PROVE  Reached(l, committed[l] \cup T)
<1>1. TypeOK /\ PullSound /\ l \in Lead /\ Home[l] = ws
  BY DEF IInv, LeadsOf
<1>2. /\ \A t \in atom[l] : t \in server[l] /\ t \in Nat /\ t >= 1
      /\ Overlap \in Nat /\ Lag \in Nat /\ Lag < Overlap /\ started \in Nat
  BY <1>1, Numbers DEF IInv, LagKept
<1>3. \A t \in atom[l] : t + Lag < started /\ t < started
  BY <1>2, SMT DEF PassedBy
<1>4. CASE InSlots(l)
  BY <1>2, <1>3, <1>4 DEF Reached
<1>5. CASE Settled(l)
  <2>1. CASE \A t \in server[l] : t + Lag < started => t <= since
    <3>1. \A t \in atom[l] : t <= since
      BY <1>2, <1>3, <2>1
    <3>2. PassedBy(l, wm[ws])
      BY <1>2, <3>1, PullNumbers DEF PassedBy
    <3>3. Reached(l, committed[l]) \/ Reached(l, committed[l] \cup stage[l])
      BY <1>1, <3>2 DEF IInv, MarkSound
    <3> QED BY <3>3 DEF Reached
  <2>2. CASE \A t \in server[l] : t + Lag < started => \E u \in committed[l] : t <= u
    BY <1>2, <1>3, <2>2 DEF Reached
  <2> QED BY <1>5, <2>1, <2>2 DEF Settled
<1> QED BY <1>1, <1>4, <1>5 DEF PullSound

\* What the lower bound of the pull passes by, the mark does.
LEMMA SincePasses ==
  ASSUME IInv, phase = "pull", NEW l \in LeadsOf(ws), PassedBy(l, since)
  PROVE  PassedBy(l, wm[Home[l]])
<1>1. l \in Lead /\ Home[l] = ws /\ TypeOK
  BY DEF IInv, LeadsOf
<1>2. \A t \in atom[l] : t \in Nat /\ t >= 1
  BY <1>1, Numbers
<1>3. Overlap \in Nat
  BY <1>1, Numbers
<1> QED BY <1>1, <1>2, <1>3, PullNumbers DEF PassedBy

\* A pull that is recorded.
LEMMA RecordsStep ==
  ASSUME IInv, NEW i \in DOMAIN slots, Pull(i), Records(i), UNCHANGED setting
  PROVE  IInv'
<1>t. TypeOK /\ TypeOK'
  BY TypeStep DEF IInv, Next, Fetch
<1>u. /\ UNCHANGED <<world, committed, wm, phase, toVisit, ws, since, started, slots, prior, retried>>
      /\ phase = "pull"
  BY <1>t, PullOutcome
<1>r. /\ UNCHANGED <<stage, buffer, drained, progress, ceiled, quarantined>>
      /\ handled' = handled \cup {i} /\ again' = again \cup {slots[i].lead}
      /\ \/ failed' = failed \cup {slots[i].lead}
         \/ failed' = failed /\ "append_error" \in setting.may
      /\ Ledgered(setting)
      /\ \A l : Staged(l)' = Staged(l)
  BY DEF Records, Staged
<1>w. UNCHANGED <<now, server, atom>>
  BY <1>u DEF world
<1>1. LagKept' /\ MarkSound' /\ ProgressSound'
  <2>1. Ledger \subseteq Ledger'
    BY <1>u, <1>r DEF Ledger
  <2> QED BY <1>u, <1>r, <2>1, MarksStay
<1>2. MarksPast'
  BY <1>u, <1>w, <1>r DEF IInv, MarksPast
<1>3. Forgotten' /\ Durable'
  BY <1>u, <1>r DEF IInv, Forgotten, Durable
<1>4. LedgerKept'
  BY <1>u, <1>r DEF IInv, LedgerKept, Ledger, Ledgered
<1>5. RetriedSound'
  BY <1>u, <1>w, <1>r DEF IInv, RetriedSound
<1>6. PullSound'
  <2>1. \A l : Settled(l)' <=> Settled(l)
    BY <1>u, <1>w DEF Settled
  <2>2. \A l : InSlots(l)' <=> InSlots(l)
    BY <1>u DEF InSlots
  <2>3. \A l : PulledTo(l, started)' <=> PulledTo(l, started)
    BY <1>u, <1>w, <1>r DEF PulledTo
  <2>4. \A l \in LeadsOf(ws) : InSlots(l)' \/ (l \notin prior /\ Settled(l)')
    <3>1. \A l \in LeadsOf(ws) : InSlots(l) \/ (l \notin prior /\ Settled(l))
      BY <1>u DEF IInv, PullSound
    <3> QED BY <2>1, <2>2, <3>1
  <2>5. ASSUME NEW j \in DOMAIN slots, j \in handled'
        PROVE  slots[j].lead \in again' \/ PulledTo(slots[j].lead, started)'
    <3>1. CASE j = i
      BY <1>r, <3>1
    <3>2. CASE j \in handled
      <4>1. slots[j].lead \in again \/ PulledTo(slots[j].lead, started)
        BY <1>u, <3>2 DEF IInv, PullSound
      <4>2. slots' = slots /\ started' = started
        BY <1>u
      <4> QED BY <1>r, <2>3, <4>1, <4>2
    <3> QED BY <1>r, <2>5, <3>1, <3>2
  <2> QED BY <1>u, <1>w, <2>4, <2>5 DEF IInv, PullSound, LeadsOf
<1> QED BY <1>t, <1>1, <1>2, <1>3, <1>4, <1>5, <1>6 DEF IInv

\* A pull that brings rows.
LEMMA BringsStep ==
  ASSUME IInv, NEW i \in DOMAIN slots, Pull(i),
         NEW P \in SUBSET server[slots[i].lead], Brings(i, P), UNCHANGED setting
  PROVE  IInv'
<1>t. TypeOK /\ TypeOK'
  BY TypeStep DEF IInv, Next, Fetch
<1>u. /\ UNCHANGED <<now, server, atom, committed, wm, phase, toVisit, ws, since, started, slots,
                     prior, retried>>
      /\ phase = "pull"
  BY <1>t, PullOutcome DEF world
<1>r. /\ UNCHANGED <<failed, again>>
      /\ handled' = handled \cup {i}
      /\ \A l \in Lead : stage[l] \subseteq stage'[l]
      /\ \A l \in Lead : Staged(l) \subseteq Staged(l)'
      /\ \A t \in P : t \in Staged(slots[i].lead)'
      /\ \A t \in server[slots[i].lead] : t < started => \E u \in P : t <= u
      /\ \/ UNCHANGED <<ceiled, quarantined>>
         \/ "ceiling" \in setting.may /\ ceiled' = ceiled \cup {ws} /\ quarantined' = ceiled'
  <2>1. slots[i].lead \in Lead /\ slots' = slots
    BY <1>t, <1>u, SlotLead
  <2> QED BY <2>1 DEF Brings
<1>k. slots[i].lead \in Lead
  BY <1>t, SlotLead
<1>n. /\ ws \in Ws /\ started \in Nat /\ started <= now /\ since \in Int /\ since >= 0 /\ since <= started
      /\ wm[ws] # Unset /\ Overlap \in Nat /\ Overlap >= 1 /\ now \in Nat
      /\ \A l \in Lead : Home[l] \in Ws
  BY <1>t, <1>u, Numbers, PullNumbers, SMT DEF IInv, MarksPast, Unset
<1>d. \/ UNCHANGED <<drained, progress>>
      \/ /\ drained' = [drained EXCEPT ![ws] = Later(since, DrainedThrough(closed'))]
         /\ progress' = drained'
         /\ \A l \in Lead : stage'[l] = Staged(l)'
  BY DEF Brings
\* How far the progress goes.
<1>e. /\ Later(since, DrainedThrough(closed')) \in Int /\ Later(since, DrainedThrough(closed')) <= started
      /\ \/ Later(since, DrainedThrough(closed')) = since
         \/ \E j \in DOMAIN slots : /\ 1 .. j \subseteq closed'
                                    /\ Later(since, DrainedThrough(closed')) = slots[j].key
                                    /\ slots[j].key > since
  <2>1. CASE DrainedThrough(closed') = Unset
    BY <1>n, <2>1, SMT DEF Later, Unset
  <2>2. ASSUME NEW j \in DOMAIN slots, 1 .. j \subseteq closed', DrainedThrough(closed') = slots[j].key
        PROVE  <1>e!:
    <3>1. slots[j].key <= started /\ slots[j].key \in Mark
      BY <1>t, <1>u, SlotLead DEF IInv, PullSound
    <3>2. slots[j].key \in Int
      BY <3>1, BoundsAssumption, SMT DEF Mark, Time, Unset
    <3> QED BY <1>n, <2>2, <3>1, <3>2 DEF Later
  <2> QED BY <1>t, <2>1, <2>2, PrefixKey
<1>1. LagKept' /\ Forgotten' /\ Durable' /\ LedgerKept'
  BY <1>u, <1>r DEF IInv, LagKept, Forgotten, Durable, LedgerKept, Ledger, Ledgered
<1>2. MarksPast'
  <2>1. \A v \in Ws : wm'[v] <= now' /\ progress'[v] <= now' /\ drained'[v] <= now'
    <3>1. \A v \in Ws : wm[v] <= now /\ progress[v] <= now /\ drained[v] <= now
      BY DEF IInv, MarksPast
    <3>2. Later(since, DrainedThrough(closed')) <= now
      BY <1>n, <1>e
    <3> QED BY <1>t, <1>u, <1>d, <3>1, <3>2 DEF TypeOK
  <2>2. ASSUME NEW l \in Lead, wm'[Home[l]] = Unset PROVE committed'[l] = {} /\ Staged(l)' = {}
    <3>1. wm[Home[l]] = Unset /\ Home[l] # ws
      BY <1>n, <1>u, <2>2
    <3>2. Home[slots[i].lead] = ws
      BY <1>u DEF IInv, PullSound
    <3>3. l # slots[i].lead
      BY <3>1, <3>2
    <3>4. committed[l] = {} /\ Staged(l) = {}
      BY <3>1 DEF IInv, MarksPast
    <3>5. \A t : t \in Staged(l)' <=> t \in Staged(l) \/ (l = slots[i].lead /\ t \in P)
      BY DEF Brings
    <3> QED BY <1>u, <3>3, <3>4, <3>5
  <2>3. started' <= now'
    BY <1>u, <1>n
  <2> QED BY <2>1, <2>2, <2>3 DEF MarksPast
<1>3. MarkSound'
  <2> SUFFICES ASSUME NEW l \in Lead, PassedBy(l, wm[Home[l]])
               PROVE  \/ Reached(l, committed[l])
                      \/ l \in Ledger
                      \/ /\ Reached(l, committed[l] \cup stage'[l])
                         /\ Ledgered(setting) /\ setting.keep
    BY <1>u, <1>r DEF MarkSound, PassedBy, Reached, Ledger, Ledgered
  <2> QED BY <1>u, <1>r DEF IInv, MarkSound, Reached
<1>5. RetriedSound'
  <2> SUFFICES ASSUME NEW l \in prior, Home[l] \in retried, l \notin again, NEW t \in atom[l],
                      NEW m \in {wm[Home[l]], progress'[Home[l]], drained'[Home[l]]},
                      t <= m - Overlap
               PROVE  \E u \in Staged(l)' : t <= u
    BY <1>u, <1>r DEF RetriedSound
  <2>1. l \in Lead /\ Home[l] \in Ws \ {ws}
    BY <1>t, <1>n, <1>u DEF IInv, PullSound, TypeOK
  <2>2. m \in {wm[Home[l]], progress[Home[l]], drained[Home[l]]}
    BY <1>d, <1>t, <2>1 DEF TypeOK
  <2>3. \E u \in Staged(l) : t <= u
    BY <2>2 DEF IInv, RetriedSound
  <2> QED BY <1>r, <2>1, <2>3
<1>6. PullSound'
  <2>1. \A l : Settled(l)' <=> Settled(l)
    BY <1>u DEF Settled
  <2>2. \A l : InSlots(l)' <=> InSlots(l)
    BY <1>u DEF InSlots
  <2>3. ASSUME NEW l \in Lead, PulledTo(l, started) PROVE PulledTo(l, started)'
    BY <1>u, <1>r, <2>3 DEF PulledTo
  <2>4. \A l \in LeadsOf(ws) : InSlots(l)' \/ (l \notin prior /\ Settled(l)')
    <3>1. \A l \in LeadsOf(ws) : InSlots(l) \/ (l \notin prior /\ Settled(l))
      BY <1>u DEF IInv, PullSound
    <3> QED BY <2>1, <2>2, <3>1
  <2>5. ASSUME NEW j \in DOMAIN slots, j \in handled'
        PROVE  slots[j].lead \in again \/ PulledTo(slots[j].lead, started)'
    <3>0. slots' = slots /\ started' = started /\ server' = server
      BY <1>u
    <3>1. CASE j = i
      BY <1>r, <3>0, <3>1 DEF PulledTo
    <3>2. CASE j \in handled
      <4>1. slots[j].lead \in again \/ PulledTo(slots[j].lead, started)
        BY <1>u, <3>2 DEF IInv, PullSound
      <4>2. slots[j].lead \in Lead
        BY <1>t, SlotLead
      <4> QED BY <2>3, <3>0, <4>1, <4>2
    <3> QED BY <1>r, <2>5, <3>1, <3>2
  <2> QED BY <1>u, <1>r, <2>4, <2>5 DEF IInv, PullSound, LeadsOf
<1>4. ProgressSound'
  <2>1. CASE UNCHANGED <<drained, progress>>
    <3> SUFFICES ASSUME NEW l \in Lead, PassedBy(l, progress[Home[l]]) \/ PassedBy(l, drained[Home[l]])
                 PROVE  Reached(l, committed[l] \cup stage'[l]) \/ l \in Ledger
      BY <1>u, <1>r, <2>1 DEF ProgressSound, PassedBy, Reached, Ledger
    <3> QED BY <1>r DEF IInv, ProgressSound, Reached
  <2>2. CASE /\ drained' = [drained EXCEPT ![ws] = Later(since, DrainedThrough(closed'))]
             /\ progress' = drained'
             /\ \A l \in Lead : stage'[l] = Staged(l)'
    <3> SUFFICES ASSUME NEW l \in Lead, PassedBy(l, drained'[Home[l]]), l \notin Ledger
                 PROVE  Reached(l, committed[l] \cup stage'[l])
      BY <1>u, <1>r, <2>2 DEF ProgressSound, PassedBy, Reached, Ledger
    <3>1. CASE Home[l] # ws
      <4>1. PassedBy(l, drained[Home[l]])
        BY <1>t, <1>n, <2>2, <3>1 DEF TypeOK
      <4> QED BY <1>r, <4>1 DEF IInv, ProgressSound, Reached
    <3>2. CASE Home[l] = ws
      <4>0. l \in LeadsOf(ws) /\ PassedBy(l, Later(since, DrainedThrough(closed')))
        BY <1>t, <1>n, <2>2, <3>2 DEF LeadsOf, TypeOK
      <4>1. CASE Later(since, DrainedThrough(closed')) = since
        <5>1. PassedBy(l, wm[Home[l]])
          BY <1>u, <4>0, <4>1, SincePasses
        <5> QED BY <1>r, <5>1 DEF IInv, MarkSound, Reached
      <4>2. ASSUME NEW j \in DOMAIN slots, 1 .. j \subseteq closed', slots[j].key > since,
                   Later(since, DrainedThrough(closed')) = slots[j].key
            PROVE  Reached(l, committed[l] \cup stage'[l])
        <5>1. slots[j].key \in Int /\ slots[j].key <= started /\ PassedBy(l, slots[j].key)
          BY <1>e, <4>0, <4>2
        <5>2. ASSUME InSlots(l) PROVE \A t \in server[l] : t < started => \E u \in stage'[l] : t <= u
          <6>1. PICK k \in DOMAIN slots : slots[k].lead = l
            BY <5>2 DEF InSlots
          <6>2. j \in Nat /\ k \in Nat /\ k >= 1
            BY <1>t, LenProperties DEF TypeOK
          <6>3. CASE k <= j
            <7>1. k \in handled'
              BY <1>t, <4>2, <6>2, <6>3 DEF TypeOK
            <7>2. slots[k].lead \in again \/ PulledTo(slots[k].lead, started)'
              BY <1>u, <1>r, <1>6, <7>1 DEF PullSound
            <7>3. PulledTo(l, started)'
              BY <1>u, <6>1, <7>2 DEF Ledger
            <7> QED BY <1>u, <2>2, <7>3 DEF PulledTo
          <6>4. CASE j < k
            <7>1. slots[j].key <= slots[k].key /\ (slots[k].key = Unset \/ slots[k].key \in atom[l])
              BY <1>u, <6>1, <6>4 DEF IInv, PullSound
            <7>2. slots[k].key # Unset
              BY <1>n, <4>2, <5>1, <7>1, SMT DEF Unset
            <7>3. slots[k].key <= slots[j].key - Overlap /\ slots[k].key \in Int
              BY <1>t, <5>1, <7>1, <7>2, Numbers DEF PassedBy
            <7> QED BY <1>n, <5>1, <7>1, <7>3
          <6> QED BY <6>2, <6>3, <6>4
        <5> QED BY <1>r, <1>u, <4>0, <5>1, <5>2, Delivered
      <4> QED BY <1>e, <4>1, <4>2
    <3> QED BY <3>1, <3>2
  <2> QED BY <1>d, <2>1, <2>2
<1> QED BY <1>t, <1>1, <1>2, <1>3, <1>4, <1>5, <1>6 DEF IInv

\* A workspace is done.
LEMMA FinishStep == IInv /\ FinishWs /\ UNCHANGED setting => IInv'
<1> SUFFICES ASSUME IInv, FinishWs, UNCHANGED setting PROVE IInv'
  OBVIOUS
<1>t. TypeOK /\ TypeOK'
  BY TypeStep DEF IInv, Next, Fetch
<1> DEFINE m == IF ws \in ceiled THEN Later(since, DrainedThrough(closed)) ELSE started
<1>u. /\ UNCHANGED <<now, server, atom, committed, wm, failed, quarantined, started, toVisit, prior,
                     again, ceiled, setting>>
      /\ phase = "pull" /\ phase' = "fetch" /\ handled = DOMAIN slots /\ buffer' = <<>>
      /\ retried' = retried \cup {ws}
      /\ drained' = [drained EXCEPT ![ws] = m] /\ progress' = drained'
  BY DEF FinishWs, world
<1>s. \A l \in Lead : stage'[l] = Staged(l) /\ Staged(l)' = Staged(l) /\ stage[l] \subseteq Staged(l)
  <2>1. \A l \in Lead : stage'[l] = stage[l] \cup TimesIn(buffer, l)
    BY <1>t, AppendedRows DEF FinishWs, TypeOK
  <2> QED BY <1>u, <2>1, TimesInNone DEF Staged
<1>n. /\ ws \in Ws /\ started \in Nat /\ started <= now /\ since \in Int /\ since >= 0 /\ since <= started
      /\ wm[ws] <= started /\ wm[ws] \in Int /\ Overlap \in Nat /\ Overlap >= 1 /\ now \in Nat
      /\ \A l \in Lead : Home[l] \in Ws
      /\ \A l \in Lead : \A t \in atom[l] : t \in Nat
  BY <1>t, <1>u, Numbers, PullNumbers, SMT DEF IInv, MarksPast, Unset
<1>m. m \in Int /\ m <= started
  <2>1. ASSUME NEW j \in DOMAIN slots PROVE slots[j].key \in Int /\ slots[j].key <= started
    <3>1. slots[j].key <= started /\ slots[j].key \in Mark
      BY <1>t, <1>u, SlotLead DEF IInv, PullSound
    <3> QED BY <3>1, BoundsAssumption, SMT DEF Mark, Time, Unset
  <2>2. DrainedThrough(closed) \in Int /\ DrainedThrough(closed) <= started
    <3>1. CASE DrainedThrough(closed) = Unset
      BY <1>n, <3>1, SMT DEF Unset
    <3> QED BY <1>t, <2>1, <3>1, PrefixKey
  <2> QED BY <1>n, <2>2, SMT DEF Later
<1> HIDE DEF m
<1>w. /\ \A v \in Ws \ {ws} : drained'[v] = drained[v] /\ progress'[v] = drained[v]
      /\ drained'[ws] = m /\ progress'[ws] = m
  BY <1>u, <1>n, <1>t DEF TypeOK
\* Every lead of ws that had a slot is in the ledger or was pulled.
<1>p. ASSUME NEW l \in Lead, InSlots(l), l \notin again
      PROVE  \A t \in server[l] : t < started => \E u \in Staged(l) : t <= u
  <2>1. PICK k \in DOMAIN slots : slots[k].lead = l
    BY <1>p DEF InSlots
  <2>2. PulledTo(l, started)
    BY <1>u, <1>p, <2>1 DEF IInv, PullSound
  <2> QED BY <2>2 DEF PulledTo
<1>1. LagKept' /\ Forgotten' /\ Durable' /\ PullSound' /\ LedgerKept'
  <2>1. LagKept' /\ Durable' /\ PullSound' /\ LedgerKept'
    BY <1>u DEF IInv, LagKept, Durable, PullSound, LedgerKept, Ledger, Ledgered
  <2>2. Forgotten'
    <3>1. ws \notin toVisit
      BY <1>u DEF IInv, PullSound
    <3> QED BY <1>u, <3>1 DEF IInv, Forgotten
  <2> QED BY <2>1, <2>2
<1>2. MarksPast'
  <2>1. \A v \in Ws : progress'[v] <= now /\ drained'[v] <= now
    BY <1>n, <1>m, <1>w DEF IInv, MarksPast
  <2> QED BY <1>u, <1>s, <2>1 DEF IInv, MarksPast
<1>3. MarkSound'
  <2> SUFFICES ASSUME NEW l \in Lead, PassedBy(l, wm[Home[l]])
               PROVE  \/ Reached(l, committed[l])
                      \/ l \in Ledger
                      \/ /\ Reached(l, committed[l] \cup stage'[l])
                         /\ Ledgered(setting) /\ setting.keep
    BY <1>u DEF MarkSound, PassedBy, Reached, Ledger, Ledgered
  <2> QED BY <1>u, <1>s DEF IInv, MarkSound, Reached
<1>4. ProgressSound'
  <2> SUFFICES ASSUME NEW l \in Lead, PassedBy(l, drained'[Home[l]]), l \notin Ledger
               PROVE  Reached(l, committed[l] \cup Staged(l))
    BY <1>u, <1>s DEF ProgressSound, PassedBy, Reached, Ledger
  <2>1. CASE Home[l] # ws
    <3>1. PassedBy(l, drained[Home[l]])
      BY <1>n, <1>w, <2>1
    <3> QED BY <1>s, <3>1 DEF IInv, ProgressSound, Reached
  <2>2. CASE Home[l] = ws
    <3>1. l \in LeadsOf(ws) /\ PassedBy(l, m) /\ l \notin again
      BY <1>w, <2>2 DEF LeadsOf, Ledger
    <3>2. InSlots(l) => \A t \in server[l] : t < started => \E u \in Staged(l) : t <= u
      BY <1>p, <3>1
    <3> QED BY <1>u, <1>s, <1>m, <3>1, <3>2, Delivered
  <2> QED BY <2>1, <2>2
<1>5. RetriedSound'
  <2> SUFFICES ASSUME NEW l \in prior, Home[l] \in retried \cup {ws}, l \notin again, NEW t \in atom[l],
                      NEW x \in {wm[Home[l]], progress'[Home[l]], drained'[Home[l]]},
                      t <= x - Overlap
               PROVE  \E u \in Staged(l) : t <= u
    BY <1>u, <1>s, <1>t DEF RetriedSound, TypeOK
  <2>0. l \in Lead /\ Home[l] \in Ws
    BY <1>t, <1>n DEF TypeOK
  <2>1. CASE Home[l] # ws
    <3>1. x \in {wm[Home[l]], drained[Home[l]]} /\ Home[l] \in retried
      BY <1>w, <2>0, <2>1
    <3> QED BY <3>1 DEF IInv, RetriedSound
  <2>2. CASE Home[l] = ws
    <3>1. InSlots(l)
      BY <1>u, <2>0, <2>2 DEF IInv, PullSound, LeadsOf
    <3>2. x \in Int /\ x <= started
      BY <1>n, <1>m, <1>w, <2>2
    <3>3. t \in server[l] /\ t < started
      <4>1. t \in server[l] /\ t \in Nat
        BY <1>n, <2>0 DEF IInv, LagKept
      <4> QED BY <1>n, <3>2, <4>1
    <3> QED BY <1>p, <2>0, <3>1, <3>3
  <2> QED BY <2>1, <2>2
<1> QED BY <1>t, <1>1, <1>2, <1>3, <1>4, <1>5 DEF IInv

\* Every step of a setting the drain survives keeps the invariant.
LEMMA IInvStep ==
  ASSUME IInv, [Next]_vars, Survives(setting)
  PROVE  IInv'
<1>1. CASE UNCHANGED vars
  <2>1. TypeOK'
    BY TypeStep DEF IInv
  <2>2. /\ UNCHANGED <<now, server, atom, committed, wm, failed, stage, quarantined, progress, phase, toVisit,
                       ws, since, started, slots, handled, closed, buffer, drained, prior, again,
                       retried, ceiled, setting>>
        /\ \A l : Staged(l)' = Staged(l)
    BY <1>1 DEF vars, world, files, slot, memory, Staged
  <2>3. (LagKept /\ MarksPast /\ Forgotten /\ LedgerKept /\ Durable)'
    BY <2>2 DEF IInv, LagKept, MarksPast, Forgotten, LedgerKept, Durable, Ledger, Ledgered
  <2>4. (MarkSound /\ ProgressSound /\ RetriedSound)'
    BY <2>2 DEF IInv, MarkSound, ProgressSound, RetriedSound, PassedBy, Reached, Ledger, Ledgered
  <2>5. PullSound'
    BY <2>2, Zenon DEF IInv, PullSound, LeadsOf, InSlots, Settled, PulledTo
  <2> QED BY <2>1, <2>3, <2>4, <2>5 DEF IInv
<1>2. CASE World
  BY <1>2, WorldStep
<1>3. CASE Fetch
  <2>0. TypeOK /\ UNCHANGED setting
    BY <1>3 DEF Fetch, IInv
  <2>1. ASSUME NEW i \in DOMAIN slots, Pull(i) PROVE IInv'
    <3>1. Records(i) \/ \E P \in SUBSET server[slots[i].lead] : Brings(i, P)
      BY <2>0, <2>1, PullOutcome
    <3> QED BY <2>0, <2>1, <3>1, RecordsStep, BringsStep
  <2> QED BY <1>3, <2>0, <2>1, StartFetchStep, DiscoverStep, WsFailsStep, SpillStep, FinishStep,
             CloseStageStep, RewriteStep, KillStep DEF Fetch
<1>4. CASE Apply
  <2>0. UNCHANGED setting
    BY <1>4 DEF Apply
  <2> QED BY <1>4, <2>0, CommitStep, MergeStep, ApplyFailsStep, CleanupStep DEF Apply
<1> QED BY <1>1, <1>2, <1>3, <1>4 DEF Next

\* The invariant holds in every behaviour whose faults the drain survives.
THEOREM Invariance == Spec => [](Survives(setting) => IInv)
<1> DEFINE J == Survives(setting) => IInv
<1>1. Init => J
  BY InitIInv
<1>2. J /\ [Next]_vars => J'
  <2> SUFFICES ASSUME J, [Next]_vars, Survives(setting)' PROVE IInv'
    OBVIOUS
  <2>1. setting' = setting
    BY DEF Next, World, Fetch, Apply, vars
  <2>2. Survives(setting) /\ IInv
    BY <2>1
  <2> QED BY <2>2, IInvStep
<1> QED BY <1>1, <1>2, PTL DEF Spec

\* No watermark passes a lead over, whatever fails of what the drain survives:
\* a lead whose last reply is too old to be discovered was reached by a pull,
\* or it is in a ledger.
THEOREM NobodyPassedOver == Spec => [](Survives(setting) => NoLeadPassedOver)
<1>1. ASSUME IInv, Survives(setting) PROVE NoLeadPassedOver
  <2> SUFFICES ASSUME NEW l \in Lead, atom[l] # {}, Latest(atom[l]) <= wm[Home[l]] - Overlap,
                      l \notin failed \cup again \cup prior
               PROVE  \/ Latest(committed[l]) >= Latest(atom[l])
                      \/ Latest(stage[l]) >= Latest(atom[l]) /\ Home[l] \notin quarantined
    BY DEF NoLeadPassedOver
  <2>t. TypeOK
    BY <1>1 DEF IInv
  <2>1. atom[l] \subseteq Mark /\ committed[l] \subseteq Mark /\ stage[l] \subseteq Mark
    BY <2>t DEF TypeOK, Mark
  <2>2. Latest(atom[l]) \in atom[l] /\ \A t \in atom[l] : t <= Latest(atom[l])
    BY <2>1, LatestMark
  <2>n. /\ \A t \in atom[l] : t \in Nat
        /\ \A t \in committed[l] : t \in Nat
        /\ \A t \in stage[l] : t \in Nat
        /\ Overlap \in Nat /\ wm[Home[l]] \in Int
    BY <2>t, Numbers
  <2>3. PassedBy(l, wm[Home[l]])
    BY <2>2, <2>n DEF PassedBy
  <2>4. \A u \in committed[l] : Latest(atom[l]) <= u => Latest(committed[l]) >= Latest(atom[l])
    <3> SUFFICES ASSUME NEW u \in committed[l], Latest(atom[l]) <= u
                 PROVE  Latest(committed[l]) >= Latest(atom[l])
      OBVIOUS
    <3>1. u <= Latest(committed[l]) /\ Latest(committed[l]) \in committed[l]
      BY <2>1, LatestMark
    <3> QED BY <2>2, <2>n, <3>1
  <2>5. \A u \in stage[l] : Latest(atom[l]) <= u => Latest(stage[l]) >= Latest(atom[l])
    <3> SUFFICES ASSUME NEW u \in stage[l], Latest(atom[l]) <= u
                 PROVE  Latest(stage[l]) >= Latest(atom[l])
      OBVIOUS
    <3>1. u <= Latest(stage[l]) /\ Latest(stage[l]) \in stage[l]
      BY <2>1, LatestMark
    <3> QED BY <2>2, <2>n, <3>1
  <2>6. CASE Reached(l, committed[l])
    BY <2>2, <2>4, <2>6 DEF Reached
  <2>7. CASE Reached(l, committed[l] \cup stage[l]) /\ Ledgered(setting)
    <3>1. quarantined = {}
      BY <1>1, <2>7 DEF IInv, LedgerKept, Survives
    <3>2. \E u \in committed[l] \cup stage[l] : Latest(atom[l]) <= u
      BY <2>2, <2>7 DEF Reached
    <3> QED BY <2>4, <2>5, <3>1, <3>2
  <2> QED BY <1>1, <2>3, <2>6, <2>7 DEF IInv, MarkSound, Ledger
<1>2. (Survives(setting) => IInv) => (Survives(setting) => NoLeadPassedOver)
  BY <1>1
<1> QED BY <1>2, Invariance, PTL

-----------------------------------------------------------------------------
(* No holes.                                                               *)

\* T holds, with each reply of l, the older ones.
Whole(l, T) == \A t \in T : \A u \in server[l] : u < t => u \in T

\* Rows are replies, and those on their way are whole unless their workspace
\* is quarantined, where no fetch is killed amid a pull.
WholeRows ==
  /\ \A l \in Lead : /\ \A t \in server[l] : t < now
                     /\ committed[l] \subseteq server[l] /\ Staged(l) \subseteq server[l]
  /\ "kill" \notin setting.may =>
       \A l \in Lead : /\ Whole(l, committed[l])
                       /\ Whole(l, Staged(l)) \/ Home[l] \in ceiled \cup quarantined

\* The sidecar says at every moment of a fetch what the fetch knows, and goes
\* with the stage.
SidecarKept ==
  /\ phase \notin {"fetch", "pull", "rewrite"} => ceiled = {}
  /\ phase \notin {"fetch", "pull"} => buffer = <<>>
  /\ phase = "pull" => \A i \in DOMAIN slots : Home[slots[i].lead] = ws
  /\ ceiled \cup quarantined # {} => "ceiling" \in setting.may
  /\ ~setting.keep =>
       /\ phase \in {"fetch", "pull", "rewrite"} => quarantined = ceiled
       /\ phase = "idle" => quarantined = {}

WInv == TypeOK /\ WholeRows /\ SidecarKept

\* Two whole sets make a whole one.
LEMMA WholeUnion ==
  ASSUME NEW l, NEW T, NEW U, Whole(l, T), Whole(l, U)
  PROVE  Whole(l, T \cup U)
BY DEF Whole

\* Steps that leave the rows alone.
LEMMA RowsStay ==
  ASSUME WInv, UNCHANGED <<now, server, committed, setting>>,
         \A l \in Lead : Staged(l)' = Staged(l),
         ceiled \cup quarantined = ceiled' \cup quarantined'
  PROVE  WholeRows'
BY DEF WInv, WholeRows, Whole

\* The initial state is whole.
LEMMA InitWInv == Init => WInv
<1> SUFFICES ASSUME Init PROVE WInv
  OBVIOUS
<1>1. TypeOK
  BY InitType
<1>2. \A l \in Lead : Staged(l) = {}
  BY TimesInNone DEF Init, Staged, NoRows
<1> QED BY <1>1, <1>2 DEF Init, WInv, WholeRows, SidecarKept, Whole, NoRows

\* Replies are newer than all rows.
LEMMA WholeWorld == WInv /\ World => WInv'
<1> SUFFICES ASSUME WInv, World PROVE WInv'
  OBVIOUS
<1>t. TypeOK /\ TypeOK'
  BY TypeStep DEF WInv, Next
<1>u. /\ UNCHANGED <<committed, quarantined, phase, ws, slots, buffer, ceiled, setting>>
      /\ \A l : Staged(l)' = Staged(l)
  BY DEF World, Wait, Reply, Sync, Staged, files, slot, memory
<1>s. /\ \A l \in Lead : server[l] \subseteq server'[l] /\ server'[l] \subseteq server[l] \cup {now}
      /\ (now' = now /\ server' = server) \/ now' = now + 1
  <2>1. CASE Wait
    BY <2>1 DEF Wait, Tick
  <2>2. ASSUME NEW l \in Lead, Reply(l) PROVE <1>s!:
    BY <1>t, <2>2 DEF Reply, Tick, TypeOK
  <2>3. ASSUME NEW l \in Lead, Sync(l) PROVE <1>s!:
    BY <2>3 DEF Sync
  <2> QED BY <2>1, <2>2, <2>3 DEF World
<1>n. now \in Nat /\ \A l \in Lead : \A t \in server[l] : t \in Nat /\ t < now
  BY <1>t, Numbers DEF WInv, WholeRows
<1>1. ASSUME NEW l \in Lead, NEW T \in SUBSET server[l], Whole(l, T) PROVE Whole(l, T)'
  BY <1>s, <1>n, <1>1 DEF Whole
<1>2. WholeRows'
  <2>1. \A l \in Lead : /\ \A t \in server'[l] : t < now'
                        /\ committed'[l] \subseteq server'[l] /\ Staged(l)' \subseteq server'[l]
    BY <1>u, <1>s, <1>n DEF WInv, WholeRows
  <2>2. ASSUME "kill" \notin setting.may, NEW l \in Lead
        PROVE  /\ Whole(l, committed[l])'
               /\ Whole(l, Staged(l))' \/ Home[l] \in ceiled \cup quarantined
    <3>0. committed[l] \in SUBSET server[l] /\ Staged(l) \in SUBSET server[l]
      BY DEF WInv, WholeRows
    <3>1. /\ Whole(l, committed[l])
          /\ Whole(l, Staged(l)) \/ Home[l] \in ceiled \cup quarantined
      BY <2>2 DEF WInv, WholeRows
    <3>2. Whole(l, committed[l])'
      BY <1>u, <1>1, <3>0, <3>1 DEF Whole
    <3>3. Whole(l, Staged(l)) => Whole(l, Staged(l))'
      BY <1>u, <1>1, <3>0 DEF Whole
    <3> QED BY <3>1, <3>2, <3>3
  <2> QED BY <1>u, <2>1, <2>2 DEF WholeRows
<1>3. SidecarKept'
  BY <1>u DEF WInv, SidecarKept
<1> QED BY <1>t, <1>2, <1>3 DEF WInv

\* A pull brings whole threads, or quarantines.
LEMMA WholePull ==
  ASSUME WInv, NEW i \in DOMAIN slots, Pull(i), UNCHANGED setting, CutDropped(setting)
  PROVE  WInv'
<1>t. TypeOK /\ TypeOK'
  BY TypeStep DEF WInv, Next, Fetch
<1>u. /\ UNCHANGED <<now, server, atom, committed, phase, ws, slots>> /\ phase = "pull"
      /\ Records(i) \/ \E P \in SUBSET server[slots[i].lead] : Brings(i, P)
  BY <1>t, PullOutcome DEF world
<1>k. slots[i].lead \in Lead /\ Home[slots[i].lead] = ws
  BY <1>t, <1>u, SlotLead DEF WInv, SidecarKept
<1>1. CASE Records(i)
  <2>1. UNCHANGED <<ceiled, quarantined, buffer, stage>> /\ \A l : Staged(l)' = Staged(l)
    BY <1>1 DEF Records, Staged
  <2>2. WholeRows'
    BY <1>u, <2>1, RowsStay
  <2>3. SidecarKept'
    BY <1>u, <2>1 DEF WInv, SidecarKept
  <2> QED BY <1>t, <2>2, <2>3 DEF WInv
<1>2. ASSUME NEW P \in SUBSET server[slots[i].lead], Brings(i, P) PROVE WInv'
  <2>1. /\ \A l \in Lead : \A t : t \in Staged(l)' <=> t \in Staged(l) \/ (l = slots[i].lead /\ t \in P)
        /\ \/ UNCHANGED <<ceiled, quarantined>> /\ Whole(slots[i].lead, P)
           \/ "ceiling" \in setting.may /\ ceiled' = ceiled \cup {ws} /\ quarantined' = ceiled'
    BY <1>2 DEF Brings, Whole
  <2>2. \A l \in Lead \ {slots[i].lead} : Staged(l)' = Staged(l)
    BY <2>1
  <2>3. Staged(slots[i].lead)' = Staged(slots[i].lead) \cup P
    BY <1>u, <1>k, <2>1
  <2>4. SidecarKept'
    BY <1>u, <2>1 DEF WInv, SidecarKept
  <2>5. \A l \in Lead : /\ \A t \in server'[l] : t < now'
                        /\ committed'[l] \subseteq server'[l] /\ Staged(l)' \subseteq server'[l]
    BY <1>u, <2>1, <1>2 DEF WInv, WholeRows
  <2>6. ceiled \cup quarantined \subseteq ceiled' \cup quarantined'
    <3>1. CASE UNCHANGED <<ceiled, quarantined>>
      BY <3>1
    <3>2. CASE "ceiling" \in setting.may /\ ceiled' = ceiled \cup {ws} /\ quarantined' = ceiled'
      BY <1>u, <3>2 DEF WInv, SidecarKept, CutDropped
    <3> QED BY <2>1, <3>1, <3>2
  <2>7. ASSUME "kill" \notin setting.may, NEW l \in Lead
        PROVE  /\ Whole(l, committed[l])'
               /\ Whole(l, Staged(l))' \/ Home[l] \in ceiled' \cup quarantined'
    <3>1. /\ Whole(l, committed[l])
          /\ Whole(l, Staged(l)) \/ Home[l] \in ceiled \cup quarantined
      BY <2>7 DEF WInv, WholeRows
    <3>2. Whole(l, committed[l])'
      BY <1>u, <3>1 DEF Whole
    <3>3. CASE Home[l] \in ceiled \cup quarantined
      BY <2>6, <3>2, <3>3
    <3>4. CASE Whole(l, Staged(l)) /\ l # slots[i].lead
      <4>1. Whole(l, Staged(l))'
        BY <1>u, <2>2, <3>4 DEF Whole
      <4> QED BY <3>2, <4>1
    <3>5. CASE Whole(l, Staged(l)) /\ l = slots[i].lead
      <4>1. CASE Whole(slots[i].lead, P)
        <5>1. Whole(l, Staged(l) \cup P)
          BY <3>5, <4>1, WholeUnion
        <5>2. Whole(l, Staged(l))'
          BY <1>u, <2>3, <3>5, <5>1 DEF Whole
        <5> QED BY <3>2, <5>2
      <4>2. CASE ceiled' = ceiled \cup {ws}
        BY <1>k, <3>2, <3>5, <4>2
      <4> QED BY <2>1, <4>1, <4>2
    <3> QED BY <3>1, <3>3, <3>4, <3>5
  <2> QED BY <1>t, <1>u, <2>4, <2>5, <2>7 DEF WInv, WholeRows
<1> QED BY <1>u, <1>1, <1>2

\* The other steps of a fetch move rows from the buffer to the stage, or none;
\* the sidecar of an earlier run is not needed any more when one starts.
LEMMA WholeFetch ==
  ASSUME WInv, Fetch, CutDropped(setting)
  PROVE  WInv'
<1>t. TypeOK /\ TypeOK' /\ UNCHANGED setting
  BY TypeStep DEF WInv, Next, Fetch
<1>1. CASE StartFetch
  <2>1. buffer = <<>> /\ ceiled = {} /\ quarantined = {} /\ phase = "idle"
    BY <1>1 DEF WInv, SidecarKept, StartFetch, CutDropped
  <2>2. /\ UNCHANGED <<now, server, committed, quarantined, buffer, ceiled, setting>> /\ phase' = "fetch"
        /\ \A l : Staged(l)' = Staged(l)
    BY <1>1, <1>t, <2>1 DEF StartFetch, world, files, Staged
  <2>3. WholeRows'
    BY <2>2, RowsStay
  <2>4. SidecarKept'
    BY <2>1, <2>2 DEF SidecarKept
  <2> QED BY <1>t, <2>3, <2>4 DEF WInv
<1>2. ASSUME NEW w \in Ws, Discover(w) PROVE WInv'
  <2>1. /\ UNCHANGED <<now, server, committed, quarantined, buffer, ceiled, setting>>
        /\ phase = "fetch" /\ phase' = "pull" /\ ws' = w
        /\ \A l : Staged(l)' = Staged(l)
    BY <1>2, <1>t DEF Discover, world, Staged
  <2>2. WholeRows'
    BY <2>1, RowsStay
  <2>3. ASSUME NEW j \in DOMAIN slots' PROVE Home[slots'[j].lead] = w
    <3>1. slots'[j] \in Found(w)
      BY <1>2, <1>t, FoundSlots DEF Discover, Range
    <3> QED BY <3>1 DEF Found, LeadsOf
  <2>4. SidecarKept'
    BY <2>1, <2>3 DEF WInv, SidecarKept
  <2> QED BY <1>t, <2>2, <2>4 DEF WInv
<1>3. ASSUME WsFailsLate \/ \E w \in Ws : WsFailsEarly(w) PROVE WInv'
  <2>1. /\ UNCHANGED <<now, server, committed, quarantined, buffer, ceiled, setting>>
        /\ phase \in {"fetch", "pull"} /\ phase' = "fetch"
        /\ \A l : Staged(l)' = Staged(l)
    BY <1>3, <1>t DEF WsFailsLate, WsFailsEarly, world, files, slot, memory, Staged
  <2>2. WholeRows'
    BY <2>1, RowsStay
  <2>3. SidecarKept'
    BY <2>1 DEF WInv, SidecarKept
  <2> QED BY <1>t, <2>2, <2>3 DEF WInv
<1>4. CASE Spill
  <2>1. /\ UNCHANGED <<now, server, committed, quarantined, phase, ws, slots, ceiled, setting>>
        /\ phase = "pull" /\ buffer # <<>>
    BY <1>4, <1>t DEF Spill, world, slot
  <2>2. \A l \in Lead : Staged(l)' = Staged(l)
    <3>1. /\ \A l \in Lead : stage'[l] = stage[l] \cup TimesIn(<<Head(buffer)>>, l)
          /\ buffer' = Tail(buffer)
      BY <1>4, <1>t, AppendedRows DEF Spill, TypeOK
    <3>2. \A l \in Lead : \A t : t \in TimesIn(buffer, l)
            <=> t \in TimesIn(<<Head(buffer)>>, l) \/ t \in TimesIn(Tail(buffer), l)
      BY <1>t, <2>1, TimesInSpill DEF TypeOK
    <3> QED BY <3>1, <3>2 DEF Staged
  <2>3. WholeRows'
    BY <2>1, <2>2, RowsStay
  <2>4. SidecarKept'
    BY <2>1 DEF WInv, SidecarKept
  <2> QED BY <1>t, <2>3, <2>4 DEF WInv
<1>5. CASE FinishWs \/ CloseStage
  <2>1. /\ UNCHANGED <<now, server, committed, quarantined, ceiled, setting>> /\ buffer' = <<>>
        /\ phase \in {"fetch", "pull"} /\ phase' \in {"fetch", "rewrite"}
        /\ stage' = Append2(buffer, stage)
    BY <1>5, <1>t DEF FinishWs, CloseStage, world
  <2>2. \A l \in Lead : Staged(l)' = Staged(l)
    <3>1. \A l \in Lead : stage'[l] = stage[l] \cup TimesIn(buffer, l)
      BY <1>t, <2>1, AppendedRows DEF TypeOK
    <3> QED BY <2>1, <3>1, TimesInNone DEF Staged
  <2>3. WholeRows'
    BY <2>1, <2>2, RowsStay
  <2>4. SidecarKept'
    BY <2>1 DEF WInv, SidecarKept
  <2> QED BY <1>t, <2>3, <2>4 DEF WInv
<1>6. CASE RewriteFailed
  <2>1. buffer = <<>> /\ phase = "rewrite" /\ quarantined = ceiled
    BY <1>6 DEF WInv, SidecarKept, RewriteFailed, CutDropped
  <2>2. /\ UNCHANGED <<now, server, committed, setting>> /\ buffer' = <<>> /\ phase' = "apply"
        /\ quarantined' = ceiled /\ ceiled' = {}
        /\ \A l : Staged(l)' = Staged(l)
    BY <1>6, <1>t, <2>1 DEF RewriteFailed, Forget, world, Staged
  <2>3. WholeRows'
    BY <2>1, <2>2, RowsStay
  <2>4. SidecarKept'
    BY <2>1, <2>2 DEF WInv, SidecarKept
  <2> QED BY <1>t, <2>3, <2>4 DEF WInv
<1>7. CASE Kill
  <2>1. /\ UNCHANGED <<now, server, committed, stage, quarantined, setting>>
        /\ buffer' = <<>> /\ phase' = "apply" /\ ceiled' = {}
    BY <1>7, <1>t DEF Kill, Forget, world, files
  <2>2. \A l : Staged(l)' = stage[l] /\ stage[l] \subseteq Staged(l)
    BY <2>1, TimesInNone DEF Staged
  <2>3. \/ "kill" \in setting.may
        \/ phase = "rewrite"
    BY <1>7 DEF Kill, Fault
  <2>4. SidecarKept'
    BY <2>1 DEF WInv, SidecarKept
  <2>5. WholeRows'
    <3>1. CASE "kill" \in setting.may
      BY <2>1, <2>2, <3>1 DEF WInv, WholeRows
    <3>2. CASE phase = "rewrite"
      <4>1. \A l : Staged(l)' = Staged(l)
        BY <2>1, <3>2 DEF WInv, SidecarKept, Staged
      <4>2. quarantined = ceiled
        BY <3>2 DEF WInv, SidecarKept, CutDropped
      <4> QED BY <2>1, <4>1, <4>2, RowsStay
    <3> QED BY <2>3, <3>1, <3>2
  <2> QED BY <1>t, <2>4, <2>5 DEF WInv
<1>8. ASSUME NEW i \in DOMAIN slots, Pull(i) PROVE WInv'
  BY <1>t, <1>8, WholePull
<1> QED BY <1>1, <1>2, <1>3, <1>4, <1>5, <1>6, <1>7, <1>8 DEF Fetch

\* Whole rows are committed, and nothing of a quarantined workspace.
LEMMA WholeApply ==
  ASSUME WInv, Apply, CutDropped(setting)
  PROVE  WInv'
<1>t. TypeOK /\ TypeOK' /\ UNCHANGED setting
  BY TypeStep DEF WInv, Next, Apply
<1>1. CASE Commit
  <2>1. /\ UNCHANGED <<now, server, quarantined, buffer, ceiled, setting>>
        /\ phase = "apply" /\ phase' = "merge"
        /\ \A l : Staged(l)' = Staged(l)
        /\ \A l \in Lead : committed'[l] =
             IF Home[l] \in quarantined THEN committed[l] ELSE committed[l] \cup stage[l]
    BY <1>1, <1>t DEF Commit, world, files, slot, memory, Staged, TypeOK
  <2>2. ceiled = {} /\ \A l : Staged(l) = stage[l]
    BY <2>1, TimesInNone DEF WInv, SidecarKept, Staged
  <2>3. \A l \in Lead : /\ \A t \in server'[l] : t < now'
                        /\ committed'[l] \subseteq server'[l] /\ Staged(l)' \subseteq server'[l]
    BY <2>1, <2>2 DEF WInv, WholeRows
  <2>4. ASSUME "kill" \notin setting.may, NEW l \in Lead
        PROVE  /\ Whole(l, committed[l])'
               /\ Whole(l, Staged(l))' \/ Home[l] \in ceiled' \cup quarantined'
    <3>1. /\ Whole(l, committed[l])
          /\ Whole(l, stage[l]) \/ Home[l] \in quarantined
      BY <2>2, <2>4 DEF WInv, WholeRows
    <3>2. Whole(l, committed[l] \cup stage[l]) \/ Home[l] \in quarantined
      BY <3>1, WholeUnion
    <3>3. Whole(l, committed'[l])
      BY <2>1, <3>1, <3>2
    <3>4. server' = server /\ quarantined' = quarantined /\ Staged(l)' = stage[l]
      BY <2>1, <2>2
    <3>5. Whole(l, committed[l])'
      BY <3>3, <3>4 DEF Whole
    <3>6. Whole(l, Staged(l))' \/ Home[l] \in quarantined'
      BY <3>1, <3>4 DEF Whole
    <3> QED BY <3>5, <3>6
  <2>5. SidecarKept'
    BY <2>1 DEF WInv, SidecarKept
  <2> QED BY <1>t, <2>1, <2>3, <2>4, <2>5 DEF WInv, WholeRows
<1>2. CASE Merge \/ ApplyFails
  <2>1. /\ UNCHANGED <<now, server, committed, quarantined, buffer, ceiled, setting>>
        /\ phase \in {"apply", "merge"} /\ phase' = "cleanup"
        /\ \A l : Staged(l)' = Staged(l)
    BY <1>2, <1>t DEF Merge, ApplyFails, world, files, slot, memory, Staged
  <2>2. WholeRows'
    BY <2>1, RowsStay
  <2>3. SidecarKept'
    BY <2>1 DEF WInv, SidecarKept
  <2> QED BY <1>t, <2>2, <2>3 DEF WInv
<1>3. CASE Cleanup
  <2>1. /\ UNCHANGED <<now, server, committed, buffer, ceiled, setting>>
        /\ phase = "cleanup" /\ phase' = "idle" /\ buffer = <<>>
        /\ \/ setting.keep /\ UNCHANGED <<stage, quarantined>>
           \/ ~setting.keep /\ stage' = NoRows /\ quarantined' = {}
    BY <1>3, <1>t DEF Cleanup, world, slot, memory, WInv, SidecarKept
  <2>2. SidecarKept'
    BY <2>1 DEF WInv, SidecarKept
  <2>3. CASE setting.keep
    <3>1. \A l : Staged(l)' = Staged(l)
      BY <2>1, <2>3 DEF Staged
    <3>2. WholeRows'
      BY <2>1, <2>3, <3>1, RowsStay
    <3> QED BY <1>t, <2>2, <3>2 DEF WInv
  <2>4. CASE ~setting.keep
    <3>1. \A l \in Lead : Staged(l)' = {}
      BY <2>1, <2>4, TimesInNone DEF Staged, NoRows
    <3>2. WholeRows'
      BY <2>1, <3>1 DEF WInv, WholeRows, Whole
    <3> QED BY <1>t, <2>2, <3>2 DEF WInv
  <2> QED BY <2>3, <2>4
<1> QED BY <1>1, <1>2, <1>3 DEF Apply

\* The rows stay whole in every behaviour where a kept stage cannot be cut.
THEOREM RowsAreWhole == Spec => [](CutDropped(setting) => WInv)
<1> DEFINE J == CutDropped(setting) => WInv
<1>1. Init => J
  BY InitWInv
<1>2. J /\ [Next]_vars => J'
  <2> SUFFICES ASSUME J, [Next]_vars, CutDropped(setting)' PROVE WInv'
    OBVIOUS
  <2>1. setting' = setting
    BY DEF Next, World, Fetch, Apply, vars
  <2>2. CutDropped(setting) /\ WInv
    BY <2>1
  <2>3. CASE UNCHANGED vars
    <3>1. TypeOK'
      BY <2>2, TypeStep DEF WInv
    <3>2. /\ UNCHANGED <<now, server, committed, stage, buffer, phase, ceiled, quarantined, ws, slots, setting>>
          /\ \A l : Staged(l)' = Staged(l)
      BY <2>3 DEF vars, world, files, slot, memory, Staged
    <3>3. WholeRows'
      BY <2>2, <3>2, RowsStay
    <3>4. SidecarKept'
      BY <2>2, <3>2 DEF WInv, SidecarKept
    <3> QED BY <3>1, <3>3, <3>4 DEF WInv
  <2> QED BY <2>2, <2>3, WholeWorld, WholeFetch, WholeApply DEF Next
<1> QED BY <1>1, <1>2, PTL DEF Spec

\* Of each lead the oldest replies are committed, never a newer one without
\* the older.
THEOREM NoHolesLeft == Spec => [](CutDropped(setting) => NoHoles)
<1>1. WInv => NoHoles
  BY DEF WInv, WholeRows, Whole, NoHoles
<1>2. (CutDropped(setting) => WInv) => (CutDropped(setting) => NoHoles)
  BY <1>1
<1> QED BY <1>2, RowsAreWhole, PTL

\* Every synced reply is in the warehouse between two runs, or somebody owes it.
THEOREM EveryReplyOwed ==
  Spec => [](Survives(setting) /\ CutDropped(setting) => AccountedUnlessKilled)
<1>1. ASSUME IInv, WInv, Survives(setting), "kill" \notin setting.may, phase = "idle",
             NEW l \in Lead, NEW t \in atom[l], t \notin committed[l]
      PROVE  Owed(l, t)
  <2>t. TypeOK
    BY <1>1 DEF IInv
  <2>n. /\ \A u \in atom[l] : u \in Nat /\ u >= 1
        /\ \A u \in committed[l] : u \in Nat
        /\ \A u \in stage[l] : u \in Nat
        /\ Overlap \in Nat /\ wm[Home[l]] \in Int /\ Home[l] \in Ws
    BY <2>t, Numbers
  <2>0. t \in server[l] /\ buffer = <<>> /\ again = {} /\ prior = {} /\ ceiled = {}
    BY <1>1 DEF IInv, LagKept, Forgotten
  <2>1. atom[l] \subseteq Mark /\ committed[l] \subseteq Mark
    BY <2>t DEF TypeOK, Mark
  <2>2. Latest(atom[l]) \in atom[l] /\ \A u \in atom[l] : u <= Latest(atom[l])
    BY <2>1, LatestMark
  <2>3. Whole(l, committed[l]) /\ (Whole(l, stage[l]) \/ Home[l] \in quarantined)
    <3>1. Staged(l) = stage[l]
      BY <2>0, TimesInNone DEF Staged
    <3> QED BY <1>1, <2>0, <3>1 DEF WInv, WholeRows
  <2>4. \A u \in committed[l] : ~(t <= u)
    BY <1>1, <2>0, <2>3, <2>n DEF Whole
  <2>5. ~AlreadyCommitted(l)
    <3> SUFFICES ASSUME AlreadyCommitted(l) PROVE FALSE
      OBVIOUS
    <3>1. committed[l] # {}
      BY <2>1, <2>2, <2>n, LatestMark, SMT DEF AlreadyCommitted, Unset
    <3>2. Latest(committed[l]) \in committed[l]
      BY <2>1, <3>1, LatestMark
    <3> QED BY <2>2, <2>4, <2>n, <3>2 DEF AlreadyCommitted
  <2>6. CASE Latest(atom[l]) > Since(Home[l])
    BY <2>5, <2>6 DEF Candidate, Owed
  <2>7. CASE ~(Latest(atom[l]) > Since(Home[l]))
    <3>1. /\ Since(Home[l]) \in Int
          /\ wm[Home[l]] # Unset => Since(Home[l]) = Later(0, wm[Home[l]] - Overlap)
          /\ wm[Home[l]] = Unset => Since(Home[l]) = 0
      BY <1>1, <2>n, SinceAtMost
    <3>2. PassedBy(l, wm[Home[l]])
      BY <2>2, <2>7, <2>n, <3>1, SMT DEF PassedBy, Later, Unset
    <3>3. \/ Reached(l, committed[l])
          \/ l \in failed
          \/ Reached(l, committed[l] \cup stage[l]) /\ Ledgered(setting) /\ setting.keep
      BY <1>1, <2>0, <3>2 DEF IInv, MarkSound, Ledger
    <3>4. ~Reached(l, committed[l])
      BY <2>4 DEF Reached
    <3>5. CASE Reached(l, committed[l] \cup stage[l]) /\ Ledgered(setting) /\ setting.keep
      <4>1. PICK u \in stage[l] : t <= u
        BY <2>4, <3>5 DEF Reached
      <4>2. quarantined = {}
        BY <1>1, <3>5 DEF IInv, LedgerKept, Survives
      <4>3. t \in stage[l]
        BY <2>0, <2>3, <2>n, <4>1, <4>2 DEF Whole
      <4> QED BY <3>5, <4>2, <4>3 DEF Owed
    <3> QED BY <3>3, <3>4, <3>5 DEF Owed
  <2> QED BY <2>6, <2>7
<1>2. IInv /\ WInv /\ Survives(setting) => AccountedUnlessKilled
  BY <1>1 DEF AccountedUnlessKilled, EveryReplyAccounted
<1>3. (Survives(setting) => IInv) /\ (CutDropped(setting) => WInv) =>
        (Survives(setting) /\ CutDropped(setting) => AccountedUnlessKilled)
  BY <1>2
<1> QED BY <1>3, Invariance, RowsAreWhole, PTL
=============================================================================
