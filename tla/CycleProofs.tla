----------------------------- MODULE CycleProofs -----------------------------
(***************************************************************************)
(* Proofs about Cycle, for every lattice, soul, set of servers and caps: the *)
(* taint ratchet, the length of a lineage, the end of a lineage at Reflect    *)
(* and the spacing of the Reflect grants hold in every reachable state.      *)
(***************************************************************************)
EXTENDS Cycle, LatticeLemmas, FiniteSetTheorems, SequenceTheorems

-----------------------------------------------------------------------------
(* The taint.                                                               *)

\* Whatever labels a step touches, the branch's trust after it is one of them or its
\* own, and ranks no higher than any.
LEMMA TrustOnlyFalls ==
  ASSUME NEW b, NEW touched, NEW t \in TrustsAfter(b, touched)
  PROVE  /\ t \in {b.trust} \cup touched
         /\ \A u \in {b.trust} \cup touched : Rank(t) <= Rank(u)
<1>1. t \in {b.trust} \cup touched /\ \A u \in {b.trust} \cup touched : Meet(t, u) = t
  BY DEF TrustsAfter
<1>2. ASSUME NEW u, Meet(t, u) = t PROVE Rank(t) <= Rank(u)
  BY <1>2, MeetIsLower
<1> QED
  BY <1>1, <1>2

-----------------------------------------------------------------------------
(* The inductive invariant.                                                 *)

\* The rows in dispatch and the branch handing on its batons are covered like those
\* waiting: a retry puts the first back, a baton is made of the second.
TaintInv ==
  /\ StepsWithinTaint
  /\ Busy => Covers(wake.row.trust, wake.row.read)
  /\ Emitting => emitting.from.ceiling = Reaches(emitting.from.trust)

\* A row's id is longer than its depth by one.
LineageOf(r) == Len(r.id) = 1 + r.depth /\ r.depth <= MaxLineageDepth
LineageInv ==
  /\ \A r \in queue : LineageOf(r)
  /\ Busy => LineageOf(wake.row)

\* The cursor is the last grant or later, and never ahead of the wake's clock.
CadenceInv ==
  /\ reflectLast <= clock
  /\ Busy => reflectLast <= wake.now /\ wake.now <= clock
  /\ \A t \in reflections.granted : t <= reflectLast
  /\ GrantsSpaced

\* The step handing on its batons does not descend from a Reflect step either.
ReflectInv ==
  /\ ReflectIsTerminal
  /\ Emitting => ~emitting.from.reflected

\* The inductive invariant.
IInv == TypeOK /\ TaintInv /\ LineageInv /\ CadenceInv /\ ReflectInv

-----------------------------------------------------------------------------
(* Each part of the invariant is kept by every action.                      *)

\* A session holds tiers, whatever a step adds to it.
LEMMA KeepSessionType ==
  ASSUME TypeOK, NEW b \in Branch, NEW touched \in SUBSET TierNames,
         KeepSession(b, touched)
  PROVE  sessions' \in [Key -> SUBSET TierNames]
<1>1. CASE b.prompt \in Sticky
  <2>1. sessions[SessionKey(b)] \cup b.read \cup touched \subseteq TierNames
        \/ SessionKey(b) \notin Key
    BY DEF TypeOK, Branch
  <2>2. PICK x \in {{}, sessions[SessionKey(b)],
                    sessions[SessionKey(b)] \cup b.read \cup touched} :
          sessions' = [sessions EXCEPT ![SessionKey(b)] = x]
    BY <1>1 DEF KeepSession
  <2> QED
    BY <2>1, <2>2 DEF TypeOK
<1>2. CASE b.prompt \notin Sticky
  BY <1>2 DEF KeepSession, TypeOK
<1> QED
  BY <1>1, <1>2

\* Handing on a baton keeps the types of what it writes.
LEMMA EmitType ==
  ASSUME TypeOK, NEW intent \in Intent, Emit(intent)
  PROVE  /\ emitting' \in Step /\ reflectLast' \in -1 .. MaxTime
         /\ reflections' \in [granted : SUBSET (0 .. MaxTime),
                                run : SUBSET (0 .. MaxTime)]
<1>1. wake.now \in 0 .. MaxTime /\ emitting \in Step
  BY DEF Emit, TypeOK, Wake
<1>2. emitting' \in Step
  <2>1. emitting.emitted + 1 \in 0 .. MaxFanoutWidth
    BY <1>1, CapsAssumption DEF Emit, Step
  <2> QED
    BY <1>1, <2>1 DEF Emit, Step
<1>3. /\ reflectLast' \in -1 .. MaxTime
      /\ reflections' \in [granted : SUBSET (0 .. MaxTime), run : SUBSET (0 .. MaxTime)]
  BY <1>1 DEF Emit, Grant, TypeOK
<1> QED
  BY <1>2, <1>3

\* What arrives is a stimulus, the harness's own Reflects included.
LEMMA Arrivals ==
  ASSUME (\E s \in Stimuli : Arrive(s)) \/ ReflectFires \/ ReflectNow
  PROVE  \E s \in Stimulus : Arrive(s)
<1>1. Stimuli \subseteq Stimulus /\ ReflectStimulus \in Stimulus
  BY SoulAssumption DEF ReflectStimulus, Stimulus
<1> QED
  BY <1>1 DEF ReflectFires, ReflectNow

\* Every action keeps the types.
LEMMA NextType ==
  TypeOK /\ [Next]_vars => TypeOK'
<1> SUFFICES ASSUME TypeOK, [Next]_vars PROVE TypeOK'
  OBVIOUS
<1>1. ASSUME NEW s \in Stimulus, Arrive(s) PROVE TypeOK'
  <2> DEFINE first == {i \in minted : Len(i) = 1}
             id == <<Cardinality(first) + 1>>
             r == [id |-> id, raw |-> TRUE, entry |-> s.entry,
                   trust |-> Meet(Verified(s), s.payload), thread |-> s.thread,
                   depth |-> 0, at |-> clock, read |-> {Verified(s), s.payload}]
  <2>1. Cardinality(first) \in Nat
    BY FS_Subset, FS_CardinalityType DEF TypeOK
  <2>2. id \in Seq(Nat)
    BY <2>1
  <2>4. Verified(s) \in TierNames /\ Meet(Verified(s), s.payload) \in TierNames
    BY MeetIsLower, SoulAssumption DEF Stimulus, Verified
  <2>5. r \in Row
    BY <2>2, <2>4 DEF Stimulus, Row, TypeOK
  <2>6. /\ minted' = minted \cup {id} /\ queue' = queue \cup {r}
        /\ UNCHANGED <<clock, reflectLast, wake, work, emitting, sessions, retries,
                        reflections>>
    BY <1>1 DEF Arrive
  <2>7. IsFiniteSet(minted')
    BY <2>6, FS_AddElement DEF TypeOK
  <2> QED
    BY <2>2, <2>5, <2>6, <2>7 DEF TypeOK, Busy, Emitting
<1>2. CASE Tick
  BY <1>2, CapsAssumption DEF Tick, TypeOK, Busy, Emitting
<1>3. ASSUME NEW r \in queue, Drop(r) PROVE TypeOK'
  BY <1>3 DEF Drop, TypeOK, Busy, Emitting
<1>4. ASSUME NEW r \in queue, Enter(r) PROVE TypeOK'
  <2> DEFINE b == [prompt |-> r.entry, trust |-> r.trust,
                   ceiling |-> Reaches(r.trust), read |-> r.read,
                   byBaton |-> ~r.raw, reflected |-> FALSE]
  <2>1. r \in Row
    BY DEF TypeOK
  <2>2. b \in Branch
    BY <2>1, ReachesType DEF Row, Branch
  <2>3. work' = <<b>>
    BY <1>4 DEF Enter
  <2>4. wake' \in Wake
    <3>1. clock \in 0 .. MaxTime /\ 0 \in 0 .. MaxCycleSteps
      BY CapsAssumption DEF TypeOK
    <3>2. wake' = [busy |-> TRUE, row |-> r, now |-> clock, steps |-> 0,
                   deferred |-> 0, retryable |-> TRUE]
      BY <1>4 DEF Enter, NoWake
    <3> QED
      BY <2>1, <3>1, <3>2 DEF Wake
  <2>5. work' \in Seq(Branch)
    BY <2>2, <2>3
  <2>6. /\ queue' \subseteq queue /\ reflectLast' \in -1 .. MaxTime
        /\ UNCHANGED <<clock, minted, emitting, sessions, retries, reflections>>
    BY <1>4 DEF Enter, TypeOK
  <2> QED
    BY <2>4, <2>5, <2>6 DEF TypeOK, Busy, Emitting, Wake
<1>5. ASSUME NEW called \in SUBSET Servers, RunStep(called) PROVE TypeOK'
  <2> DEFINE b == Head(work)
             touched == Touched(called)
  <2>1. work \in Seq(Branch) /\ work # <<>> /\ wake \in Wake /\ wake.steps < MaxCycleSteps
    BY <1>5 DEF RunStep, Running, TypeOK, BudgetLeft
  <2>2. b \in Branch /\ work' \in Seq(Branch)
    BY <1>5, <2>1 DEF RunStep
  <2>3. touched \subseteq TierNames
    BY SoulAssumption DEF Touched
  <2>4. PICK t \in TrustsAfter(b, touched) :
          emitting' = [on |-> TRUE, emitted |-> 0,
                       from |-> [b EXCEPT !.trust = t, !.ceiling = Reaches(t),
                                          !.read = @ \cup touched]]
    BY <1>5 DEF RunStep
  <2>5. t \in TierNames
    BY <2>2, <2>3, TrustOnlyFalls DEF Branch
  <2>6. [b EXCEPT !.trust = t, !.ceiling = Reaches(t), !.read = @ \cup touched] \in Branch
    BY <2>2, <2>3, <2>5, ReachesType DEF Branch
  <2>7. emitting' \in Step
    BY <2>4, <2>6, CapsAssumption DEF Step
  <2>8. wake' \in Wake
    <3>1. wake.steps + 1 \in 0 .. MaxCycleSteps
      BY <2>1, CapsAssumption DEF Wake
    <3>2. (wake.retryable /\ ~ToReflect(b)) \in BOOLEAN
      OBVIOUS
    <3> QED
      BY <1>5, <2>1, <3>1, <3>2 DEF RunStep, Wake
  <2>9. sessions' \in [Key -> SUBSET TierNames]
    BY <1>5, <2>2, <2>3, KeepSessionType DEF RunStep
  <2>10. reflections' \in [granted : SUBSET (0 .. MaxTime), run : SUBSET (0 .. MaxTime)]
    BY <1>5 DEF RunStep, RecordReflection, TypeOK
  <2> QED
    BY <1>5, <2>2, <2>7, <2>8, <2>9, <2>10 DEF RunStep, TypeOK, Busy, Emitting, Wake, Step
<1>6. ASSUME NEW called \in SUBSET Servers, RunlogFails(called) PROVE TypeOK'
  <2> DEFINE b == Head(work)
  <2>1. b \in Branch
    BY <1>6 DEF RunlogFails, Running, TypeOK
  <2>2. Touched(called) \subseteq TierNames
    BY SoulAssumption DEF Touched
  <2>3. sessions' \in [Key -> SUBSET TierNames]
    BY <1>6, <2>1, <2>2, KeepSessionType DEF RunlogFails
  <2>4. reflections' \in [granted : SUBSET (0 .. MaxTime), run : SUBSET (0 .. MaxTime)]
    BY <1>6 DEF RunlogFails, RecordReflection, TypeOK
  <2>5. /\ wake' = NoWake /\ work' = <<>> /\ emitting' = NoStep
        /\ UNCHANGED <<clock, queue, minted, reflectLast, retries>>
    BY <1>6 DEF RunlogFails, Abandon
  <2> QED
    BY <2>3, <2>4, <2>5 DEF TypeOK, Busy, Emitting, NoWake, NoStep
<1>7. CASE InvocationFails
  <2>1. wake.row \in Row
    BY <1>7 DEF InvocationFails, Running, TypeOK, Busy, Wake
  <2>2. queue' \subseteq Row /\ retries' \in 0 .. MaxRetries
    BY <1>7, <2>1, CapsAssumption DEF InvocationFails, TypeOK
  <2>3. /\ wake' = NoWake /\ work' = <<>> /\ emitting' = NoStep
        /\ UNCHANGED <<clock, minted, reflectLast, sessions, reflections>>
    BY <1>7 DEF InvocationFails, Abandon
  <2> QED
    BY <2>2, <2>3 DEF TypeOK, Busy, Emitting, NoWake, NoStep
<1>8. CASE WakeEnds
  BY <1>8 DEF WakeEnds, TypeOK, Abandon, NoWake, NoStep, Busy, Emitting
<1>9. CASE BatonsEnd
  BY <1>9 DEF BatonsEnd, TypeOK, NoStep, Busy, Emitting
<1>10. ASSUME NEW intent \in Intent, DeferBaton(intent) PROVE TypeOK'
  <2> DEFINE c == Continuation(intent)
  <2>1. /\ wake \in Wake /\ wake.row \in Row /\ emitting \in Step
        /\ emitting.from \in Branch
    BY <1>10 DEF DeferBaton, Emit, TypeOK, Wake, Step
  <2>2. c.id \in Seq(Nat)
    BY <2>1 DEF Continuation, Wake, Row
  <2>3. c \in Row
    BY <2>1, <2>2, CapsAssumption DEF Continuation, Intent, Wake, Row, Branch
  <2>4. queue' \subseteq Row /\ minted' \subseteq Seq(Nat) /\ IsFiniteSet(minted')
    BY <1>10, <2>2, <2>3, FS_AddElement DEF DeferBaton, TypeOK
  <2>5. wake' \in Wake
    <3>1. wake.deferred + 1 \in Nat
      BY <2>1 DEF Wake
    <3> QED
      BY <1>10, <2>1, <3>1 DEF DeferBaton, Wake
  <2>6. /\ emitting' \in Step /\ reflectLast' \in -1 .. MaxTime
        /\ reflections' \in [granted : SUBSET (0 .. MaxTime), run : SUBSET (0 .. MaxTime)]
    BY <1>10, EmitType DEF DeferBaton
  <2> QED
    BY <1>10, <2>4, <2>5, <2>6 DEF DeferBaton, TypeOK, Busy, Emitting, Wake, Step
<1>11. ASSUME NEW intent \in Intent, PushBaton(intent) PROVE TypeOK'
  <2>1. /\ wake \in Wake /\ emitting \in Step /\ emitting.from \in Branch
    BY <1>11 DEF PushBaton, Emit, TypeOK, Wake, Step
  <2>2. Child(intent) \in Branch
    BY <2>1 DEF Child, Intent, Branch
  <2>3. work' \in Seq(Branch)
    BY <1>11, <2>2 DEF PushBaton, TypeOK
  <2>4. wake' \in Wake
    <3>1. wake.deferred + 1 \in Nat
      BY <2>1 DEF Wake
    <3> QED
      BY <1>11, <2>1, <3>1 DEF PushBaton, Wake
  <2>5. /\ emitting' \in Step /\ reflectLast' \in -1 .. MaxTime
        /\ reflections' \in [granted : SUBSET (0 .. MaxTime), run : SUBSET (0 .. MaxTime)]
    BY <1>11, EmitType DEF PushBaton
  <2> QED
    BY <1>11, <2>3, <2>4, <2>5 DEF PushBaton, TypeOK, Busy, Emitting, Wake, Step
<1>12. ASSUME NEW k \in Key, Evict(k) PROVE TypeOK'
  BY <1>12 DEF Evict, TypeOK, Busy, Emitting
<1>13. CASE UNCHANGED vars
  BY <1>13 DEF vars, TypeOK, Busy, Emitting
<1> QED
  BY <1>1, <1>2, <1>3, <1>4, <1>5, <1>6, <1>7, <1>8, <1>9, <1>10, <1>11, <1>12, <1>13, Arrivals DEF Next

\* A deferred baton is one longer and one deeper than the row that deferred it.
LEMMA NextLineage ==
  TypeOK /\ LineageInv /\ [Next]_vars => LineageInv'
<1> SUFFICES ASSUME TypeOK /\ LineageInv, [Next]_vars PROVE LineageInv'
  OBVIOUS
<1>1. ASSUME NEW s \in Stimulus, Arrive(s) PROVE LineageInv'
  <2> DEFINE r == [id |-> <<Cardinality({i \in minted : Len(i) = 1}) + 1>>,
                   raw |-> TRUE, entry |-> s.entry,
                   trust |-> Meet(Verified(s), s.payload), thread |-> s.thread,
                   depth |-> 0, at |-> clock, read |-> {Verified(s), s.payload}]
  <2>1. LineageOf(r)
    BY CapsAssumption DEF LineageOf
  <2>2. queue' = queue \cup {r} /\ wake' = wake
    BY <1>1 DEF Arrive
  <2> QED
    BY <2>1, <2>2 DEF LineageInv, Busy
<1>2. CASE Tick
  BY <1>2 DEF Tick, LineageInv, Busy
<1>3. ASSUME NEW r \in queue, Drop(r) PROVE LineageInv'
  BY <1>3 DEF Drop, LineageInv, Busy
<1>4. ASSUME NEW r \in queue, Enter(r) PROVE LineageInv'
  BY <1>4 DEF Enter, LineageInv, Busy, NoWake
<1>5. ASSUME NEW called \in SUBSET Servers, RunStep(called) PROVE LineageInv'
  BY <1>5 DEF RunStep, LineageInv, Busy, Running, TypeOK, Wake
<1>6. ASSUME NEW called \in SUBSET Servers, RunlogFails(called) PROVE LineageInv'
  BY <1>6 DEF RunlogFails, LineageInv, Busy, Abandon, NoWake
<1>7. CASE InvocationFails
  BY <1>7 DEF InvocationFails, LineageInv, Busy, Abandon, NoWake, Running
<1>8. CASE WakeEnds
  BY <1>8 DEF WakeEnds, LineageInv, Busy, Abandon, NoWake
<1>9. CASE BatonsEnd
  BY <1>9 DEF BatonsEnd, LineageInv, Busy
<1>10. ASSUME NEW intent \in Intent, DeferBaton(intent) PROVE LineageInv'
  <2> DEFINE c == Continuation(intent)
  <2>1. wake \in Wake /\ LineageOf(wake.row) /\ wake.row.depth < MaxLineageDepth
    BY <1>10 DEF DeferBaton, Emit, Deferrable, TypeOK, LineageInv
  <2>2. wake.row.id \in Seq(Nat) /\ wake.deferred + 1 \in Nat /\ wake.row.depth \in Nat
    BY <2>1 DEF Wake, Row
  <2>3. Len(c.id) = Len(wake.row.id) + 1 /\ c.depth = wake.row.depth + 1
    BY <2>2 DEF Continuation
  <2>4. LineageOf(c)
    BY <2>1, <2>2, <2>3, CapsAssumption DEF LineageOf
  <2>5. queue' \subseteq queue \cup {c} /\ wake'.row = wake.row /\ Busy
    BY <1>10, <2>1 DEF DeferBaton, Emit, Wake
  <2> QED
    BY <2>1, <2>4, <2>5 DEF LineageInv
<1>11. ASSUME NEW intent \in Intent, PushBaton(intent) PROVE LineageInv'
  BY <1>11 DEF PushBaton, LineageInv, Busy, Emit, TypeOK, Wake
<1>12. ASSUME NEW k \in Key, Evict(k) PROVE LineageInv'
  BY <1>12 DEF Evict, LineageInv, Busy
<1>13. CASE UNCHANGED vars
  BY <1>13 DEF vars, LineageInv, Busy
<1> QED
  BY <1>1, <1>2, <1>3, <1>4, <1>5, <1>6, <1>7, <1>8, <1>9, <1>10, <1>11, <1>12, <1>13, Arrivals DEF Next

\* Handing on a baton keeps the cadence, be it a Reflect or not.
LEMMA GrantKeepsCadence ==
  ASSUME TypeOK, CadenceInv, Busy, NEW intent, Admitted(intent), Grant(intent),
         wake'.now = wake.now, wake'.busy = wake.busy, clock' = clock
  PROVE  CadenceInv'
<1>1. CASE StateOf[intent.to] = "Reflect"
  <2>1. /\ reflectLast' = wake.now
        /\ reflections'.granted = reflections.granted \cup {wake.now}
    BY <1>1 DEF Grant, TypeOK
  <2>2. /\ wake.now \in 0 .. MaxTime /\ clock \in 0 .. MaxTime
        /\ reflectLast \in -1 .. MaxTime
        /\ reflections.granted \subseteq 0 .. MaxTime
    BY DEF TypeOK, Wake
  <2>3. ReflectAllowed(wake.now)
    BY <1>1 DEF Admitted
  <2>4. ASSUME NEW t \in reflections.granted, t < wake.now
        PROVE  wake.now - t >= ReflectInterval
    BY <2>2, <2>3, <2>4, CapsAssumption DEF ReflectAllowed, CadenceInv
  <2>5. \A t \in reflections'.granted : t <= reflectLast'
    BY <2>1, <2>2 DEF CadenceInv, Busy
  <2>6. GrantsSpaced'
    BY <2>1, <2>2, <2>4 DEF GrantsSpaced, CadenceInv, Busy
  <2> QED
    BY <2>1, <2>2, <2>5, <2>6 DEF CadenceInv, Busy
<1>2. CASE StateOf[intent.to] # "Reflect"
  BY <1>2 DEF Grant, CadenceInv, GrantsSpaced, Busy
<1> QED
  BY <1>1, <1>2

\* A grant is made at the wake's clock, which the cursor has not passed, and only
\* when the interval since the cursor is over.
LEMMA NextCadence ==
  TypeOK /\ CadenceInv /\ [Next]_vars => CadenceInv'
<1> SUFFICES ASSUME TypeOK /\ CadenceInv, [Next]_vars PROVE CadenceInv'
  OBVIOUS
<1>1. ASSUME NEW s \in Stimulus, Arrive(s) PROVE CadenceInv'
  BY <1>1 DEF Arrive, CadenceInv, GrantsSpaced, Busy
<1>2. CASE Tick
  <2>1. clock \in 0 .. MaxTime /\ reflectLast \in -1 .. MaxTime /\ clock' = clock + 1
    BY <1>2 DEF Tick, TypeOK
  <2>2. Busy => wake.now \in 0 .. MaxTime
    BY DEF TypeOK, Wake
  <2>3. UNCHANGED <<wake, reflectLast, reflections>>
    BY <1>2 DEF Tick
  <2> QED
    BY <2>1, <2>2, <2>3, CapsAssumption DEF CadenceInv, GrantsSpaced, Busy
<1>3. ASSUME NEW r \in queue, Drop(r) PROVE CadenceInv'
  BY <1>3 DEF Drop, CadenceInv, GrantsSpaced, Busy
<1>4. ASSUME NEW r \in queue, Enter(r) PROVE CadenceInv'
  BY <1>4 DEF Enter, CadenceInv, GrantsSpaced, Busy, NoWake, TypeOK
<1>5. ASSUME NEW called \in SUBSET Servers, RunStep(called) PROVE CadenceInv'
  BY <1>5 DEF RunStep, CadenceInv, GrantsSpaced, Busy, Running, TypeOK, Wake, RecordReflection
<1>6. ASSUME NEW called \in SUBSET Servers, RunlogFails(called) PROVE CadenceInv'
  BY <1>6 DEF RunlogFails, CadenceInv, GrantsSpaced, Busy, Abandon, NoWake, TypeOK, RecordReflection
<1>7. CASE InvocationFails
  BY <1>7 DEF InvocationFails, CadenceInv, GrantsSpaced, Busy, Abandon, NoWake
<1>8. CASE WakeEnds
  BY <1>8 DEF WakeEnds, CadenceInv, GrantsSpaced, Busy, Abandon, NoWake
<1>9. CASE BatonsEnd
  BY <1>9 DEF BatonsEnd, CadenceInv, GrantsSpaced, Busy
<1>10. ASSUME NEW intent \in Intent, DeferBaton(intent) PROVE CadenceInv'
  <2>1. wake'.now = wake.now /\ wake'.busy = wake.busy /\ clock' = clock
    BY <1>10 DEF DeferBaton, Emit, TypeOK, Wake, Busy
  <2> QED
    BY <1>10, <2>1, GrantKeepsCadence DEF DeferBaton, Emit
<1>11. ASSUME NEW intent \in Intent, PushBaton(intent) PROVE CadenceInv'
  <2>1. wake'.now = wake.now /\ wake'.busy = wake.busy /\ clock' = clock
    BY <1>11 DEF PushBaton, Emit, TypeOK, Wake, Busy
  <2> QED
    BY <1>11, <2>1, GrantKeepsCadence DEF PushBaton, Emit
<1>12. ASSUME NEW k \in Key, Evict(k) PROVE CadenceInv'
  BY <1>12 DEF Evict, CadenceInv, GrantsSpaced, Busy
<1>13. CASE UNCHANGED vars
  BY <1>13 DEF vars, CadenceInv, GrantsSpaced, Busy
<1> QED
  BY <1>1, <1>2, <1>3, <1>4, <1>5, <1>6, <1>7, <1>8, <1>9, <1>10, <1>11, <1>12, <1>13, Arrivals DEF Next

\* A label that covers what was read covers it and what the step touched once it is
\* met with the step's labels.
LEMMA TaintFollows ==
  ASSUME NEW b, NEW touched, NEW t \in TrustsAfter(b, touched), Covers(b.trust, b.read)
  PROVE  Covers(t, b.read \cup touched)
<1>1. /\ Rank(t) <= Rank(b.trust)
      /\ \A u \in touched : Rank(t) <= Rank(u)
  BY TrustOnlyFalls
<1>2. ASSUME NEW u \in b.read PROVE Rank(t) <= Rank(u)
  BY <1>1, RankType DEF Covers
<1> QED
  BY <1>1, <1>2 DEF Covers

\* The meet is taken where a stimulus enters and after every step, and what it lowers
\* is what the gates look at.
LEMMA NextTaint ==
  TypeOK /\ TaintInv /\ [Next]_vars => TaintInv'
<1> SUFFICES ASSUME TypeOK /\ TaintInv, [Next]_vars PROVE TaintInv'
  OBVIOUS
<1>1. ASSUME NEW s \in Stimulus, Arrive(s) PROVE TaintInv'
  <2> DEFINE r == [id |-> <<Cardinality({i \in minted : Len(i) = 1}) + 1>>,
                   raw |-> TRUE, entry |-> s.entry,
                   trust |-> Meet(Verified(s), s.payload), thread |-> s.thread,
                   depth |-> 0, at |-> clock, read |-> {Verified(s), s.payload}]
  <2>1. Covers(r.trust, r.read)
    BY MeetIsLower DEF Covers
  <2>2. queue' = queue \cup {r} /\ UNCHANGED <<wake, work, emitting>>
    BY <1>1 DEF Arrive
  <2> QED
    BY <2>1, <2>2 DEF TaintInv, StepsWithinTaint, Busy, Emitting
<1>2. CASE Tick
  BY <1>2 DEF Tick, TaintInv, StepsWithinTaint, Busy, Emitting
<1>3. ASSUME NEW r \in queue, Drop(r) PROVE TaintInv'
  BY <1>3 DEF Drop, TaintInv, StepsWithinTaint, Busy, Emitting
<1>4. ASSUME NEW r \in queue, Enter(r) PROVE TaintInv'
  <2> DEFINE b == [prompt |-> r.entry, trust |-> r.trust,
                   ceiling |-> Reaches(r.trust), read |-> r.read,
                   byBaton |-> ~r.raw, reflected |-> FALSE]
  <2>1. Covers(r.trust, r.read)
    BY DEF TaintInv, StepsWithinTaint
  <2>2. TaintBounds(b)
    BY <1>4, <2>1 DEF TaintBounds, Enter, AboveCeiling
  <2>3. /\ work' = <<b>> /\ wake'.row = r /\ queue' = queue \ {r}
        /\ UNCHANGED emitting
    BY <1>4 DEF Enter, NoWake
  <2> HIDE DEF b
  <2>4. \A n \in DOMAIN work' : TaintBounds(work'[n])
    BY <2>2, <2>3
  <2> QED
    BY <2>1, <2>3, <2>4 DEF TaintInv, StepsWithinTaint, Busy, Emitting
<1>5. ASSUME NEW called \in SUBSET Servers, RunStep(called) PROVE TaintInv'
  <2> DEFINE b == Head(work)
             touched == Touched(called)
  <2>1. b = work[1] /\ 1 \in DOMAIN work /\ b \in Branch
    BY <1>5 DEF RunStep, Running, TypeOK
  <2>2. Covers(b.trust, b.read)
    BY <2>1 DEF TaintInv, StepsWithinTaint, TaintBounds
  <2>3. PICK t \in TrustsAfter(b, touched) :
          emitting' = [on |-> TRUE, emitted |-> 0,
                       from |-> [b EXCEPT !.trust = t, !.ceiling = Reaches(t),
                                          !.read = @ \cup touched]]
    BY <1>5 DEF RunStep
  <2>4. /\ emitting'.from.trust = t /\ emitting'.from.ceiling = Reaches(t)
        /\ emitting'.from.read = b.read \cup touched
    BY <2>1, <2>3 DEF Branch
  <2>5. Covers(t, b.read \cup touched)
    BY <2>2, TaintFollows
  <2>6. \A n \in DOMAIN work' : TaintBounds(work'[n])
    <3>1. work' = Tail(work) /\ work # <<>> /\ work \in Seq(Branch)
      BY <1>5 DEF RunStep, Running, TypeOK
    <3>2. \A n \in DOMAIN work' : n + 1 \in DOMAIN work /\ work'[n] = work[n + 1]
      BY <3>1
    <3> QED
      BY <3>2 DEF TaintInv, StepsWithinTaint
  <2>7. queue' = queue /\ wake'.row = wake.row /\ Busy
    BY <1>5 DEF RunStep, Running, TypeOK, Wake
  <2> QED
    BY <2>4, <2>5, <2>6, <2>7 DEF TaintInv, StepsWithinTaint, Busy, Emitting
<1>6. ASSUME NEW called \in SUBSET Servers, RunlogFails(called) PROVE TaintInv'
  BY <1>6 DEF RunlogFails, TaintInv, StepsWithinTaint, Busy, Emitting, Abandon, NoWake, NoStep
<1>7. CASE InvocationFails
  BY <1>7 DEF InvocationFails, TaintInv, StepsWithinTaint, Busy, Emitting, Abandon, NoWake, NoStep, Running
<1>8. CASE WakeEnds
  BY <1>8 DEF WakeEnds, TaintInv, StepsWithinTaint, Busy, Emitting, Abandon, NoWake, NoStep
<1>9. CASE BatonsEnd
  BY <1>9 DEF BatonsEnd, TaintInv, StepsWithinTaint, Busy, Emitting, NoStep
<1>10. ASSUME NEW intent \in Intent, DeferBaton(intent) PROVE TaintInv'
  <2> DEFINE c == Continuation(intent)
  <2>1. c.trust = emitting.from.trust /\ c.read = emitting.from.read
    BY DEF Continuation
  <2>2. Covers(c.trust, c.read) /\ Emitting
    BY <1>10, <2>1 DEF DeferBaton, Emit, TaintInv, StepsWithinTaint
  <2>3. /\ queue' \subseteq queue \cup {c} /\ work' = work /\ Busy
        /\ wake'.row = wake.row
    BY <1>10 DEF DeferBaton, Emit, TypeOK, Wake
  <2>4. emitting'.from = emitting.from
    BY <1>10 DEF DeferBaton, Emit, TypeOK, Step
  <2> QED
    BY <2>2, <2>3, <2>4 DEF TaintInv, StepsWithinTaint, Busy, Emitting
<1>11. ASSUME NEW intent \in Intent, PushBaton(intent) PROVE TaintInv'
  <2> DEFINE b == Child(intent)
  <2>1. Emitting /\ emitting.from \in Branch
    BY <1>11 DEF PushBaton, Emit, TypeOK, Step
  <2>2. /\ b.trust = emitting.from.trust /\ b.read = emitting.from.read
        /\ b.ceiling = emitting.from.ceiling /\ b.prompt = intent.to
    BY <2>1 DEF Child, Branch
  <2>3. TaintBounds(b)
    BY <1>11, <2>1, <2>2 DEF PushBaton, Emit, Admitted, TaintInv, StepsWithinTaint, TaintBounds
  <2>4. \A n \in DOMAIN work' : work'[n] = b \/ (n \in DOMAIN work /\ work'[n] = work[n])
    BY <1>11 DEF PushBaton, TypeOK
  <2>5. queue' = queue /\ wake'.row = wake.row /\ Busy
    BY <1>11 DEF PushBaton, Emit, TypeOK, Wake
  <2>6. emitting'.from = emitting.from
    BY <1>11 DEF PushBaton, Emit, TypeOK, Step
  <2> QED
    BY <2>1, <2>3, <2>4, <2>5, <2>6 DEF TaintInv, StepsWithinTaint, Busy, Emitting
<1>12. ASSUME NEW k \in Key, Evict(k) PROVE TaintInv'
  BY <1>12 DEF Evict, TaintInv, StepsWithinTaint, Busy, Emitting
<1>13. CASE UNCHANGED vars
  BY <1>13 DEF vars, TaintInv, StepsWithinTaint, Busy, Emitting
<1> QED
  BY <1>1, <1>2, <1>3, <1>4, <1>5, <1>6, <1>7, <1>8, <1>9, <1>10, <1>11, <1>12, <1>13, Arrivals DEF Next

\* Reflect hands on to nothing, so a child of an admitted baton is no descendant of one.
LEMMA NextReflect ==
  TypeOK /\ ReflectInv /\ [Next]_vars => ReflectInv'
<1> SUFFICES ASSUME TypeOK /\ ReflectInv, [Next]_vars PROVE ReflectInv'
  OBVIOUS
<1>1. ASSUME NEW s \in Stimulus, Arrive(s) PROVE ReflectInv'
  BY <1>1 DEF Arrive, ReflectInv, ReflectIsTerminal, Emitting
<1>2. CASE Tick
  BY <1>2 DEF Tick, ReflectInv, ReflectIsTerminal, Emitting
<1>3. ASSUME NEW r \in queue, Drop(r) PROVE ReflectInv'
  BY <1>3 DEF Drop, ReflectInv, ReflectIsTerminal, Emitting
<1>4. ASSUME NEW r \in queue, Enter(r) PROVE ReflectInv'
  <2>1. \A n \in DOMAIN work' : ~work'[n].reflected
    BY <1>4 DEF Enter
  <2> QED
    BY <1>4, <2>1 DEF Enter, ReflectInv, ReflectIsTerminal, Emitting
<1>5. ASSUME NEW called \in SUBSET Servers, RunStep(called) PROVE ReflectInv'
  <2> DEFINE b == Head(work)
  <2>1. /\ work # <<>> /\ work \in Seq(Branch) /\ work' = Tail(work)
        /\ b = work[1] /\ 1 \in DOMAIN work /\ b \in Branch
    BY <1>5 DEF RunStep, Running, TypeOK
  <2>2. \A n \in DOMAIN work' : n + 1 \in DOMAIN work /\ work'[n] = work[n + 1]
    BY <2>1
  <2>3. emitting'.from.reflected = b.reflected
    <3>1. PICK t \in TrustsAfter(b, Touched(called)) :
            emitting' = [on |-> TRUE, emitted |-> 0,
                         from |-> [b EXCEPT !.trust = t, !.ceiling = Reaches(t),
                                            !.read = @ \cup Touched(called)]]
      BY <1>5 DEF RunStep
    <3> QED
      BY <2>1, <3>1 DEF Branch
  <2> QED
    BY <2>1, <2>2, <2>3 DEF ReflectInv, ReflectIsTerminal
<1>6. ASSUME NEW called \in SUBSET Servers, RunlogFails(called) PROVE ReflectInv'
  BY <1>6 DEF RunlogFails, ReflectInv, ReflectIsTerminal, Emitting, Abandon, NoStep
<1>7. CASE InvocationFails
  BY <1>7 DEF InvocationFails, ReflectInv, ReflectIsTerminal, Emitting, Abandon, NoStep
<1>8. CASE WakeEnds
  BY <1>8 DEF WakeEnds, ReflectInv, ReflectIsTerminal, Emitting, Abandon, NoStep
<1>9. CASE BatonsEnd
  BY <1>9 DEF BatonsEnd, ReflectInv, ReflectIsTerminal, Emitting, NoStep
<1>10. ASSUME NEW intent \in Intent, DeferBaton(intent) PROVE ReflectInv'
  <2>1. work' = work /\ emitting'.from = emitting.from /\ Emitting
    BY <1>10 DEF DeferBaton, Emit, TypeOK, Step
  <2> QED
    BY <2>1 DEF ReflectInv, ReflectIsTerminal
<1>11. ASSUME NEW intent \in Intent, PushBaton(intent) PROVE ReflectInv'
  <2> DEFINE b == Child(intent)
  <2>1. Emitting /\ emitting.from \in Branch
    BY <1>11 DEF PushBaton, Emit, TypeOK, Step
  <2>2. StateOf[emitting.from.prompt] # "Reflect"
    BY <1>11 DEF PushBaton, Emit, Admitted, AllowedTransition
  <2>3. ~b.reflected
    BY <2>1, <2>2 DEF Child, Branch, ReflectInv
  <2>4. \A n \in DOMAIN work' : work'[n] = b \/ (n \in DOMAIN work /\ work'[n] = work[n])
    BY <1>11 DEF PushBaton, TypeOK
  <2>5. emitting'.from = emitting.from
    BY <1>11 DEF PushBaton, Emit, TypeOK, Step
  <2> QED
    BY <2>1, <2>3, <2>4, <2>5 DEF ReflectInv, ReflectIsTerminal
<1>12. ASSUME NEW k \in Key, Evict(k) PROVE ReflectInv'
  BY <1>12 DEF Evict, ReflectInv, ReflectIsTerminal, Emitting
<1>13. CASE UNCHANGED vars
  BY <1>13 DEF vars, ReflectInv, ReflectIsTerminal, Emitting
<1> QED
  BY <1>1, <1>2, <1>3, <1>4, <1>5, <1>6, <1>7, <1>8, <1>9, <1>10, <1>11, <1>12, <1>13, Arrivals DEF Next

-----------------------------------------------------------------------------
(* The theorems.                                                            *)

\* An empty queue and no wake satisfy the invariant.
LEMMA InitIInv == Init => IInv
<1> SUFFICES ASSUME Init PROVE IInv
  OBVIOUS
<1>1. TypeOK
  BY CapsAssumption, FS_EmptySet DEF Init, TypeOK, NoWake, NoStep, Busy, Emitting
<1>2. TaintInv
  BY DEF Init, TaintInv, StepsWithinTaint, NoWake, NoStep, Busy, Emitting
<1>3. LineageInv
  BY DEF Init, LineageInv, NoWake, Busy
<1>4. CadenceInv
  BY DEF Init, CadenceInv, GrantsSpaced, NoWake, Busy
<1>5. ReflectInv
  BY DEF Init, ReflectInv, ReflectIsTerminal, NoStep, Emitting
<1> QED
  BY <1>1, <1>2, <1>3, <1>4, <1>5 DEF IInv

\* The invariant holds in every reachable state.
LEMMA IInvHolds == Spec => []IInv
<1>1. IInv /\ [Next]_vars => IInv'
  BY NextType, NextTaint, NextLineage, NextCadence, NextReflect DEF IInv
<1> QED
  BY <1>1, InitIInv, PTL DEF Spec

\* The queue, the wake, its worklist and the sessions stay well formed, and the step
\* budget and the width cap are never passed.
THEOREM TypeCorrect == Spec => []TypeOK
<1>1. IInv => TypeOK
  BY DEF IInv
<1> QED
  BY <1>1, IInvHolds, PTL

\* Taint by actual access: in any lattice, however the batons branch, wait in the
\* queue or are retried, nothing runs above what was read on the way to it.
THEOREM TaintNeverRises == Spec => []StepsWithinTaint
<1>1. IInv => StepsWithinTaint
  BY DEF IInv, TaintInv
<1> QED
  BY <1>1, IInvHolds, PTL

\* The depth carried by a deferred baton bounds the number of its deferrals.
THEOREM LineagesAreBounded == Spec => []LineageBounded
<1>1. IInv => LineageBounded
  <2> SUFFICES ASSUME IInv, NEW r \in queue PROVE Len(r.id) <= 1 + MaxLineageDepth
    BY DEF LineageBounded
  <2>1. LineageOf(r) /\ r.depth \in Nat
    BY DEF IInv, LineageInv, TypeOK, Row
  <2> QED
    BY <2>1, CapsAssumption DEF LineageOf
<1> QED
  BY <1>1, IInvHolds, PTL

\* Two grants to a baton are an interval apart, entries that set the cursor and
\* retries included.
THEOREM ReflectGrantsAreSpaced == Spec => []GrantsSpaced
<1>1. IInv => GrantsSpaced
  BY DEF IInv, CadenceInv
<1> QED
  BY <1>1, IInvHolds, PTL

\* Self-modification starts no chain: in any soul, whatever batons a Reflect step
\* emits, nothing runs that descends from it.
THEOREM ReflectEndsItsLineage == Spec => []ReflectIsTerminal
<1>1. IInv => ReflectIsTerminal
  BY DEF IInv, ReflectInv
<1> QED
  BY <1>1, IInvHolds, PTL
=============================================================================
