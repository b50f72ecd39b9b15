-------------------------------- MODULE Cycle --------------------------------
(***************************************************************************)
(* One wake after another: Harness::dispatch walks the state-prompts a       *)
(* stimulus leads to, breadth first, ratcheting each branch's trust down by  *)
(* what its steps touch, deferring low-priority batons to the queue and      *)
(* rationing Reflect by the `reflect:last` cursor; run_step resumes and      *)
(* stores sticky sessions.                                                   *)
(*                                                                          *)
(* The model's answers (what a step touches, which batons it emits) and the  *)
(* order of the queue are arbitrary; every prompt id resolves and the        *)
(* `reflect:last` cursor can be read and written. The row statuses, the      *)
(* retry policy and crashes are in ConsciousnessLoop.                        *)
(***************************************************************************)
EXTENDS TrustLattice, FiniteSets

CONSTANTS
  Prompts,         \* state-prompt ids of the soul
  StateOf,         \* the state each prompt runs in
  Transitions,     \* the prompts each prompt may hand on to
  Sticky,          \* the prompts with `session.sticky`
  Threads,         \* conversations: the dimension of a session key
  Stimuli,         \* what the duties and the operator may bring
  ReflectEntry,    \* REFLECT_ENTRY: the prompt the harness enters its own Reflects with
  ReflectThread,   \* their dedup_key
  Scheduled,       \* whether reflect_schedule is set
  Servers,         \* MCP servers
  TrustOf,         \* the label each carries; `public` when unregistered
  BatonTtl,        \* baton_ttl_secs
  ReflectInterval, \* reflect_min_interval_secs; 0 disables it
  MaxCycleSteps,   \* MAX_CYCLE_STEPS
  MaxFanoutWidth,  \* MAX_FANOUT_WIDTH
  MaxLineageDepth, \* MAX_LINEAGE_DEPTH
  MaxArrivals,     \* bound: stimuli that arrive
  MaxRetries,      \* bound: wakes re-scheduled after a timeout
  MaxTime          \* bound: the last second

\* `signed`: its provenance holds an operator's signature of the directive that
\* verifies against the configured operator DID.
Stimulus == [entry : Prompts, directive : TierNames, signed : BOOLEAN,
             payload : TierNames, thread : Threads]

\* reflect_stimulus: what the schedule and `dack reflect-now` enqueue.
ReflectStimulus == [entry |-> ReflectEntry, directive |-> "self", signed |-> FALSE,
                    payload |-> "self", thread |-> ReflectThread]

ASSUME SoulAssumption ==
  /\ StateOf \in [Prompts -> States]
  /\ Transitions \in [Prompts -> SUBSET Prompts]
  /\ Sticky \subseteq Prompts
  /\ Stimuli \subseteq Stimulus
  /\ ReflectEntry \in Prompts /\ ReflectThread \in Threads /\ Scheduled \in BOOLEAN
  /\ {"public", "self"} \subseteq TierNames
  /\ TrustOf \in [Servers -> TierNames]

ASSUME CapsAssumption ==
  /\ BatonTtl \in Nat /\ ReflectInterval \in Nat
  /\ MaxCycleSteps \in Nat /\ MaxFanoutWidth \in Nat /\ MaxLineageDepth \in Nat
  /\ MaxArrivals \in Nat /\ MaxRetries \in Nat /\ MaxTime \in Nat

VARIABLES
  clock,
  queue,       \* rows waiting: raw stimuli and deferred batons
  minted,      \* the ids ever stored
  reflectLast, \* the reflect:last cursor; -1 until it is set
  wake,        \* the row being dispatched, and dispatch's locals
  work,        \* the worklist of branches
  emitting,    \* the branch whose batons are being handed on, and how many were
  sessions,    \* sticky sessions, by key: history, what each has read; {} if none
  retries,     \* wakes re-scheduled so far
  reflections  \* history: when a Reflect reached by a baton was granted, and run

vars == <<clock, queue, minted, reflectLast, wake, work, emitting, sessions,
          retries, reflections>>

\* A row of the queue. A raw stimulus has depth 0 and id <<n>>; a deferred baton
\* carries its branch's trust, and the id of its origin extended by a number.
\* `read` is history: the tiers of everything on the path to it.
Row == [id : Seq(Nat), raw : BOOLEAN, entry : Prompts, trust : TierNames,
        thread : Threads, depth : Nat, at : Nat, read : SUBSET TierNames]

\* `ceiling` is computed with `trust`; `byBaton` and `reflected` are history:
\* whether a baton leads here, and whether a Reflect step does.
Branch == [prompt : Prompts, trust : TierNames, ceiling : States,
           read : SUBSET TierNames, byBaton : BOOLEAN, reflected : BOOLEAN]

Intent == [to : Prompts, low : BOOLEAN]
Key == [prompt : Prompts, trust : TierNames, thread : Threads]

Wake == [busy : {TRUE}, row : Row, now : 0 .. MaxTime, steps : 0 .. MaxCycleSteps,
         deferred : Nat, retryable : BOOLEAN]
Step == [on : {TRUE}, from : Branch, emitted : 0 .. MaxFanoutWidth]
NoWake == [busy |-> FALSE, row |-> {}, now |-> 0, steps |-> 0, deferred |-> 0,
           retryable |-> TRUE]
NoStep == [on |-> FALSE, from |-> {}, emitted |-> 0]

Busy == wake.busy
Emitting == emitting.on

\* Every variable keeps its type, the step and width caps included.
TypeOK ==
  /\ clock \in 0 .. MaxTime
  /\ queue \subseteq Row
  /\ minted \subseteq Seq(Nat) /\ IsFiniteSet(minted)
  /\ reflectLast \in -1 .. MaxTime
  /\ IF Busy THEN wake \in Wake ELSE wake = NoWake
  /\ work \in Seq(Branch)
  /\ IF Emitting THEN emitting \in Step ELSE emitting = NoStep
  /\ sessions \in [Key -> SUBSET TierNames]
  /\ retries \in 0 .. MaxRetries
  /\ reflections \in [granted : SUBSET (0 .. MaxTime), run : SUBSET (0 .. MaxTime)]

Init ==
  /\ clock = 0
  /\ queue = {} /\ minted = {}
  /\ reflectLast = -1
  /\ wake = NoWake /\ work = <<>> /\ emitting = NoStep
  /\ sessions = [k \in Key |-> {}]
  /\ retries = 0
  /\ reflections = [granted |-> {}, run |-> {}]

-----------------------------------------------------------------------------
\* verified_directive_tier: only operator_signed needs proof. A signature verifies, or
\* fails to, alike each time the row is dispatched.
Verified(s) ==
  IF s.directive = "operator_signed" /\ ~s.signed THEN "public" ELSE s.directive

\* A stimulus is stored; its trust is what dispatch will make of its labels: the
\* directive's verified tier met with the payload's.
Arrive(s) ==
  /\ Cardinality({i \in minted : Len(i) = 1}) < MaxArrivals
  /\ LET id == <<Cardinality({i \in minted : Len(i) = 1}) + 1>>
     IN /\ minted' = minted \cup {id}
        /\ queue' = queue \cup
             {[id |-> id, raw |-> TRUE, entry |-> s.entry,
               trust |-> Meet(Verified(s), s.payload), thread |-> s.thread,
               depth |-> 0, at |-> clock, read |-> {Verified(s), s.payload}]}
  /\ UNCHANGED <<clock, reflectLast, wake, work, emitting, sessions, retries,
                 reflections>>

\* Mutant: the cadence is not looked at.
ReflectAlwaysAllowed(now) == TRUE

\* reflect_rate_limit_ok.
ReflectAllowed(now) ==
  \/ ReflectInterval = 0
  \/ reflectLast = -1
  \/ now - reflectLast >= ReflectInterval

\* The schedule fires: it keeps to the cadence, and the row waits in the queue.
ReflectFires == Scheduled /\ ReflectAllowed(clock) /\ Arrive(ReflectStimulus)

\* `dack reflect-now` does not.
ReflectNow == Arrive(ReflectStimulus)

Tick ==
  /\ clock < MaxTime
  /\ clock' = clock + 1
  /\ UNCHANGED <<queue, minted, reflectLast, wake, work, emitting, sessions,
                 retries, reflections>>

-----------------------------------------------------------------------------
(* dispatch: the entry.                                                     *)

\* The row is dropped: a stale baton, an entry above the ceiling.
Stale(r) == ~r.raw /\ clock - r.at > BatonTtl
AboveCeiling(r) == ~WithinCeiling(StateOf[r.entry], Reaches(r.trust))

Drop(r) ==
  /\ ~Busy /\ r \in queue
  /\ Stale(r) \/ AboveCeiling(r)
  /\ queue' = queue \ {r}
  /\ UNCHANGED <<clock, minted, reflectLast, wake, work, emitting, sessions,
                 retries, reflections>>

\* The entry opens the worklist. An entry that is a Reflect sets the cursor
\* whatever it says.
Enter(r) ==
  /\ ~Busy /\ r \in queue
  /\ ~Stale(r) /\ ~AboveCeiling(r)
  /\ queue' = queue \ {r}
  /\ wake' = [NoWake EXCEPT !.busy = TRUE, !.row = r, !.now = clock]
  /\ work' = <<[prompt |-> r.entry, trust |-> r.trust, ceiling |-> Reaches(r.trust),
                read |-> r.read, byBaton |-> ~r.raw, reflected |-> FALSE]>>
  /\ reflectLast' = IF StateOf[r.entry] = "Reflect" THEN clock ELSE reflectLast
  /\ UNCHANGED <<clock, minted, emitting, sessions, retries, reflections>>

-----------------------------------------------------------------------------
(* run_step: one branch.                                                    *)

SessionKey(b) == [prompt |-> b.prompt, trust |-> b.trust, thread |-> wake.row.thread]

\* The session the step leaves: stored under the key it started with, evicted for
\* its size, or as it was when the bridge reports no session id. What it has read
\* is what the step had in context.
KeepSession(b, touched) ==
  IF b.prompt \in Sticky
  THEN \E s \in {{}, sessions[SessionKey(b)],
                  sessions[SessionKey(b)] \cup b.read \cup touched} :
         sessions' = [sessions EXCEPT ![SessionKey(b)] = s]
  ELSE UNCHANGED sessions

\* Mutant: what the step touched does not count.
TrustsAfterNothing(b, touched) == {b.trust}

\* The branch's trust met with the label of every server the step called. Of labels
\* that rank alike the first one met stays, the branch's own before the servers'.
TrustsAfter(b, touched) ==
  LET lowest == {t \in {b.trust} \cup touched :
                   \A u \in {b.trust} \cup touched : Meet(t, u) = t}
  IN IF b.trust \in lowest THEN {b.trust} ELSE lowest

\* Mutant: the budget is one step too wide.
BudgetPlusOne == wake.steps <= MaxCycleSteps

BudgetLeft == wake.steps < MaxCycleSteps

Running == Busy /\ ~Emitting /\ work # <<>> /\ BudgetLeft
ToReflect(b) == StateOf[b.prompt] = "Reflect"
Touched(called) == {TrustOf[s] : s \in called}

RecordReflection(b) ==
  reflections' = IF ToReflect(b) /\ b.byBaton
                 THEN [reflections EXCEPT !.run = @ \cup {clock}]
                 ELSE reflections

\* The step completes: its trust and ceiling are those its batons are held to.
RunStep(called) ==
  /\ Running
  /\ LET b == Head(work)
     IN /\ KeepSession(b, Touched(called))
        /\ \E trust \in TrustsAfter(b, Touched(called)) :
             emitting' =
               [on |-> TRUE, emitted |-> 0,
                from |-> [b EXCEPT !.trust = trust, !.ceiling = Reaches(trust),
                                   !.read = @ \cup Touched(called)]]
        /\ RecordReflection(b)
        /\ wake' = [wake EXCEPT !.steps = @ + 1,
                                !.retryable = @ /\ ~ToReflect(b)]
  /\ work' = Tail(work)
  /\ UNCHANGED <<clock, queue, minted, reflectLast, retries>>

Abandon == wake' = NoWake /\ work' = <<>> /\ emitting' = NoStep

\* The invocation fails: dispatch returns and the worklist is gone. A timed-out wake
\* may go back to the queue, unless a step of it was a Reflect (or acted outward).
InvocationFails ==
  /\ Running
  /\ \/ UNCHANGED <<queue, retries>>
     \/ /\ retries < MaxRetries
        /\ wake.retryable /\ ~ToReflect(Head(work))
        /\ queue' = queue \cup {wake.row}
        /\ retries' = retries + 1
  /\ Abandon
  /\ UNCHANGED <<clock, minted, reflectLast, sessions, reflections>>

\* The runlog of a completed step cannot be written: its session is kept, its batons
\* and the worklist are gone, and the wake is not retried.
RunlogFails(called) ==
  /\ Running
  /\ KeepSession(Head(work), Touched(called))
  /\ RecordReflection(Head(work))
  /\ Abandon
  /\ UNCHANGED <<clock, queue, minted, reflectLast, retries>>

\* The worklist is drained, or the step budget drops what is left of it.
WakeEnds ==
  /\ Busy /\ ~Emitting
  /\ work = <<>> \/ ~BudgetLeft
  /\ Abandon
  /\ UNCHANGED <<clock, queue, minted, reflectLast, sessions, retries, reflections>>

\* A session is dropped after its idle TTL, or with the process.
Evict(k) ==
  /\ sessions[k] # {}
  /\ sessions' = [sessions EXCEPT ![k] = {}]
  /\ UNCHANGED <<clock, queue, minted, reflectLast, wake, work, emitting, retries,
                 reflections>>

-----------------------------------------------------------------------------
(* The batons of the step, one after the other: any sequence of intents. One *)
(* that fails a gate is skipped and changes nothing; those after the width   *)
(* is used up are dropped.                                                   *)

\* The gates a baton passes; the cadence is looked at with the time the wake was
\* dispatched.
Admitted(intent) ==
  LET from == emitting.from
  IN /\ intent.to \in Transitions[from.prompt]
     /\ WithinCeiling(StateOf[intent.to], from.ceiling)
     /\ AllowedTransition(StateOf[from.prompt], StateOf[intent.to])
     /\ StateOf[intent.to] = "Reflect" => ReflectAllowed(wake.now)

\* No baton is left, or none that passes.
BatonsEnd ==
  /\ Busy /\ Emitting
  /\ emitting' = NoStep
  /\ UNCHANGED <<clock, queue, minted, reflectLast, wake, work, sessions, retries,
                 reflections>>

\* An admitted Reflect takes the interval's grant.
Grant(intent) ==
  IF StateOf[intent.to] = "Reflect"
  THEN /\ reflectLast' = wake.now
       /\ reflections' = [reflections EXCEPT !.granted = @ \cup {wake.now}]
  ELSE UNCHANGED <<reflectLast, reflections>>

Child(intent) ==
  [emitting.from EXCEPT
     !.prompt = intent.to, !.byBaton = TRUE,
     !.reflected = @ \/ StateOf[emitting.from.prompt] = "Reflect"]

\* Mutant: the lineage is not counted.
ContinuationUncounted(intent) ==
  [id |-> Append(wake.row.id, wake.deferred + 1), raw |-> FALSE,
   entry |-> intent.to, trust |-> emitting.from.trust, thread |-> wake.row.thread,
   depth |-> wake.row.depth, at |-> wake.now, read |-> emitting.from.read]

\* continuation_stimulus.
Continuation(intent) ==
  [id |-> Append(wake.row.id, wake.deferred + 1), raw |-> FALSE,
   entry |-> intent.to, trust |-> emitting.from.trust, thread |-> wake.row.thread,
   depth |-> wake.row.depth + 1, at |-> wake.now, read |-> emitting.from.read]

Deferrable(intent) == intent.low /\ wake.row.depth < MaxLineageDepth

Emit(intent) ==
  /\ Busy /\ Emitting
  /\ emitting.emitted < MaxFanoutWidth
  /\ Admitted(intent)
  /\ Grant(intent)
  /\ emitting' = [emitting EXCEPT !.emitted = @ + 1]

\* A low-priority baton goes to the queue. INSERT OR IGNORE: the id a retried wake
\* already used is not stored again.
DeferBaton(intent) ==
  /\ Emit(intent)
  /\ Deferrable(intent)
  /\ LET c == Continuation(intent)
     IN /\ queue' = IF c.id \in minted THEN queue ELSE queue \cup {c}
        /\ minted' = minted \cup {c.id}
  /\ wake' = [wake EXCEPT !.deferred = @ + 1]
  /\ UNCHANGED <<clock, work, sessions, retries>>

\* Any other baton joins the worklist, as does a low one whose row could not be
\* stored.
PushBaton(intent) ==
  /\ Emit(intent)
  /\ work' = Append(work, Child(intent))
  /\ wake' = IF Deferrable(intent) THEN [wake EXCEPT !.deferred = @ + 1] ELSE wake
  /\ UNCHANGED <<clock, queue, minted, sessions, retries>>

Next ==
  \/ \E s \in Stimuli : Arrive(s)
  \/ ReflectFires \/ ReflectNow
  \/ Tick
  \/ \E r \in queue : Drop(r) \/ Enter(r)
  \/ \E called \in SUBSET Servers : RunStep(called) \/ RunlogFails(called)
  \/ InvocationFails \/ WakeEnds
  \/ BatonsEnd
  \/ \E intent \in Intent : DeferBaton(intent) \/ PushBaton(intent)
  \/ \E k \in Key : Evict(k)

Spec == Init /\ [][Next]_vars

-----------------------------------------------------------------------------
(* Properties.                                                              *)

\* Trust t covers what was read: it ranks no higher than any of it.
Covers(t, read) == \A u \in read : Rank(t) <= Rank(u)

\* The taint ratchet: a branch about to run, in this wake or deferred to a later
\* one, is labelled no higher than the seeds and every server touched on the path to
\* it, and its state is within what that label reaches.
TaintBounds(b) ==
  /\ Covers(b.trust, b.read)
  /\ b.ceiling = Reaches(b.trust)
  /\ WithinCeiling(StateOf[b.prompt], b.ceiling)

StepsWithinTaint ==
  /\ \A n \in DOMAIN work : TaintBounds(work[n])
  /\ \A r \in queue : Covers(r.trust, r.read)
  /\ Emitting => Covers(emitting.from.trust, emitting.from.read)

\* "Reflect exits to nothing": no branch descends from a Reflect step.
ReflectIsTerminal == \A n \in DOMAIN work : ~work[n].reflected

\* A lineage is deferred at most MAX_LINEAGE_DEPTH times: the id of a deferred baton,
\* which grows by one number with each deferral, stays that short, retries included.
LineageBounded ==
  \A r \in queue : Len(r.id) <= 1 + MaxLineageDepth

\* The harness clock rations self-modification: two wakes that granted a Reflect to a
\* baton are an interval apart.
GrantsSpaced ==
  \A s, t \in reflections.granted : s < t => t - s >= ReflectInterval

\* "even a clean branch the ceiling admits reflects only once per interval".
ReflectsOncePerInterval ==
  \A s, t \in reflections.run : s < t => t - s >= ReflectInterval

\* "the taint being part of the key keeps sessions isolated per trust level": a
\* session holds nothing of a lower tier than the key it is resumed by.
SessionsIsolated == \A k \in Key : Covers(k.trust, sessions[k])
=============================================================================
