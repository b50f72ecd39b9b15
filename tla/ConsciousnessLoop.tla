-------------------------- MODULE ConsciousnessLoop --------------------------
(***************************************************************************)
(* The durable stimulus queue and the single-flight dispatch loop that      *)
(* drains it: Harness::run, handle_dispatch_error, the SQLite queue, and    *)
(* the daemon process around them (cli::run: boot, SIGTERM, crash).         *)
(*                                                                          *)
(* One dispatch is abstracted to what the loop can tell apart: the steps    *)
(* it takes, the state each step runs in, whether the wall allowed an       *)
(* outward action, what the step left behind, and how the dispatch ends.    *)
(* Trust, ceilings and fan-out are in module Cycle; coalescing, and the rows *)
(* it marks `coalesced`, in module Bus.                                     *)
(***************************************************************************)
EXTENDS Integers, FiniteSets

CONSTANTS
  Ids,               \* every stimulus id that can be minted
  BackOnline,        \* the ids a boot may mint (back-online-{second})
  Deferred,          \* the ids of deferred batons ({origin}-b{seq})
  OriginOf,          \* the origin of each deferred baton
  PriorityRank,      \* Priority::numeric of each id: smaller pops first
  ReceivedAt,        \* received_at of each id, stamped before the row is stored
  LowRank,           \* Priority::Low.numeric()
  Holds,             \* the seconds a new row may be debounced for
  MaxTimeoutRetries, \* MAX_TIMEOUT_RETRIES
  Backoff(_),        \* retry_backoff_secs of an attempt
  QueueMaxDepth,     \* config.queue_max_depth
  MaxCycleSteps,     \* MAX_CYCLE_STEPS
  NoId,              \* the loop holds no stimulus
  MaxCrashes,        \* bound: crashes explored
  MaxDbFaults,       \* bound: failed queue writes and reads explored
  MaxSignals,        \* bound: SIGTERMs explored
  MaxPauses          \* bound: `dack pause` calls explored

ASSUME IdsAssumption ==
  /\ NoId \notin Ids
  /\ BackOnline \subseteq Ids /\ BackOnline # {}
  /\ Deferred \subseteq Ids
  /\ BackOnline \cap Deferred = {}
  /\ OriginOf \in [Deferred -> Ids]
  /\ \A d \in Deferred : OriginOf[d] # d

ASSUME ScheduleAssumption ==
  /\ PriorityRank \in [Ids -> Nat]
  /\ ReceivedAt \in [Ids -> Nat]
  /\ LowRank \in Nat
  /\ Holds \subseteq Nat
  /\ 0 \in Holds

ASSUME PolicyAssumption ==
  /\ MaxTimeoutRetries \in Nat
  /\ \A n \in 1 .. MaxTimeoutRetries : Backoff(n) \in Nat
  /\ QueueMaxDepth \in Nat
  /\ MaxCycleSteps \in Nat

ASSUME BoundsAssumption ==
  /\ MaxCrashes \in Nat
  /\ MaxDbFaults \in Nat
  /\ MaxSignals \in Nat
  /\ MaxPauses \in Nat

VARIABLES
  status,     \* the row of each id: its status column, or its absence
  attempts,   \* the attempts column
  hold,       \* seconds until pop_after; 0 once the row may be popped
  paused,     \* the "paused" cursor
  pc,         \* where the process is
  wake,       \* the dispatch in flight: volatile, lost with the process
  signalled,  \* the shutdown watch
  crashes, dbFaults, signals, pauses, \* what the environment has done so far
  runs,       \* history: dispatches of the row since it was stored
  reclaims,   \* history: boots that took the row back from `dispatched`
  outward,    \* history: wakes of the id in which an outward action was allowed
  pops        \* history: stimuli popped since the loop was paused

store == <<status, attempts, hold>>
environment == <<crashes, dbFaults, signals, pauses>>
history == <<runs, reclaims, outward, pops>>
vars == <<status, attempts, hold, paused, pc, wake, signalled,
          crashes, dbFaults, signals, pauses,
          runs, reclaims, outward, pops>>

Absent == {"absent", "shed"}     \* no row: never stored, or deleted by shed
Terminal == {"done", "failed"}
RowStatus == Absent \cup Terminal \cup {"pending", "dispatched"}
States == {"Perceive", "Express", "Settle", "Reflect"}
OutwardStates == {"Express", "Settle"}  \* whose scopes hold Post or SettleTx
Verdicts == {"none", "ok", "timeout", "error", "panic"}
Places == {"down", "booting", "greeting", "top", "shedding", "popping",
           "between", "invoking", "settling", "stopped"}
InDispatch == {"between", "invoking", "settling"}

\* `id` and `tries` are the loop's snapshot of the popped row (its attempts are
\* those of the pop); `acted` is the step's recorder.acted_outward(), `sent`
\* that some step of the wake acted outward, `unretryable` the wake-wide
\* AtomicBool, `spawned` that a worker was launched, `left` the batons deferred.
Wake == [id : Ids \cup {NoId}, tries : 0 .. MaxTimeoutRetries,
         steps : 0 .. MaxCycleSteps, state : States, acted : BOOLEAN,
         sent : BOOLEAN, unretryable : BOOLEAN, spawned : BOOLEAN,
         left : SUBSET Deferred, verdict : Verdicts]
NoWake == [id |-> NoId, tries |-> 0, steps |-> 0, state |-> "Perceive",
           acted |-> FALSE, sent |-> FALSE, unretryable |-> FALSE,
           spawned |-> FALSE, left |-> {}, verdict |-> "none"]

\* Every column, cursor and loop local keeps its type; in particular `attempts`
\* never passes the retry cap.
TypeOK ==
  /\ status \in [Ids -> RowStatus]
  /\ attempts \in [Ids -> 0 .. MaxTimeoutRetries]
  /\ hold \in [Ids -> Nat]
  /\ paused \in BOOLEAN
  /\ pc \in Places
  /\ wake \in Wake
  /\ signalled \in BOOLEAN
  /\ crashes \in 0 .. MaxCrashes
  /\ dbFaults \in 0 .. MaxDbFaults
  /\ signals \in 0 .. MaxSignals
  /\ pauses \in 0 .. MaxPauses
  /\ runs \in [Ids -> Nat]
  /\ reclaims \in [Ids -> Nat]
  /\ outward \in [Ids -> Nat]
  /\ pops \in Nat

Init ==
  /\ status = [i \in Ids |-> "absent"]
  /\ attempts = [i \in Ids |-> 0]
  /\ hold = [i \in Ids |-> 0]
  /\ paused = FALSE
  /\ pc = "down"
  /\ wake = NoWake
  /\ signalled = FALSE
  /\ crashes = 0 /\ dbFaults = 0 /\ signals = 0 /\ pauses = 0
  /\ runs = [i \in Ids |-> 0]
  /\ reclaims = [i \in Ids |-> 0]
  /\ outward = [i \in Ids |-> 0]
  /\ pops = 0

-----------------------------------------------------------------------------
(* The queue: one operator per statement it runs.                           *)

Pending == {i \in Ids : status[i] = "pending"}
Orphans == {i \in Ids : status[i] = "dispatched"}
Poppable == {i \in Pending : hold[i] = 0}

\* SELECT ... ORDER BY priority_rank, received_at LIMIT 1; ties are SQLite's.
PopsNoLaterThan(i, j) ==
  \/ PriorityRank[i] < PriorityRank[j]
  \/ PriorityRank[i] = PriorityRank[j] /\ ReceivedAt[i] <= ReceivedAt[j]

\* Mutant: INSERT OR REPLACE, a re-minted id overwrites its row.
StoreReplacing(i, h) ==
  /\ status' = [status EXCEPT ![i] = "pending"]
  /\ attempts' = [attempts EXCEPT ![i] = 0]
  /\ hold' = [hold EXCEPT ![i] = h]
  /\ runs' = [runs EXCEPT ![i] = 0]

\* INSERT OR IGNORE: a row that exists is left as it is.
Store(i, h) ==
  IF status[i] \in Absent
  THEN /\ status' = [status EXCEPT ![i] = "pending"]
       /\ attempts' = [attempts EXCEPT ![i] = 0]
       /\ hold' = [hold EXCEPT ![i] = h]
       /\ runs' = [runs EXCEPT ![i] = 0]
  ELSE UNCHANGED <<status, attempts, hold, runs>>

\* update_status, unconditional by id.
SetStatus(i, s) ==
  /\ status' = [status EXCEPT ![i] = s]
  /\ UNCHANGED <<attempts, hold>>

\* Mutant: the attempt is not written back.
RescheduleUncounted(i, n) ==
  /\ status' = [status EXCEPT ![i] = "pending"]
  /\ hold' = [hold EXCEPT ![i] = Backoff(n)]
  /\ UNCHANGED attempts

\* reschedule: the same row back to pending, behind its backoff.
Reschedule(i, n) ==
  /\ status' = [status EXCEPT ![i] = "pending"]
  /\ attempts' = [attempts EXCEPT ![i] = n]
  /\ hold' = [hold EXCEPT ![i] = Backoff(n)]

\* Mutant: the boot leaves the leased rows where the crash left them.
LeaveOrphans == UNCHANGED <<store, reclaims>>

\* reclaim_orphans: every dispatched row back to pending, attempts untouched.
ReclaimOrphans ==
  /\ status' = [i \in Ids |-> IF status[i] = "dispatched" THEN "pending"
                                                          ELSE status[i]]
  /\ reclaims' = [i \in Ids |-> IF status[i] = "dispatched"
                                THEN reclaims[i] + 1 ELSE reclaims[i]]
  /\ UNCHANGED <<attempts, hold>>

\* The rows shed may delete: pending, Low, as many as the excess allows, and
\* no row kept is strictly staler than one deleted.
LowPending == {i \in Pending : PriorityRank[i] >= LowRank}
Excess == Cardinality(Pending) - QueueMaxDepth
Stalest(S) ==
  /\ S \subseteq LowPending
  /\ \A i \in S, j \in LowPending \ S : ReceivedAt[i] <= ReceivedAt[j]
  /\ \/ Excess <= 0 /\ S = {}
     \/ Excess > 0 /\ Cardinality(S) = Excess
     \/ Excess > Cardinality(LowPending) /\ S = LowPending

DeleteRows(S) ==
  /\ status' = [i \in Ids |-> IF i \in S THEN "shed" ELSE status[i]]
  /\ UNCHANGED <<attempts, hold>>

\* A queue statement fails (database locked past busy_timeout, disk full).
DbFault == dbFaults < MaxDbFaults /\ dbFaults' = dbFaults + 1
NoDbFault == UNCHANGED dbFaults

-----------------------------------------------------------------------------
(* Boot: reclaim, then the "back online" wake, then the loop.               *)

\* The supervisor (systemd) starts a process; its memory is empty.
Start ==
  /\ pc = "down"
  /\ pc' = "booting"
  /\ wake' = NoWake
  /\ signalled' = FALSE
  /\ UNCHANGED <<store, paused, environment, history>>

\* A failed reclaim is logged and boot goes on.
Reclaim ==
  /\ pc = "booting"
  /\ pc' = "greeting"
  /\ \/ NoDbFault /\ ReclaimOrphans
     \/ DbFault /\ UNCHANGED <<store, reclaims>>
  /\ UNCHANGED <<paused, wake, signalled, crashes, signals, pauses,
                 runs, outward, pops>>

\* enqueue_back_online: the id is the second's, so a quick second boot re-mints
\* it. A failed enqueue is logged.
Greet ==
  /\ pc = "greeting"
  /\ pc' = "top"
  /\ \/ NoDbFault /\ \E b \in BackOnline : Store(b, 0)
     \/ DbFault /\ UNCHANGED <<store, runs>>
  /\ UNCHANGED <<paused, wake, signalled, crashes, signals, pauses,
                 reclaims, outward, pops>>

-----------------------------------------------------------------------------
(* One turn of the loop: shutdown?, paused?, shed, next.                    *)

\* Mutant: the pause is not looked at.
TurnUnpaused ==
  /\ pc = "top"
  /\ ~signalled
  /\ pc' = "shedding"
  /\ UNCHANGED <<store, paused, wake, signalled, environment, history>>

\* At the boundary the loop ends on a shutdown and idles while paused; a failed
\* read of the cursor counts as not paused.
Turn ==
  /\ pc = "top"
  /\ ~signalled
  /\ \/ ~paused /\ NoDbFault
     \/ DbFault
  /\ pc' = "shedding"
  /\ UNCHANGED <<store, paused, wake, signalled, crashes, signals, pauses,
                 history>>

LoopEnds ==
  /\ pc = "top"
  /\ signalled
  /\ pc' = "stopped"
  /\ UNCHANGED <<store, paused, wake, signalled, environment, history>>

Shed ==
  /\ pc = "shedding"
  /\ pc' = "popping"
  /\ \E S \in SUBSET LowPending :
       /\ Stalest(S)
       /\ \/ NoDbFault /\ DeleteRows(S)
          \/ DbFault /\ \E T \in SUBSET S : DeleteRows(T)
  /\ UNCHANGED <<paused, wake, signalled, crashes, signals, pauses, history>>

\* next(): lease the most urgent poppable row.
Pop(i) ==
  /\ pc = "popping"
  /\ i \in Poppable
  /\ \A j \in Poppable : PopsNoLaterThan(i, j)
  /\ SetStatus(i, "dispatched")
  /\ wake' = [NoWake EXCEPT !.id = i, !.tries = attempts[i]]
  /\ pc' = "between"
  /\ runs' = [runs EXCEPT ![i] = @ + 1]
  /\ pops' = IF paused THEN pops + 1 ELSE pops
  /\ UNCHANGED <<paused, signalled, environment, reclaims, outward>>

\* Nothing to pop: sleep and turn again.
PopNothing ==
  /\ pc = "popping"
  /\ Poppable = {}
  /\ pc' = "top"
  /\ UNCHANGED <<store, paused, wake, signalled, environment, history>>

\* next() errs: `?` ends Harness::run. The process and its ingestion live on.
PopFails ==
  /\ pc = "popping"
  /\ DbFault
  /\ pc' = "stopped"
  /\ UNCHANGED <<store, paused, wake, signalled, crashes, signals, pauses,
                 history>>

-----------------------------------------------------------------------------
(* The dispatch of the popped stimulus.                                     *)

\* run_step invokes the runtime in some state.
Invoke(s) ==
  /\ pc = "between"
  /\ wake.steps < MaxCycleSteps
  /\ wake' = [wake EXCEPT !.steps = @ + 1, !.state = s, !.acted = FALSE]
  /\ pc' = "invoking"
  /\ UNCHANGED <<store, paused, signalled, environment, history>>

\* The wall allows a Post or SettleTx call and records it; the bridge executes
\* it there and then. `outward` counts the wake once.
ActOutward ==
  /\ pc = "invoking"
  /\ wake.state \in OutwardStates
  /\ ~wake.acted
  /\ wake' = [wake EXCEPT !.acted = TRUE, !.sent = TRUE]
  /\ outward' = [outward EXCEPT ![wake.id] = IF wake.sent THEN @ ELSE @ + 1]
  /\ UNCHANGED <<store, paused, pc, signalled, environment, runs, reclaims, pops>>

\* Mutant: the mark of the last step only, not the wake's.
UnretryableStep == wake.acted \/ wake.state = "Reflect"

\* The mark is set before the result is looked at.
Unretryable == wake.unretryable \/ wake.acted \/ wake.state = "Reflect"

\* The step completed: its edits are committed and its runlog written.
StepCompletes ==
  /\ pc = "invoking"
  /\ wake' = [wake EXCEPT !.unretryable = Unretryable]
  /\ pc' = "between"
  /\ UNCHANGED <<store, paused, signalled, environment, history>>

\* The invocation times out, fails, or the step fails after it (runlog write).
StepFails(v) ==
  /\ pc = "invoking"
  /\ v \in {"timeout", "error"}
  /\ wake' = [wake EXCEPT !.unretryable = Unretryable, !.verdict = v]
  /\ pc' = "settling"
  /\ UNCHANGED <<store, paused, signalled, environment, history>>

\* A panic anywhere in the dispatch is caught by the loop.
Panic ==
  /\ pc \in {"between", "invoking"}
  /\ wake' = [wake EXCEPT !.verdict = "panic"]
  /\ pc' = "settling"
  /\ UNCHANGED <<store, paused, signalled, environment, history>>

\* A completed Express step launches a detached worker.
SpawnWorker ==
  /\ pc = "between"
  /\ wake.steps > 0 /\ wake.state = "Express"
  /\ ~wake.spawned
  /\ wake' = [wake EXCEPT !.spawned = TRUE]
  /\ UNCHANGED <<store, paused, pc, signalled, environment, history>>

\* A completed step defers a low-priority baton to the queue; if the row cannot
\* be stored the branch runs in this wake instead.
DeferBaton(d) ==
  /\ pc = "between"
  /\ wake.steps > 0 /\ wake.state # "Reflect"
  /\ OriginOf[d] = wake.id
  /\ d \notin wake.left
  /\ wake' = [wake EXCEPT !.left = @ \cup {d}]
  /\ \/ NoDbFault /\ Store(d, 0)
     \/ DbFault /\ UNCHANGED <<store, runs>>
  /\ UNCHANGED <<paused, pc, signalled, crashes, signals, pauses,
                 reclaims, outward, pops>>

\* The worklist is drained, the budget is spent, or the entry was dropped.
DispatchReturns ==
  /\ pc = "between"
  /\ wake' = [wake EXCEPT !.verdict = "ok"]
  /\ pc' = "settling"
  /\ UNCHANGED <<store, paused, signalled, environment, history>>

-----------------------------------------------------------------------------
(* The outcome of the dispatch, written to the row.                         *)

\* Mutant: no cap on the retries.
RetryableForever == wake.verdict = "timeout" /\ ~wake.unretryable

\* timeout_retry_next_attempt: a timed-out, retry-safe wake under the cap.
Retryable ==
  /\ wake.verdict = "timeout"
  /\ ~wake.unretryable
  /\ wake.tries < MaxTimeoutRetries

SettleDone ==
  /\ pc = "settling"
  /\ wake.verdict = "ok"
  /\ \/ NoDbFault /\ SetStatus(wake.id, "done")
     \/ DbFault /\ UNCHANGED store
  /\ pc' = "top" /\ wake' = NoWake
  /\ UNCHANGED <<paused, signalled, crashes, signals, pauses, history>>

SettleRetry ==
  /\ pc = "settling"
  /\ Retryable
  /\ Reschedule(wake.id, wake.tries + 1)
  /\ pc' = "top" /\ wake' = NoWake
  /\ UNCHANGED <<paused, signalled, environment, history>>

\* Terminal; also where a failed reschedule falls through to.
SettleFailed ==
  /\ pc = "settling"
  /\ wake.verdict # "ok"
  /\ \/ ~Retryable /\ NoDbFault /\ SetStatus(wake.id, "failed")
     \/ ~Retryable /\ DbFault /\ UNCHANGED store
     \/ Retryable /\ DbFault /\ SetStatus(wake.id, "failed")
  /\ pc' = "top" /\ wake' = NoWake
  /\ UNCHANGED <<paused, signalled, crashes, signals, pauses, history>>

-----------------------------------------------------------------------------
(* The environment: senses, operator, time, crashes, SIGTERM.               *)

\* The bus, a schedule or the CLI stores a fresh row; the CLI does so even
\* while the daemon is down.
Arrive(i) ==
  /\ i \notin BackOnline \cup Deferred
  /\ status[i] = "absent"
  /\ \E h \in Holds : Store(i, h)
  /\ UNCHANGED <<paused, pc, wake, signalled, environment,
                 reclaims, outward, pops>>

\* A second passes for the rows held back by pop_after.
Tick ==
  /\ \E i \in Pending : hold[i] > 0
  /\ hold' = [i \in Ids |-> IF hold[i] > 0 THEN hold[i] - 1 ELSE 0]
  /\ UNCHANGED <<status, attempts, paused, pc, wake, signalled, environment,
                 history>>

Pause ==
  /\ ~paused /\ pauses < MaxPauses
  /\ paused' = TRUE
  /\ pauses' = pauses + 1
  /\ pops' = 0
  /\ UNCHANGED <<store, pc, wake, signalled, crashes, dbFaults, signals,
                 runs, reclaims, outward>>

Resume ==
  /\ paused
  /\ paused' = FALSE
  /\ UNCHANGED <<store, pc, wake, signalled, environment, history>>

Crash ==
  /\ pc # "down" /\ crashes < MaxCrashes
  /\ crashes' = crashes + 1
  /\ pc' = "down" /\ wake' = NoWake
  /\ UNCHANGED <<store, paused, signalled, dbFaults, signals, pauses, history>>

Signal ==
  /\ pc # "down" /\ ~signalled /\ signals < MaxSignals
  /\ signalled' = TRUE
  /\ signals' = signals + 1
  /\ UNCHANGED <<store, paused, pc, wake, crashes, dbFaults, pauses, history>>

\* cli::run selects between ingestion and the watch, and returns on the signal;
\* the spawned loop is dropped with the runtime, wherever it is.
ProcessExits ==
  /\ pc # "down" /\ signalled
  /\ pc' = "down" /\ wake' = NoWake
  /\ UNCHANGED <<store, paused, signalled, environment, history>>

-----------------------------------------------------------------------------
Boot == Start \/ Reclaim \/ Greet

LoopTurn ==
  \/ Turn \/ LoopEnds \/ Shed \/ PopNothing \/ PopFails
  \/ \E i \in Ids : Pop(i)

Dispatch ==
  \/ \E s \in States : Invoke(s)
  \/ ActOutward \/ StepCompletes \/ Panic \/ DispatchReturns
  \/ \E v \in Verdicts : StepFails(v)
  \/ SpawnWorker
  \/ \E d \in Deferred : DeferBaton(d)

SettleWake == SettleDone \/ SettleRetry \/ SettleFailed

Environment ==
  \/ \E i \in Ids : Arrive(i)
  \/ Tick \/ Pause \/ Resume \/ Crash \/ Signal \/ ProcessExits

Next == Boot \/ LoopTurn \/ Dispatch \/ SettleWake \/ Environment

Spec == Init /\ [][Next]_vars

\* The supervisor restarts the process, the runtime ends every invocation (a
\* wall-clock budget bounds it), the loop keeps turning and time passes.
StepEnds == StepCompletes \/ DispatchReturns \/ \E v \in Verdicts : StepFails(v)

Fairness ==
  /\ WF_vars(Boot) /\ WF_vars(LoopTurn) /\ WF_vars(StepEnds)
  /\ WF_vars(SettleWake) /\ WF_vars(Tick) /\ WF_vars(ProcessExits)

FairSpec == Spec /\ Fairness

-----------------------------------------------------------------------------
(* Properties.                                                              *)

\* "Single-flight means there is at most one such row": as long as no queue
\* statement failed, the rows left `dispatched` are the one being processed, or
\* the one a dead process was processing.
SingleFlight ==
  dbFaults = 0 =>
    /\ \A i, j \in Orphans : i = j
    /\ pc \in InDispatch => Orphans = {wake.id}
    /\ pc \in {"greeting", "top", "shedding", "popping", "stopped"} => Orphans = {}

\* Every dispatch of a row is its first, a counted timeout retry, or follows a
\* boot that reclaimed it: nothing else ever runs a stimulus again.
RunsAccounted ==
  \A i \in Ids : runs[i] <= 1 + attempts[i] + reclaims[i]

\* A stimulus acts outward (posts, trades) in at most one wake, plus one more for
\* each reclaim: the timeout retry never repeats an outward action.
OutwardAccounted ==
  \A i \in Ids : outward[i] <= 1 + reclaims[i]

\* A `done` or `failed` row keeps its status: no reclaim, retry or re-mint of its
\* id brings a finished stimulus back.
FinishedForever ==
  [][\A i \in Ids : status[i] \in Terminal => status'[i] = status[i]]_vars

\* `dack pause` lets the turn already past the check pop one stimulus, and a turn
\* whose read of the cursor failed one more; nothing else pops until the resume.
PauseHolds == pops <= 1 + dbFaults

\* Where the queue's promise sees a row: a leased one is being run, or its dispatch is
\* over without a status, or gone with its process.
PlaceOf(i) ==
  CASE status[i] = "absent" -> "nowhere"
    [] status[i] = "shed" -> "dropped"
    [] status[i] = "pending" -> "waiting"
    [] status[i] = "dispatched" ->
         IF pc \in InDispatch /\ wake.id = i THEN "running" ELSE "interrupted"
    [] OTHER -> status[i]

Lifecycle == INSTANCE StimulusLifecycle WITH
  Stimuli <- Ids,
  Droppable <- {i \in Ids : PriorityRank[i] >= LowRank},
  MaxRetries <- MaxTimeoutRetries,
  place <- [i \in Ids |-> PlaceOf(i)],
  tries <- attempts,
  effect <- wake.sent

\* The queue, its loop and its boot keep the promise of StimulusLifecycle: one delivery
\* at a time; a retry only of one without effects and under the cap; only Low stimuli
\* dropped; none lost by a failed statement, a crash or a signal, nor brought back.
LifecycleKept == Lifecycle!Spec

\* Unless the operator leaves the loop paused, every stored stimulus is settled
\* in the end; only Low ones may be shed instead.
EveryStimulusSettles ==
  <>[]~paused =>
    \A i \in Ids :
      (status[i] = "pending") ~>
        (status[i] \in Terminal \/ (status[i] = "shed" /\ PriorityRank[i] >= LowRank))

\* The claims below are the source's own; the runs show where the code departs
\* from them.

\* "the consciousness loop finishes its in-flight dispatch, then exits (no zombie
\* `dispatched` row)": a process that ends on SIGTERM leaves no leased row.
ShutdownDrains ==
  [][signalled /\ pc # "down" /\ pc' = "down" /\ UNCHANGED crashes
     => Orphans = {}]_vars

\* Failures become runlog entries "rather than crashing the single-flight loop":
\* the loop ends only on a shutdown.
LoopSurvives == pc = "stopped" => signalled
=============================================================================
