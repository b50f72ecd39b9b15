----------------------- MODULE ConsciousnessLoopProofs -----------------------
(***************************************************************************)
(* The safety properties of ConsciousnessLoop, for every set of stimuli,    *)
(* every schedule and every bound.                                          *)
(*                                                                          *)
(* None of the properties is inductive. IInv adds what ties the loop's      *)
(* locals to the store: the popped row stays leased and its `attempts`      *)
(* stays what the loop read (LeaseInv), the wake-wide retry mark covers     *)
(* every outward action of the wake once a step has ended (MarkInv), and    *)
(* the budgets of runs, outward acts and pops refined by row status.        *)
(***************************************************************************)
EXTENDS ConsciousnessLoop, TLAPS

\* The loop holds exactly the row it leased.
LeaseInv ==
  /\ pc \in InDispatch => /\ wake.id \in Ids
                          /\ status[wake.id] = "dispatched"
                          /\ wake.tries = attempts[wake.id]
  /\ pc \notin InDispatch => wake = NoWake

\* No outward action of the wake escapes the mark the retry looks at.
MarkInv ==
  /\ pc = "between" /\ wake.sent => wake.unretryable
  /\ pc = "invoking" /\ wake.sent => wake.unretryable \/ wake.acted
  /\ pc = "settling" /\ wake.verdict = "timeout" /\ wake.sent => wake.unretryable

\* A row that may still be dispatched has one run left in its budget.
RunsInv ==
  \A i \in Ids :
    /\ runs[i] <= 1 + attempts[i] + reclaims[i]
    /\ status[i] \in Absent \cup {"pending"} => runs[i] <= attempts[i] + reclaims[i]

\* A row that may still be dispatched has not acted outward in a wake that a
\* reclaim does not account for.
OutwardInv ==
  \A i \in Ids :
    /\ outward[i] <= 1 + reclaims[i]
    /\ status[i] \in Absent \cup {"pending"} => outward[i] <= reclaims[i]
    /\ pc \in InDispatch /\ i = wake.id /\ ~wake.sent => outward[i] <= reclaims[i]

\* Past the check, a paused loop has not popped since a good read of the cursor.
PauseInv ==
  /\ pops <= 1 + dbFaults
  /\ paused /\ pc \in {"shedding", "popping"} => pops <= dbFaults

\* The inductive invariant.
IInv ==
  /\ TypeOK /\ LeaseInv /\ MarkInv /\ SingleFlight
  /\ RunsInv /\ OutwardInv /\ PauseInv

\* A fresh store and a process that is down satisfy the invariant.
LEMMA InitIInv == Init => IInv
<1> SUFFICES ASSUME Init PROVE IInv
  OBVIOUS
<1>1. NoWake \in Wake
  BY PolicyAssumption DEF NoWake, Wake, States, Verdicts
<1>2. TypeOK
  <2>1. /\ status \in [Ids -> RowStatus]
        /\ attempts \in [Ids -> 0 .. MaxTimeoutRetries]
    BY PolicyAssumption DEF Init, RowStatus, Absent
  <2>2. /\ hold \in [Ids -> Nat] /\ runs \in [Ids -> Nat]
        /\ reclaims \in [Ids -> Nat] /\ outward \in [Ids -> Nat]
        /\ pops \in Nat
    BY DEF Init
  <2>3. /\ crashes \in 0 .. MaxCrashes /\ dbFaults \in 0 .. MaxDbFaults
        /\ signals \in 0 .. MaxSignals /\ pauses \in 0 .. MaxPauses
    BY BoundsAssumption DEF Init
  <2>4. pc \in Places /\ paused \in BOOLEAN /\ signalled \in BOOLEAN
    BY DEF Init, Places
  <2> QED
    BY <1>1, <2>1, <2>2, <2>3, <2>4 DEF Init, TypeOK
<1> QED
  BY <1>2 DEF Init, IInv, TypeOK, LeaseInv, MarkInv, SingleFlight, RunsInv, OutwardInv, PauseInv,
      NoWake, InDispatch, Orphans, Absent

\* Every action preserves it; the cases are the actions of Next, in its order.
LEMMA NextIInv == IInv /\ [Next]_vars => IInv'
<1> SUFFICES ASSUME IInv, [Next]_vars PROVE IInv'
  OBVIOUS
<1> USE IdsAssumption, ScheduleAssumption, PolicyAssumption, BoundsAssumption
    DEF IInv, TypeOK, LeaseInv, MarkInv, SingleFlight, RunsInv, OutwardInv, PauseInv,
      store, environment, history, NoWake, Wake, RowStatus, Absent, Terminal, States,
      Verdicts, Places, InDispatch, Orphans, Pending
<1>1. CASE Start
  <2>1. TypeOK'
    BY <1>1 DEF Start
  <2>2. LeaseInv' /\ MarkInv'
    BY <1>1 DEF Start
  <2>3. SingleFlight'
    BY <1>1 DEF Start
  <2>4. RunsInv'
    BY <1>1 DEF Start
  <2>5. OutwardInv'
    BY <1>1 DEF Start
  <2>6. PauseInv'
    BY <1>1 DEF Start
  <2> QED
    BY <2>1, <2>2, <2>3, <2>4, <2>5, <2>6
<1>2. CASE Reclaim
  BY <1>2 DEF Reclaim, ReclaimOrphans, NoDbFault, DbFault
<1>3. CASE Greet
  BY <1>3 DEF Greet, Store, NoDbFault, DbFault
<1>4. CASE Turn
  BY <1>4 DEF Turn, NoDbFault, DbFault
<1>5. CASE LoopEnds
  BY <1>5 DEF LoopEnds
<1>6. CASE Shed
  BY <1>6 DEF Shed, Stalest, DeleteRows, NoDbFault, DbFault, LowPending
<1>7. CASE PopNothing
  BY <1>7 DEF PopNothing
<1>8. CASE PopFails
  BY <1>8 DEF PopFails, DbFault
<1>9. ASSUME NEW i \in Ids, Pop(i) PROVE IInv'
  <2>1. TypeOK'
    <3>1. wake' \in Wake
      BY <1>9 DEF Pop
    <3>2. status' \in [Ids -> RowStatus] /\ runs' \in [Ids -> Nat] /\ pops' \in Nat
      BY <1>9 DEF Pop, SetStatus
    <3> QED
      BY <1>9, <3>1, <3>2 DEF Pop, SetStatus
  <2>2. LeaseInv' /\ MarkInv'
    BY <1>9 DEF Pop, SetStatus, Poppable
  <2>3. SingleFlight'
    BY <1>9 DEF Pop, SetStatus, Poppable
  <2>4. RunsInv'
    BY <1>9 DEF Pop, SetStatus, Poppable
  <2>5. OutwardInv'
    BY <1>9 DEF Pop, SetStatus, Poppable
  <2>6. PauseInv'
    BY <1>9 DEF Pop, SetStatus, Poppable
  <2> QED
    BY <2>1, <2>2, <2>3, <2>4, <2>5, <2>6
<1>10. ASSUME NEW s \in States, Invoke(s) PROVE IInv'
  <2>1. TypeOK'
    <3>1. wake.steps + 1 \in 0 .. MaxCycleSteps
      BY <1>10 DEF Invoke
    <3>2. wake' \in Wake
      BY <1>10, <3>1 DEF Invoke
    <3> QED
      BY <1>10, <3>2 DEF Invoke
  <2>2. LeaseInv' /\ MarkInv'
    BY <1>10 DEF Invoke
  <2>3. SingleFlight'
    BY <1>10 DEF Invoke
  <2>4. RunsInv'
    BY <1>10 DEF Invoke
  <2>5. OutwardInv'
    BY <1>10 DEF Invoke
  <2>6. PauseInv'
    BY <1>10 DEF Invoke
  <2> QED
    BY <2>1, <2>2, <2>3, <2>4, <2>5, <2>6
<1>11. CASE ActOutward
  <2>1. TypeOK'
    <3>1. wake' \in Wake
      BY <1>11 DEF ActOutward
    <3>2. outward' \in [Ids -> Nat]
      BY <1>11 DEF ActOutward
    <3> QED
      BY <1>11, <3>1, <3>2 DEF ActOutward
  <2>2. LeaseInv' /\ MarkInv'
    BY <1>11 DEF ActOutward
  <2>3. SingleFlight'
    BY <1>11 DEF ActOutward
  <2>4. RunsInv'
    BY <1>11 DEF ActOutward
  <2>5. OutwardInv'
    BY <1>11 DEF ActOutward
  <2>6. PauseInv'
    BY <1>11 DEF ActOutward
  <2> QED
    BY <2>1, <2>2, <2>3, <2>4, <2>5, <2>6
<1>12. CASE StepCompletes
  <2>1. TypeOK'
    BY <1>12 DEF StepCompletes, Unretryable
  <2>2. LeaseInv' /\ MarkInv'
    BY <1>12 DEF StepCompletes, Unretryable
  <2>3. SingleFlight'
    BY <1>12 DEF StepCompletes, Unretryable
  <2>4. RunsInv'
    BY <1>12 DEF StepCompletes, Unretryable
  <2>5. OutwardInv'
    BY <1>12 DEF StepCompletes, Unretryable
  <2>6. PauseInv'
    BY <1>12 DEF StepCompletes, Unretryable
  <2> QED
    BY <2>1, <2>2, <2>3, <2>4, <2>5, <2>6
<1>13. CASE Panic
  BY <1>13 DEF Panic
<1>14. CASE DispatchReturns
  BY <1>14 DEF DispatchReturns
<1>15. ASSUME NEW v \in Verdicts, StepFails(v) PROVE IInv'
  <2>1. TypeOK'
    BY <1>15 DEF StepFails, Unretryable
  <2>2. LeaseInv' /\ MarkInv'
    BY <1>15 DEF StepFails, Unretryable
  <2>3. SingleFlight'
    BY <1>15 DEF StepFails, Unretryable
  <2>4. RunsInv'
    BY <1>15 DEF StepFails, Unretryable
  <2>5. OutwardInv'
    BY <1>15 DEF StepFails, Unretryable
  <2>6. PauseInv'
    BY <1>15 DEF StepFails, Unretryable
  <2> QED
    BY <2>1, <2>2, <2>3, <2>4, <2>5, <2>6
<1>16. CASE SpawnWorker
  <2>1. TypeOK'
    BY <1>16 DEF SpawnWorker
  <2>2. LeaseInv' /\ MarkInv'
    BY <1>16 DEF SpawnWorker
  <2>3. SingleFlight'
    BY <1>16 DEF SpawnWorker
  <2>4. RunsInv'
    BY <1>16 DEF SpawnWorker
  <2>5. OutwardInv'
    BY <1>16 DEF SpawnWorker
  <2>6. PauseInv'
    BY <1>16 DEF SpawnWorker
  <2> QED
    BY <2>1, <2>2, <2>3, <2>4, <2>5, <2>6
<1>17. ASSUME NEW d \in Deferred, DeferBaton(d) PROVE IInv'
  BY <1>17 DEF DeferBaton, Store, NoDbFault, DbFault
<1>18. CASE SettleDone
  BY <1>18 DEF SettleDone, SetStatus, NoDbFault, DbFault
<1>19. CASE SettleRetry
  BY <1>19 DEF SettleRetry, Retryable, Reschedule
<1>20. CASE SettleFailed
  BY <1>20 DEF SettleFailed, SetStatus, Retryable, NoDbFault, DbFault
<1>21. ASSUME NEW i \in Ids, Arrive(i) PROVE IInv'
  BY <1>21 DEF Arrive, Store
<1>22. CASE Tick
  BY <1>22 DEF Tick
<1>23. CASE Pause
  BY <1>23 DEF Pause
<1>24. CASE Resume
  <2>1. TypeOK'
    <3>1. paused' \in BOOLEAN
      BY <1>24 DEF Resume
    <3> QED
      BY <1>24, <3>1 DEF Resume
  <2>2. LeaseInv' /\ MarkInv'
    BY <1>24 DEF Resume
  <2>3. SingleFlight'
    BY <1>24 DEF Resume
  <2>4. RunsInv'
    BY <1>24 DEF Resume
  <2>5. OutwardInv'
    BY <1>24 DEF Resume
  <2>6. PauseInv'
    BY <1>24 DEF Resume
  <2> QED
    BY <2>1, <2>2, <2>3, <2>4, <2>5, <2>6
<1>25. CASE Crash
  BY <1>25 DEF Crash
<1>26. CASE Signal
  BY <1>26 DEF Signal
<1>27. CASE ProcessExits
  BY <1>27 DEF ProcessExits
<1>28. CASE UNCHANGED vars
  BY <1>28 DEF vars
<1> HIDE IdsAssumption, ScheduleAssumption, PolicyAssumption, BoundsAssumption
    DEF IInv, TypeOK, LeaseInv, MarkInv, SingleFlight, RunsInv, OutwardInv, PauseInv,
      store, environment, history, NoWake, Wake, RowStatus, Absent, Terminal, States,
      Verdicts, Places, InDispatch, Orphans, Pending
<1>29. CASE Boot
  BY <1>29, <1>1, <1>2, <1>3 DEF Boot
<1>30. CASE LoopTurn
  BY <1>30, <1>4, <1>5, <1>6, <1>7, <1>8, <1>9 DEF LoopTurn
<1>31. CASE Dispatch
  BY <1>31, <1>10, <1>11, <1>12, <1>13, <1>14, <1>15, <1>16, <1>17 DEF Dispatch
<1>32. CASE SettleWake
  BY <1>32, <1>18, <1>19, <1>20 DEF SettleWake
<1>33. CASE Environment
  BY <1>33, <1>21, <1>22, <1>23, <1>24, <1>25, <1>26, <1>27 DEF Environment
<1> QED
  BY <1>28, <1>29, <1>30, <1>31, <1>32, <1>33 DEF Next

\* IInv holds in every reachable state.
LEMMA IInvHolds == Spec => []IInv
  BY InitIInv, NextIInv, PTL DEF Spec

\* Every column, cursor and loop local keeps its type; a row is never retried
\* past MAX_TIMEOUT_RETRIES.
THEOREM TypeCorrect == Spec => []TypeOK
<1>1. IInv => TypeOK
  BY DEF IInv
<1> QED
  BY <1>1, IInvHolds, PTL

\* While no queue statement fails, at most one row is leased, and it is the row
\* the loop is dispatching.
THEOREM LeaseIsSingle == Spec => []SingleFlight
<1>1. IInv => SingleFlight
  BY DEF IInv
<1> QED
  BY <1>1, IInvHolds, PTL

\* A stimulus is dispatched once, plus once for each counted retry and once for
\* each reclaim, whatever crashes, failed writes and re-minted ids happen.
THEOREM DispatchesAreAccounted == Spec => []RunsAccounted
<1>1. IInv => RunsAccounted
  BY DEF IInv, RunsInv, RunsAccounted
<1> QED
  BY <1>1, IInvHolds, PTL

\* The timeout retry never repeats an outward action: only a boot's reclaim of
\* the interrupted wake can.
THEOREM OutwardIsAccounted == Spec => []OutwardAccounted
<1>1. IInv => OutwardAccounted
  BY DEF IInv, OutwardInv, OutwardAccounted
<1> QED
  BY <1>1, IInvHolds, PTL

\* A paused loop pops at most one stimulus, plus one for each failed read.
THEOREM PauseIsHeld == Spec => []PauseHolds
<1>1. IInv => PauseHolds
  BY DEF IInv, PauseInv, PauseHolds
<1> QED
  BY <1>1, IInvHolds, PTL

\* No step of the loop, the boot or the environment brings back a finished row.
THEOREM FinishedStays == Spec => FinishedForever
<1>1. ASSUME IInv, [Next]_vars
      PROVE  [\A i \in Ids : status[i] \in Terminal => status'[i] = status[i]]_vars
  <2> USE <1>1, IdsAssumption
      DEF IInv, LeaseInv, TypeOK, Terminal, Absent, InDispatch
  <2>1. CASE Boot
    BY <2>1 DEF Boot, Start, Reclaim, Greet, ReclaimOrphans, Store, store
  <2>2. CASE LoopTurn
    BY <2>2 DEF LoopTurn, Turn, LoopEnds, Shed, PopNothing, PopFails, Pop, DeleteRows,
                Stalest, LowPending, Pending, Poppable, SetStatus, store
  <2>3. CASE Dispatch
    BY <2>3 DEF Dispatch, Invoke, ActOutward, StepCompletes, Panic, DispatchReturns,
                StepFails, SpawnWorker, DeferBaton, Store, store
  <2>4. CASE SettleWake
    BY <2>4 DEF SettleWake, SettleDone, SettleRetry, SettleFailed, SetStatus, Reschedule,
                store
  <2>5. CASE Environment
    BY <2>5 DEF Environment, Arrive, Store, Tick, Pause, Resume, Crash, Signal,
                ProcessExits, store
  <2>6. CASE UNCHANGED vars
    BY <2>6 DEF vars
  <2> QED
    BY <2>1, <2>2, <2>3, <2>4, <2>5, <2>6 DEF Next
<1> QED
  BY <1>1, IInvHolds, PTL DEF Spec, FinishedForever
=============================================================================
