---------------------------- MODULE LifecycleProofs ----------------------------
(***************************************************************************)
(* ConsciousnessLoop implements StimulusLifecycle, for every set of stimuli,  *)
(* schedule and bound. Each action is shown to be the abstract one it stands  *)
(* for, or a stutter, from the inductive invariant of ConsciousnessLoopProofs: *)
(* LeaseInv says which row is running, MarkInv why a retry has had no effect. *)
(***************************************************************************)
EXTENDS ConsciousnessLoopProofs

Place == [i \in Ids |-> PlaceOf(i)]
Abstract == <<Place, attempts, wake.sent>>

\* A fresh store is a queue to which nothing was submitted.
LEMMA InitMaps == Init => Lifecycle!Init
  BY DEF Init, Lifecycle!Init, PlaceOf, NoWake

\* What is running is the dispatch in flight.
LEMMA RunningIsTheWake ==
  ASSUME IInv
  PROVE  /\ pc \in InDispatch => wake.id \in Ids /\ Lifecycle!Running = {wake.id}
         /\ pc \notin InDispatch => Lifecycle!Running = {} /\ wake.sent = FALSE
  BY IdsAssumption DEF IInv, LeaseInv, Lifecycle!Running, PlaceOf, InDispatch, NoWake,
     TypeOK, RowStatus, Absent, Terminal

\* Where a row is depends on nothing but its status and the wake in flight.
LEMMA Stutters ==
  ASSUME UNCHANGED <<status, attempts, wake>>, (pc \in InDispatch)' <=> pc \in InDispatch
  PROVE  UNCHANGED Abstract
  BY DEF Abstract, Place, PlaceOf

\* Storing a row is submitting it, or nothing.
LEMMA StoreSubmits ==
  ASSUME IInv, NEW i \in Ids, NEW h, Store(i, h),
         wake'.id = wake.id, wake'.sent = wake.sent, (pc \in InDispatch)' <=> pc \in InDispatch
  PROVE  Lifecycle!Submit(i) \/ UNCHANGED Abstract
<1>1. CASE status[i] \in Absent
  BY <1>1 DEF Store, Lifecycle!Submit, Lifecycle!Moves, Lifecycle!Unsubmitted, PlaceOf, Absent,
       IInv, TypeOK
<1>2. CASE status[i] \notin Absent
  BY <1>2 DEF Store, Abstract, Place, PlaceOf
<1> QED
  BY <1>1, <1>2

\* Every step of the loop is one of the queue's promise, or invisible to it.
LEMMA StepMaps ==
  ASSUME IInv, [Next]_vars
  PROVE  Lifecycle!Next \/ UNCHANGED Abstract
<1> USE DEF store, environment, history
<1>1. CASE Start \/ Turn \/ LoopEnds \/ PopNothing \/ PopFails
  BY <1>1, Stutters DEF Start, Turn, LoopEnds, PopNothing, PopFails, InDispatch,
     IInv, LeaseInv
<1>2. CASE Reclaim
  <2>1. CASE ReclaimOrphans
    BY <1>2, <2>1, RunningIsTheWake
       DEF Reclaim, ReclaimOrphans, Lifecycle!Next, Lifecycle!Recover, Lifecycle!Moves, PlaceOf, InDispatch,
           IInv, TypeOK, RowStatus, Absent, Terminal
  <2>2. CASE UNCHANGED <<store, reclaims>>
    BY <1>2, <2>2, Stutters DEF Reclaim, InDispatch
  <2> QED
    BY <1>2, <2>1, <2>2 DEF Reclaim
<1>3. CASE Greet
  BY <1>3, IdsAssumption, Stutters, StoreSubmits DEF Greet, InDispatch, Lifecycle!Next
<1>4. CASE Shed
  <2>1. PICK S \in SUBSET LowPending : DeleteRows(S)
    BY <1>4 DEF Shed
  <2>2. /\ S \in SUBSET {i \in Ids : PriorityRank[i] >= LowRank}
        /\ \A i \in S : status[i] = "pending"
    BY <2>1 DEF LowPending, Pending
  <2>3. Lifecycle!GiveUp(S)
    BY <1>4, <2>1, <2>2 DEF Shed, DeleteRows, Lifecycle!GiveUp, Lifecycle!Moves, PlaceOf, InDispatch,
       IInv, TypeOK, RowStatus, Absent, Terminal
  <2> QED
    BY <2>2, <2>3 DEF Lifecycle!Next
<1>5. ASSUME NEW i \in Ids, Pop(i) PROVE Lifecycle!Deliver(i)
  BY <1>5, RunningIsTheWake DEF Pop, SetStatus, Poppable, Pending, NoWake, Lifecycle!Deliver, Lifecycle!Moves, PlaceOf,
     InDispatch, IInv, TypeOK, LeaseInv
<1>6. CASE \/ \E s \in States : Invoke(s)
           \/ StepCompletes \/ Panic \/ DispatchReturns \/ SpawnWorker
           \/ \E v \in Verdicts : StepFails(v)
  <2>1. /\ UNCHANGED <<status, attempts>> /\ wake'.id = wake.id /\ wake'.sent = wake.sent
        /\ pc \in InDispatch /\ pc' \in InDispatch
    BY <1>6 DEF Invoke, StepCompletes, Panic, DispatchReturns, SpawnWorker, StepFails, InDispatch,
       IInv, TypeOK, Wake
  <2> QED
    BY <2>1 DEF Abstract, Place, PlaceOf
<1>7. CASE ActOutward
  BY <1>7, RunningIsTheWake DEF ActOutward, Lifecycle!Next, Lifecycle!Affect, PlaceOf, InDispatch, IInv, TypeOK, Wake
<1>8. ASSUME NEW d \in Deferred, DeferBaton(d) PROVE Lifecycle!Next \/ UNCHANGED Abstract
  <2>1. wake'.id = wake.id /\ wake'.sent = wake.sent /\ UNCHANGED pc
    BY <1>8 DEF DeferBaton, IInv, TypeOK, Wake
  <2>2. CASE Store(d, 0)
    BY <2>1, <2>2, IdsAssumption, StoreSubmits DEF Lifecycle!Next
  <2>3. CASE UNCHANGED <<store, runs>>
    BY <2>1, <2>3 DEF Abstract, Place, PlaceOf
  <2> QED
    BY <1>8, <2>2, <2>3 DEF DeferBaton
<1>9. CASE SettleDone \/ SettleFailed
  <2>1. /\ pc \in InDispatch /\ pc' \notin InDispatch /\ wake' = NoWake /\ UNCHANGED attempts
        /\ SetStatus(wake.id, "done") \/ SetStatus(wake.id, "failed") \/ UNCHANGED status
    BY <1>9 DEF SettleDone, SettleFailed, SetStatus, InDispatch
  <2>2. Lifecycle!Finish(wake.id) \/ Lifecycle!Interrupt(wake.id)
    BY <2>1 DEF SetStatus, Lifecycle!Finish, Lifecycle!Interrupt, Lifecycle!Moves, PlaceOf, NoWake,
       IInv, TypeOK, LeaseInv
  <2> QED
    BY <2>1, <2>2, RunningIsTheWake DEF Lifecycle!Next
<1>10. CASE SettleRetry
  <2>1. ~wake.sent /\ attempts[wake.id] < MaxTimeoutRetries
    BY <1>10 DEF SettleRetry, Retryable, IInv, MarkInv, LeaseInv, InDispatch
  <2>2. wake.sent = FALSE /\ wake'.sent = FALSE
    BY <1>10, <2>1 DEF SettleRetry, NoWake, IInv, TypeOK, Wake
  <2>3. attempts' = [attempts EXCEPT ![wake.id] = @ + 1]
    BY <1>10 DEF SettleRetry, Reschedule, IInv, TypeOK, LeaseInv, InDispatch
  <2>4. status' = [status EXCEPT ![wake.id] = "pending"] /\ status[wake.id] = "dispatched"
        /\ wake.id \in Ids /\ pc \in InDispatch /\ wake' = NoWake /\ pc' \notin InDispatch
    BY <1>10 DEF SettleRetry, Reschedule, IInv, LeaseInv, InDispatch
  <2>5. Lifecycle!Retry(wake.id)
    BY <2>1, <2>2, <2>3, <2>4 DEF Lifecycle!Retry, Lifecycle!Moves, PlaceOf, IInv, TypeOK
  <2> QED
    BY <2>4, <2>5 DEF Lifecycle!Next
<1>11. ASSUME NEW i \in Ids, Arrive(i) PROVE Lifecycle!Next \/ UNCHANGED Abstract
  BY <1>11, StoreSubmits DEF Arrive, Lifecycle!Next
<1>12. CASE Tick \/ Pause \/ Resume \/ Signal
  BY <1>12, Stutters DEF Tick, Pause, Resume, Signal
<1>13. CASE Crash \/ ProcessExits
  <2>1. pc' \notin InDispatch /\ wake' = NoWake /\ UNCHANGED <<status, attempts>>
    BY <1>13 DEF Crash, ProcessExits, InDispatch
  <2>2. CASE pc \in InDispatch
    <3>1. Lifecycle!Interrupt(wake.id)
      BY <2>1, <2>2 DEF Lifecycle!Interrupt, Lifecycle!Moves, PlaceOf, NoWake, IInv, TypeOK, LeaseInv
    <3> QED
      BY <2>2, <3>1, RunningIsTheWake DEF Lifecycle!Next
  <2>3. CASE pc \notin InDispatch
    BY <2>1, <2>3, Stutters DEF IInv, LeaseInv
  <2> QED
    BY <2>2, <2>3
<1>14. CASE UNCHANGED vars
  BY <1>14, Stutters DEF vars
<1> HIDE DEF store, environment, history
<1>15. CASE Boot
  BY <1>15, <1>1, <1>2, <1>3 DEF Boot
<1>16. CASE LoopTurn
  BY <1>16, <1>1, <1>4, <1>5 DEF LoopTurn, Lifecycle!Next
<1>17. CASE Dispatch
  BY <1>17, <1>6, <1>7, <1>8 DEF Dispatch
<1>18. CASE SettleWake
  BY <1>18, <1>9, <1>10 DEF SettleWake
<1>19. CASE Environment
  BY <1>19, <1>11, <1>12, <1>13 DEF Environment
<1> QED
  BY <1>14, <1>15, <1>16, <1>17, <1>18, <1>19 DEF Next

\* The loop, its queue and its boot implement the promise: stimuli are delivered one at a
\* time, interrupted deliveries are recovered, and only one without outward effects is
\* tried again.
THEOREM LifecycleIsKept == Spec => LifecycleKept
<1>1. IInv /\ [Next]_vars => [Lifecycle!Next]_Abstract
  BY StepMaps
<1> QED
  BY <1>1, InitMaps, IInvHolds, PTL DEF Spec, LifecycleKept, Lifecycle!Spec, Lifecycle!lifecycleVars,
     Abstract, Place
=============================================================================
