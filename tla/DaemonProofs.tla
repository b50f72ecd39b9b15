----------------------------- MODULE DaemonProofs -----------------------------
(***************************************************************************)
(* Proofs about Daemon, for every registry, policy, lattice and deployment:   *)
(* what the wall lets through is of a class the state may use, a wake that     *)
(* acted is not run again, privilege needs a clean walk, workers answer in     *)
(* containers of their own, and failing modules are paced.                  *)
(***************************************************************************)
EXTENDS Daemon, LatticeLemmas, FiniteSetTheorems, SequenceTheorems

-----------------------------------------------------------------------------
(* Prefixes and greatest elements.                                          *)

LEMMA PrefixIs ==
  ASSUME NEW S, NEW T, NEW p \in Seq(S), NEW q \in Seq(T)
  PROVE  IsPrefix(p, q) <=> Len(p) <= Len(q) /\ \A n \in 1 .. Len(p) : p[n] = q[n]
<1>1. Len(p) \in Nat /\ Len(q) \in Nat /\ SubSeq(p, 1, Len(p)) = [n \in 1 .. Len(p) |-> p[n]]
  OBVIOUS
<1>2. Len(p) <= Len(q) => SubSeq(q, 1, Len(p)) = [n \in 1 .. Len(p) |-> q[n]]
  OBVIOUS
<1> QED
  BY <1>1, <1>2 DEF IsPrefix

\* Two prefixes of one sequence are prefixes of one another.
LEMMA PrefixesMeet ==
  ASSUME NEW S, NEW T, NEW U, NEW p \in Seq(S), NEW r \in Seq(T), NEW q \in Seq(U),
         IsPrefix(p, q), IsPrefix(r, q)
  PROVE  IsPrefix(p, r) \/ IsPrefix(r, p)
<1>1. /\ Len(p) <= Len(q) /\ \A n \in 1 .. Len(p) : p[n] = q[n]
      /\ Len(r) <= Len(q) /\ \A n \in 1 .. Len(r) : r[n] = q[n]
  BY PrefixIs
<1>2. CASE Len(p) <= Len(r)
  BY <1>1, <1>2, PrefixIs
<1>3. CASE Len(r) <= Len(p)
  BY <1>1, <1>3, PrefixIs
<1> QED
  BY <1>2, <1>3

\* A set of numbers up to k that is not empty has a greatest.
LEMMA GreatestIs ==
  ASSUME NEW k \in Nat, NEW S \in SUBSET (1 .. k), S # {}
  PROVE  Max(S) \in S /\ \A n \in S : n <= Max(S)
<1> DEFINE D == {k - n : n \in S}
<1>1. D \in SUBSET Nat /\ D # {}
  <2>1. \A n \in S : k - n \in Nat
    OBVIOUS
  <2>2. PICK n \in S : TRUE
    OBVIOUS
  <2>3. k - n \in D
    OBVIOUS
  <2> QED
    BY <2>1, <2>3
<1> HIDE DEF D
<1>2. PICK m \in D : \A n \in D : m <= n
  BY <1>1, LeastNatural
<1>3. PICK x \in S : m = k - x
  BY <1>2 DEF D
<1>4. ASSUME NEW n \in S PROVE x >= n
  <2>1. k - n \in D
    BY DEF D
  <2>2. k - x <= k - n
    BY <1>2, <1>3, <2>1
  <2> QED
    BY <2>2
<1>5. \E y \in S : \A n \in S : y >= n
  BY <1>4
<1> QED
  BY <1>5 DEF Max

-----------------------------------------------------------------------------
(* The wall: what a name claims.                                            *)

\* The server of a registered name.
LEMMA ServerIs ==
  ASSUME NEW s \in Registered
  PROVE  /\ Server(s) \in McpServer /\ Server(s).name = s /\ Surface(Server(s)) \in Capabilities
         /\ \A n \in DOMAIN Registry : Registry[n].name = s => Registry[n] = Server(s)
<1> DEFINE m == CHOOSE n \in DOMAIN Registry : Registry[n].name = s
<1>1. m \in DOMAIN Registry /\ Registry[m].name = s /\ Server(s) = Registry[m]
  BY DEF Registered, Server
<1> HIDE DEF m
<1>2. Registry[m] \in McpServer
  BY <1>1, RegistryAssumption
<1>3. Surface(Server(s)) \in Capabilities
  BY <1>1 DEF Capabilities
<1>4. \A n \in DOMAIN Registry : Registry[n].name = s => n = m
  BY <1>1, RegistryAssumption
<1> QED
  BY <1>1, <1>2, <1>3, <1>4

\* What is on the ladder, rung by rung.
LEMMA LadderIs ==
  ASSUME NEW inlined, NEW c \in Ladder(inlined)
  PROVE  \/ \E p \in SettleTools : c = Open(1, p, "SettleTx")
         \/ \E p \in PostTools : c = Open(3, p, "Post")
         \/ \E n \in DOMAIN Registry : c = Surface(Registry[n])
         \/ \E s \in inlined : c = Open(6, <<"mcp", s>>, "Read")
BY DEF Ladder, Capabilities

LEMMA SurfaceIs ==
  ASSUME NEW s \in McpServer
  PROVE  /\ Surface(s).prefix = <<"mcp", s.name>> /\ Surface(s).class = s.tier
         /\ Surface(s).tools = s.tools /\ Surface(s).rung \in {2, 4, 5}
         /\ (s.tier = "SettleTx" => Surface(s).rung = 2)
         /\ (s.tier = "Post" => Surface(s).rung = 4)
         /\ (s.tier = "Read" => Surface(s).rung = 5)
BY DEF Surface, McpServer, CapabilityTier

LEMMA OpenIs ==
  ASSUME NEW rung, NEW p, NEW class
  PROVE  /\ Open(rung, p, class).prefix = p /\ Open(rung, p, class).class = class
         /\ Open(rung, p, class).tools = {} /\ Open(rung, p, class).rung = rung
BY DEF Open

LEMMA RungIs == ASSUME NEW inlined, NEW c \in Ladder(inlined) PROVE c.rung \in 1 .. 6
<1>1. \A n \in DOMAIN Registry : Registry[n] \in McpServer
  BY RegistryAssumption
<1>2. ASSUME NEW p, NEW k, c = Open(1, p, k) \/ c = Open(3, p, k) \/ c = Open(6, p, k)
      PROVE  c.rung \in 1 .. 6
  BY <1>2 DEF Open
<1>3. ASSUME NEW n \in DOMAIN Registry, c = Surface(Registry[n]) PROVE c.rung \in 1 .. 6
  <2>1. c.rung \in {2, 4, 5}
    BY <1>1, <1>3, SurfaceIs
  <2> QED
    BY <2>1
<1>4. CASE \E p \in SettleTools : c = Open(1, p, "SettleTx")
  BY <1>2, <1>4
<1>5. CASE \E p \in PostTools : c = Open(3, p, "Post")
  BY <1>2, <1>5
<1>6. CASE \E s \in inlined : c = Open(6, <<"mcp", s>>, "Read")
  BY <1>2, <1>6
<1>7. CASE \E n \in DOMAIN Registry : c = Surface(Registry[n])
  BY <1>3, <1>7
<1> QED
  BY <1>4, <1>5, <1>6, <1>7, LadderIs

\* Something is at the top of what is not empty.
LEMMA TopIs ==
  ASSUME NEW inlined, NEW S \in SUBSET Ladder(inlined), S # {}
  PROVE  Topmost(S) # {}
<1> DEFINE R == {c.rung : c \in S}
<1>1. R \in SUBSET Nat /\ R # {}
  BY RungIs
<1>2. PICK m \in R : \A n \in R : m <= n
  <2> HIDE DEF R
  <2> QED
    BY <1>1, LeastNatural
<1>3. PICK c \in S : c.rung = m
  BY <1>2
<1>4. \A d \in S : c.rung <= d.rung
  BY <1>2, <1>3
<1> QED
  BY <1>4 DEF Topmost

-----------------------------------------------------------------------------
(* The module supervisor.                                                   *)

\* The delay after n failures in a row is a number, and doubles with each.
LEMMA UncappedIs ==
  /\ Uncapped[0] = BackoffStart
  /\ \A n \in 0 .. MaxStreak : Uncapped[n] \in Nat /\ Uncapped[n] >= BackoffStart
  /\ \A n \in 0 .. MaxStreak : n < MaxStreak => Uncapped[n + 1] = 2 * Uncapped[n]
<1> DEFINE Solves(f, m) == f = [n \in 0 .. m |-> IF n = 0 THEN BackoffStart ELSE 2 * f[n - 1]]
           T == {m \in 0 .. MaxStreak : \E f : Solves(f, m)}
<1>0. MaxStreak \in Nat /\ BackoffStart \in Nat
  BY SupervisorAssumption
<1>1. 0 \in T
  <2>1. Solves([n \in 0 .. 0 |-> BackoffStart], 0)
    OBVIOUS
  <2> HIDE DEF Solves
  <2> QED
    BY <1>0, <2>1
<1>2. ASSUME NEW m \in 0 .. MaxStreak, m \in T, m < MaxStreak PROVE m + 1 \in T
  <2>1. PICK f : Solves(f, m)
    BY <1>2
  <2> DEFINE g == [n \in 0 .. m + 1 |-> IF n <= m THEN f[n] ELSE 2 * f[m]]
  <2>2. \A n \in 0 .. m + 1 : g[n] = IF n = 0 THEN BackoffStart ELSE 2 * g[n - 1]
    <3> TAKE n \in 0 .. m + 1
    <3>1. CASE n = m + 1
      BY <3>1
    <3>2. CASE n <= m
      <4>1. n \in 0 .. m
        BY <3>2
      <4>2. f[n] = IF n = 0 THEN BackoffStart ELSE 2 * f[n - 1]
        BY <2>1, <4>1
      <4> QED
        BY <3>2, <4>2
    <3> QED
      BY <3>1, <3>2
  <2>3. Solves(g, m + 1)
    BY <2>2
  <2>4. m + 1 \in 0 .. MaxStreak
    BY <1>0, <1>2
  <2> HIDE DEF g, Solves
  <2> QED
    BY <2>3, <2>4
<1>3. MaxStreak \in T
  <2> HIDE DEF T
  <2> QED
    BY <1>0, <1>1, <1>2, UpTo
<1>4. PICK f : Solves(f, MaxStreak)
  BY <1>3
<1>5. Solves(Uncapped, MaxStreak)
  <2>1. Uncapped = CHOOSE h : Solves(h, MaxStreak)
    BY DEF Uncapped
  <2> HIDE DEF Solves
  <2> QED
    BY <1>4, <2>1
<1> DEFINE U == {n \in 0 .. MaxStreak : Uncapped[n] \in Nat /\ Uncapped[n] >= BackoffStart}
<1>6. Uncapped[0] = BackoffStart
  BY <1>0, <1>5
<1>7. ASSUME NEW n \in 0 .. MaxStreak, n < MaxStreak PROVE Uncapped[n + 1] = 2 * Uncapped[n]
  BY <1>0, <1>5, <1>7
<1> HIDE DEF Solves
<1>8. 0 .. MaxStreak \subseteq U
  <2>1. 0 \in U
    BY <1>0, <1>6
  <2>2. ASSUME NEW n \in 0 .. MaxStreak, n \in U, n < MaxStreak PROVE n + 1 \in U
    BY <1>0, <1>7, <2>2
  <2> HIDE DEF U
  <2> QED
    BY <1>0, <2>1, <2>2, UpTo
<1> QED
  BY <1>6, <1>7, <1>8

Capped(delay) == IF delay > BackoffCap THEN BackoffCap ELSE delay

\* The delay of every task, asleep or not, is the one its failures call for.
Paced(task) ==
  /\ task.backoff = Capped(Uncapped[task.streak])
  /\ task.phase = "asleep" => task.streak < MaxStreak

SupervisorInv ==
  /\ SupervisorTypeOK
  /\ \A m \in DOMAIN tasks : Paced(tasks[m]) /\ (tasks[m].phase = "stopped" => shutdown)

\* Every step of a task changes the task alone; so it is enough to look at its new state.
LEMMA OneTask ==
  ASSUME SupervisorInv, NEW m \in DOMAIN tasks, NEW task, Becomes(m, task), UNCHANGED shutdown,
         task \in Task, Paced(task), task.phase = "stopped" => shutdown
  PROVE  SupervisorInv'
<1>1. /\ DOMAIN tasks' = DOMAIN tasks
      /\ \A n \in DOMAIN tasks : tasks'[n] = IF n = m THEN task ELSE tasks[n]
  BY DEF Becomes
<1>2. SupervisorTypeOK'
  BY <1>1 DEF SupervisorInv, SupervisorTypeOK
<1>3. \A n \in DOMAIN tasks' :
        Paced(tasks'[n]) /\ (tasks'[n].phase = "stopped" => shutdown')
  BY <1>1 DEF SupervisorInv
<1>4. (\A n \in DOMAIN tasks : Paced(tasks[n]) /\ (tasks[n].phase = "stopped" => shutdown))'
  BY <1>3 DEF Paced, Capped
<1> QED
  BY <1>2, <1>4 DEF SupervisorInv

LEMMA FreshIsPaced == FreshTask \in Task /\ Paced(FreshTask) /\ FreshTask.phase = "check"
<1>1. FreshTask \in Task
  BY SupervisorAssumption DEF FreshTask, Task
<1> QED
  BY <1>1, UncappedIs, SupervisorAssumption DEF FreshTask, Paced, Capped

LEMMA SupervisorBegins == ASSUME Init PROVE SupervisorInv
<1>1. deployment.modules \subseteq Modules
  BY DeploymentsAssumption DEF Init
<1> QED
  BY <1>1, FreshIsPaced DEF Init, SupervisorInit, SupervisorInv, SupervisorTypeOK

LEMMA SupervisorStepInv == ASSUME SupervisorInv, SupervisorStep PROVE SupervisorInv'
<1>1. CASE Signal
  <2>1. shutdown' = TRUE /\ tasks' = tasks
    BY <1>1 DEF Signal
  <2> QED
    BY <2>1 DEF SupervisorInv, SupervisorTypeOK, Paced, Capped
<1>2. ASSUME NEW m \in DOMAIN tasks,
             Check(m) \/ Spawned(m) \/ SpawnFails(m) \/ Exits(m) \/ Stops(m) \/ SleepEnds(m)
               \/ Elapses(m)
      PROVE  SupervisorInv'
  <2>0. /\ tasks[m] \in Task /\ Paced(tasks[m]) /\ shutdown \in BOOLEAN
        /\ BackoffStart \in Nat /\ BackoffCap \in Nat /\ BackoffStart <= BackoffCap
        /\ MaxStreak \in Nat /\ HealthyUptime \in Nat
    BY SupervisorAssumption DEF SupervisorInv, SupervisorTypeOK
  <2> DEFINE Fine(task) ==
        task \in Task /\ Paced(task) /\ (task.phase = "stopped" => shutdown)
  <2>1. SUFFICES \E task : Becomes(m, task) /\ UNCHANGED shutdown /\ Fine(task)
    BY OneTask
  <2>2. CASE Check(m)
    <3> DEFINE task == [tasks[m] EXCEPT !.phase = IF shutdown THEN "stopped" ELSE "secrets"]
    <3>1. Becomes(m, task) /\ UNCHANGED shutdown
      BY <2>2 DEF Check
    <3>2. Fine(task)
      BY <2>0 DEF Task, Paced
    <3> QED
      BY <3>1, <3>2
  <2>3. CASE Spawned(m)
    <3> DEFINE task == [tasks[m] EXCEPT !.phase = "running", !.timer = 0]
    <3>1. Becomes(m, task) /\ UNCHANGED shutdown
      BY <2>3 DEF Spawned
    <3>2. Fine(task)
      BY <2>0 DEF Task, Paced
    <3> QED
      BY <3>1, <3>2
  <2>4. ASSUME NEW uptime \in Nat, AfterRun(m, uptime), UNCHANGED shutdown,
               tasks[m].streak < MaxStreak
        PROVE  \E task : Becomes(m, task) /\ UNCHANGED shutdown /\ Fine(task)
    <3> DEFINE backoff == IF Resets(uptime) THEN BackoffStart ELSE tasks[m].backoff
               streak == IF uptime >= HealthyUptime THEN 0 ELSE tasks[m].streak
               task == [phase |-> IF shutdown THEN "stopped" ELSE "asleep",
                        backoff |-> backoff, timer |-> 0, streak |-> streak]
    <3>1. Becomes(m, task)
      BY <2>4 DEF AfterRun
    <3>2. /\ backoff \in BackoffStart .. BackoffCap /\ streak \in 0 .. MaxStreak
          /\ streak < MaxStreak /\ backoff = Capped(Uncapped[streak])
      BY <2>0, <2>4, UncappedIs DEF Task, Paced, Resets, Capped
    <3> HIDE DEF backoff, streak
    <3>3. Fine(task)
      BY <2>0, <3>2 DEF Task, Paced
    <3> QED
      BY <2>4, <3>1, <3>3
  <2>5. CASE SpawnFails(m)
    <3>1. 0 \in Nat /\ AfterRun(m, 0) /\ UNCHANGED shutdown /\ tasks[m].streak < MaxStreak
      BY <2>5 DEF SpawnFails
    <3> QED
      BY <2>4, <3>1
  <2>6. CASE Exits(m)
    <3>1. /\ tasks[m].timer \in Nat /\ AfterRun(m, tasks[m].timer)
          /\ UNCHANGED shutdown /\ tasks[m].streak < MaxStreak
      BY <2>0, <2>6 DEF Exits, Task
    <3> QED
      BY <2>4, <3>1
  <2>7. CASE Stops(m)
    <3> DEFINE task == [tasks[m] EXCEPT !.phase = "stopped"]
    <3>1. Becomes(m, task) /\ UNCHANGED shutdown /\ shutdown
      BY <2>7 DEF Stops
    <3>2. Fine(task)
      BY <2>0, <3>1 DEF Task, Paced
    <3> QED
      BY <3>1, <3>2
  <2>8. CASE SleepEnds(m)
    <3> DEFINE task == [phase |-> "check", backoff |-> Doubled(tasks[m].backoff), timer |-> 0,
                        streak |-> tasks[m].streak + 1]
    <3>1. Becomes(m, task) /\ UNCHANGED shutdown /\ tasks[m].phase = "asleep"
      BY <2>8 DEF SleepEnds
    <3>2. /\ tasks[m].streak \in 0 .. MaxStreak /\ tasks[m].streak < MaxStreak
          /\ tasks[m].backoff = Capped(Uncapped[tasks[m].streak])
          /\ Uncapped[tasks[m].streak + 1] = 2 * Uncapped[tasks[m].streak]
          /\ Uncapped[tasks[m].streak] \in Nat /\ Uncapped[tasks[m].streak] >= BackoffStart
      BY <2>0, <3>1, UncappedIs DEF Task, Paced
    <3>3. /\ Doubled(tasks[m].backoff) = Capped(Uncapped[tasks[m].streak + 1])
          /\ Doubled(tasks[m].backoff) \in BackoffStart .. BackoffCap
      BY <2>0, <3>2 DEF Doubled, Capped
    <3>4. tasks[m].streak + 1 \in 0 .. MaxStreak
      BY <2>0, <3>2
    <3>5. Fine(task)
      BY <2>0, <3>3, <3>4 DEF Task, Paced
    <3> QED
      BY <3>1, <3>5
  <2>9. CASE Elapses(m)
    <3> DEFINE task == [tasks[m] EXCEPT !.timer = @ + 1]
    <3>1. Becomes(m, task) /\ UNCHANGED shutdown /\ tasks[m].phase # "stopped"
      BY <2>9 DEF Elapses
    <3>2. Fine(task)
      BY <2>0, <3>1 DEF Task, Paced
    <3> QED
      BY <3>1, <3>2
  <2> HIDE DEF Fine
  <2> QED
    BY <1>2, <2>2, <2>3, <2>5, <2>6, <2>7, <2>8, <2>9
<1> QED
  BY <1>1, <1>2 DEF SupervisorStep

LEMMA SupervisorNext == ASSUME SupervisorInv, [Next]_vars PROVE SupervisorInv'
<1>1. SupervisorStep \/ UNCHANGED supervisorVars
  BY DEF Next, vars, MainReturns
<1>2. CASE UNCHANGED supervisorVars
  BY <1>2 DEF SupervisorInv, SupervisorTypeOK, supervisorVars, Paced, Capped
<1> QED
  BY <1>1, <1>2, SupervisorStepInv

\* A module that keeps failing is restarted after delays that double up to the cap, and
\* it is given up on shutdown only: for every list of modules, delay, cap and uptime.
THEOREM ModulesArePaced == Spec => []RestartsPaced
<1>1. Init => SupervisorInv
  BY SupervisorBegins
<1>2. SupervisorInv /\ [Next]_vars => SupervisorInv'
  BY SupervisorNext
<1>3. SupervisorInv => RestartsPaced
  BY DEF SupervisorInv, RestartsPaced, Paced, Capped
<1> QED
  BY <1>1, <1>2, <1>3, PTL DEF Spec

-----------------------------------------------------------------------------
(* The workers.                                                             *)

\* A run's name is made with a count that was not used before; so no two are alike.
Started == {i \in DOMAIN workers : workers[i].phase # "launched"}
Named(w) ==
  \E t \in 0 .. MaxTime, n \in 0 .. MaxWorkers :
    n < sequence /\ w.run = RunName[<<w.agent.id, t, n>>]
RunsOK ==
  /\ sequence <= Cardinality(Started)
  /\ \A i \in DOMAIN workers :
       LET w == workers[i]
       IN /\ w.run # "" => Named(w)
          /\ w.phase = "launched" => w.run = ""
          /\ w.phase = "running" => w.docker = Isolated(w.agent)
          /\ w.phase \in {"running", "ended"} => w.run # ""
  /\ \A i, j \in DOMAIN workers :
       workers[i].run = workers[j].run /\ workers[i].run # "" => i = j

\* The containers that are up are those of workers that ran in one and did not yet reap it.
ContainersOK ==
  /\ \A c \in containers : \E i \in DOMAIN workers :
       /\ workers[i].docker /\ workers[i].phase \in {"running", "ended"}
       /\ c = Container(workers[i])
  /\ \A i \in DOMAIN workers :
       workers[i].docker /\ workers[i].phase = "running" => Container(workers[i]) \in containers

WorkersInv ==
  /\ WorkersTypeOK /\ accidents \in 0 .. MaxAccidents
  /\ RunsOK /\ ContainersOK /\ Completes /\ refused = FALSE
  /\ deployment \in Deployments /\ (BootRefused => ~up /\ workers = <<>>)

LEMMA WorkersBegin == ASSUME Init PROVE WorkersInv
<1>1. /\ workers = <<>> /\ sequence = 0 /\ clock = 0 /\ containers = {} /\ refused = FALSE
      /\ accidents = 0 /\ up = ~BootRefused /\ sandbox \in Sandbox
  BY DeploymentsAssumption DEF Init, WorkersInit
<1>2. MaxWorkers \in Nat /\ MaxTime \in Nat /\ MaxAccidents \in Nat
  BY WorkersAssumption, AccidentsAssumption
<1>3. workers \in Seq(Worker) /\ Len(workers) = 0 /\ DOMAIN workers = {}
  BY <1>1, EmptySeq
<1>4. WorkersTypeOK /\ accidents \in 0 .. MaxAccidents
  <2>1. /\ clock \in 0 .. MaxTime /\ Len(workers) <= MaxWorkers /\ sequence \in 0 .. MaxWorkers
        /\ accidents \in 0 .. MaxAccidents
    BY <1>1, <1>2, <1>3
  <2>2. refused \in BOOLEAN
    BY <1>1
  <2> QED
    BY <1>1, <1>3, <2>1, <2>2 DEF WorkersTypeOK
<1>5. Started = {}
  BY <1>3 DEF Started
<1>6. RunsOK
  BY <1>1, <1>3, <1>5, FS_EmptySet DEF RunsOK
<1>7. ContainersOK /\ Completes
  BY <1>1, <1>3 DEF ContainersOK, Completes
<1>8. deployment \in Deployments /\ (BootRefused => ~up /\ workers = <<>>)
  BY <1>1 DEF Init
<1> QED
  BY <1>1, <1>4, <1>6, <1>7, <1>8 DEF WorkersInv

\* The workers that started are finitely many, and no more than were launched.
LEMMA FewStarted ==
  ASSUME WorkersTypeOK
  PROVE  /\ IsFiniteSet(Started) /\ Cardinality(Started) \in Nat
         /\ Cardinality(Started) <= Len(workers)
         /\ \A i \in DOMAIN workers : i \notin Started => Cardinality(Started) + 1 <= Len(workers)
         /\ \A i \in DOMAIN workers :
              Cardinality(Started \cup {i})
                = IF i \in Started THEN Cardinality(Started) ELSE Cardinality(Started) + 1
<1> DEFINE D == DOMAIN workers
<1>1. Len(workers) \in Nat /\ D = 1 .. Len(workers)
  BY DEF WorkersTypeOK
<1>2. IsFiniteSet(D) /\ Cardinality(D) = Len(workers)
  <2> HIDE DEF D
  <2>1. /\ IsFiniteSet(1 .. Len(workers))
        /\ Cardinality(1 .. Len(workers)) = IF 1 > Len(workers) THEN 0 ELSE Len(workers) - 1 + 1
    BY <1>1, FS_Interval
  <2> QED
    BY <1>1, <2>1
<1>3. Started \in SUBSET D
  BY DEF Started
<1> HIDE DEF D
<1>4. \A S \in SUBSET D :
        IsFiniteSet(S) /\ Cardinality(S) \in Nat /\ Cardinality(S) <= Len(workers)
  BY <1>2, FS_Subset, FS_CardinalityType
<1>5. ASSUME NEW i \in D
      PROVE  /\ Cardinality(Started \cup {i})
                  = IF i \in Started THEN Cardinality(Started) ELSE Cardinality(Started) + 1
             /\ Cardinality(Started \cup {i}) <= Len(workers)
  <2>1. Started \cup {i} \in SUBSET D
    BY <1>3
  <2> QED
    BY <1>3, <1>4, <2>1, FS_AddElement
<1> QED
  BY <1>3, <1>4, <1>5 DEF D

LEMMA SameContainer ==
  ASSUME NEW v, NEW w, v.run = w.run, v.agent = w.agent
  PROVE  Container(v) = Container(w)
BY DEF Container, Workspace

\* A step of worker i makes it w. What a run is called stays, or is made with the count.
Counted(i) == workers[i].phase = "launched" /\ sequence' = sequence + 1
Moves(i, w) ==
  /\ workers' = [workers EXCEPT ![i] = w]
  /\ UNCHANGED <<sandbox, clock>>
  /\ refused' \in BOOLEAN
  /\ sequence' = sequence \/ Counted(i)
  /\ w.agent = workers[i].agent /\ w.phase # "launched"
  /\ \/ w.run = workers[i].run
     \/ Counted(i) /\ w.run = RunName[<<w.agent.id, clock, sequence>>]
  /\ w.phase = "running" => w.docker = Isolated(w.agent)
  /\ w.phase \in {"running", "ended"} => w.run # ""

LEMMA OneWorker ==
  ASSUME WorkersInv, NEW i \in DOMAIN workers, NEW w \in Worker, Moves(i, w)
  PROVE  /\ DOMAIN workers' = DOMAIN workers
         /\ \A j \in DOMAIN workers : workers'[j] = IF j = i THEN w ELSE workers[j]
         /\ WorkersTypeOK' /\ RunsOK'
<1>1. /\ DOMAIN workers' = DOMAIN workers /\ Len(workers') = Len(workers)
      /\ \A j \in DOMAIN workers : workers'[j] = IF j = i THEN w ELSE workers[j]
      /\ workers' \in Seq(Worker)
  <2>1. workers \in Seq(Worker) /\ workers' = [workers EXCEPT ![i] = w]
    BY DEF WorkersInv, WorkersTypeOK, Moves
  <2> QED
    BY <2>1
<1>2. /\ Len(workers) \in Nat /\ Len(workers) <= MaxWorkers /\ MaxWorkers \in Nat
      /\ sequence \in 0 .. MaxWorkers /\ sequence <= Cardinality(Started)
  <2>1. MaxWorkers \in Nat
    BY WorkersAssumption
  <2>2. /\ workers \in Seq(Worker) /\ Len(workers) <= MaxWorkers
        /\ sequence \in 0 .. MaxWorkers
    BY DEF WorkersInv, WorkersTypeOK
  <2>3. sequence <= Cardinality(Started)
    BY DEF WorkersInv, RunsOK
  <2> QED
    BY <2>1, <2>2, <2>3
<1>3. Started' = Started \cup {i} /\ (workers[i].phase = "launched" => i \notin Started)
  <2>1. w.phase # "launched"
    BY DEF Moves
  <2> QED
    BY <1>1, <2>1 DEF Started
<1> DEFINE started == Cardinality(Started)
<1>4. /\ started \in Nat /\ started <= Len(workers) /\ (i \notin Started => started + 1 <= Len(workers))
      /\ Cardinality(Started') = IF i \in Started THEN started ELSE started + 1
  BY <1>3, FewStarted DEF WorkersInv
<1>5. sequence' \in 0 .. MaxWorkers /\ sequence' >= sequence /\ sequence' <= Cardinality(Started')
  <2> HIDE DEF started
  <2>1. sequence <= started
    BY <1>2 DEF started
  <2>2. sequence' = sequence \/ (i \notin Started /\ sequence' = sequence + 1)
    BY <1>3 DEF Moves, Counted
  <2> QED
    BY <1>2, <1>4, <2>1, <2>2
<1>6. WorkersTypeOK'
  <2>1. sandbox' = sandbox /\ clock' = clock /\ refused' \in BOOLEAN
    BY DEF Moves
  <2>2. sandbox \in Sandbox /\ clock \in 0 .. MaxTime
    BY DEF WorkersInv, WorkersTypeOK
  <2>3. workers' \in Seq(Worker) /\ Len(workers') <= MaxWorkers
    BY <1>1, <1>2
  <2> QED
    BY <1>5, <2>1, <2>2, <2>3 DEF WorkersTypeOK
<1>7. ASSUME NEW j \in DOMAIN workers
      PROVE  /\ workers[j].run # "" =>
                  \E t \in 0 .. MaxTime, n \in 0 .. MaxWorkers :
                    n < sequence /\ workers[j].run = RunName[<<workers[j].agent.id, t, n>>]
             /\ workers[j].phase = "launched" => workers[j].run = ""
             /\ workers[j].phase = "running" => workers[j].docker = Isolated(workers[j].agent)
             /\ workers[j].phase \in {"running", "ended"} => workers[j].run # ""
             /\ workers[j].agent.id \in Ids
  <2>1. workers[j] \in Worker
    BY DEF WorkersInv, WorkersTypeOK
  <2>2. workers[j].agent.id \in Ids
    BY <2>1 DEF Worker, Ids
  <2> QED
    BY <2>2 DEF WorkersInv, RunsOK, Named
<1>8. ASSUME NEW j \in DOMAIN workers, workers[j].run # "", sequence < MaxWorkers
      PROVE  \A id \in Ids, t \in 0 .. MaxTime : RunName[<<id, t, sequence>>] # workers[j].run
  <2>1. PICK t \in 0 .. MaxTime, n \in 0 .. MaxWorkers :
          n < sequence /\ workers[j].run = RunName[<<workers[j].agent.id, t, n>>]
    BY <1>7, <1>8
  <2> TAKE id \in Ids, u \in 0 .. MaxTime
  <2> DEFINE x == <<workers[j].agent.id, t, n>>
             y == <<id, u, sequence>>
  <2>2. x \in DOMAIN RunName /\ y \in DOMAIN RunName
    BY <1>2, <1>7, RunNameAssumption
  <2>3. x[3] = n /\ y[3] = sequence /\ n # sequence
    BY <1>2, <2>1
  <2> HIDE DEF x, y
  <2>4. RunName[x] # RunName[y]
    BY <2>2, <2>3, RunNameAssumption
  <2> QED
    BY <2>1, <2>4 DEF x, y
<1>9. \/ w.run = workers[i].run
      \/ /\ sequence < MaxWorkers /\ sequence' = sequence + 1 /\ w.agent.id \in Ids
         /\ clock \in 0 .. MaxTime /\ w.run = RunName[<<w.agent.id, clock, sequence>>]
         /\ \A j \in DOMAIN workers : workers[j].run # "" => workers[j].run # w.run
  <2>1. SUFFICES ASSUME w.run # workers[i].run PROVE \/ w.run = workers[i].run
      \/ /\ sequence < MaxWorkers /\ sequence' = sequence + 1 /\ w.agent.id \in Ids
         /\ clock \in 0 .. MaxTime /\ w.run = RunName[<<w.agent.id, clock, sequence>>]
         /\ \A j \in DOMAIN workers : workers[j].run # "" => workers[j].run # w.run
    OBVIOUS
  <2>2. /\ workers[i].phase = "launched" /\ sequence' = sequence + 1
        /\ w.run = RunName[<<w.agent.id, clock, sequence>>]
        /\ w.agent = workers[i].agent
    BY <2>1 DEF Moves, Counted
  <2>3. sequence < MaxWorkers /\ w.agent.id \in Ids
    <3>1. w.agent.id \in Ids
      BY <1>7, <2>2
    <3>2. i \notin Started
      BY <1>3, <2>2
    <3>3. sequence <= started
      BY <1>2
    <3> HIDE DEF started
    <3>4. sequence < MaxWorkers
      BY <1>2, <1>4, <3>2, <3>3
    <3> QED
      BY <3>1, <3>4
  <2>4. clock \in 0 .. MaxTime
    BY DEF WorkersInv, WorkersTypeOK
  <2> QED
    BY <1>8, <2>2, <2>3, <2>4
<1>10. ASSUME NEW j \in DOMAIN workers, workers'[j].run # ""
       PROVE  \E t \in 0 .. MaxTime, n \in 0 .. MaxWorkers :
                n < sequence' /\ workers'[j].run = RunName[<<workers'[j].agent.id, t, n>>]
  <2>0. w.agent = workers[i].agent
    BY DEF Moves
  <2>1. CASE j # i \/ w.run = workers[i].run
    <3>1. workers'[j].run = workers[j].run /\ workers'[j].agent = workers[j].agent
      BY <1>1, <2>0, <2>1
    <3>2. PICK t \in 0 .. MaxTime, n \in 0 .. MaxWorkers :
            n < sequence /\ workers[j].run = RunName[<<workers[j].agent.id, t, n>>]
      BY <1>7, <1>10, <3>1
    <3>3. n < sequence'
      BY <1>2, <1>5, <3>2
    <3> QED
      BY <3>1, <3>2, <3>3
  <2>2. CASE j = i /\ w.run # workers[i].run
    <3>1. workers'[j] = w
      BY <1>1, <2>2
    <3>2. /\ sequence \in 0 .. MaxWorkers /\ sequence < sequence' /\ clock \in 0 .. MaxTime
          /\ w.run = RunName[<<w.agent.id, clock, sequence>>]
      <4>1. /\ sequence' = sequence + 1 /\ clock \in 0 .. MaxTime
            /\ w.run = RunName[<<w.agent.id, clock, sequence>>]
        BY <1>9, <2>2
      <4> QED
        BY <1>2, <4>1
    <3> QED
      BY <3>1, <3>2
  <2> QED
    BY <2>1, <2>2
<1>11. ASSUME NEW j \in DOMAIN workers
       PROVE  /\ workers'[j].phase = "launched" => workers'[j].run = ""
              /\ workers'[j].phase = "running" => workers'[j].docker = Isolated(workers'[j].agent)
              /\ workers'[j].phase \in {"running", "ended"} => workers'[j].run # ""
  <2>1. /\ w.phase # "launched"
        /\ w.phase = "running" => w.docker = Isolated(w.agent)
        /\ w.phase \in {"running", "ended"} => w.run # ""
    BY DEF Moves
  <2> QED
    BY <1>1, <1>7, <2>1
<1>12. \A a : Isolated(a)' = Isolated(a)
  <2>1. sandbox' = sandbox
    BY DEF Moves
  <2> QED
    BY <2>1 DEF Isolated, HasBackend
<1>13. ASSUME NEW j \in DOMAIN workers, NEW k \in DOMAIN workers,
              workers'[j].run = workers'[k].run, workers'[j].run # ""
       PROVE  j = k
  <2>1. \A m, n \in DOMAIN workers :
          workers[m].run = workers[n].run /\ workers[m].run # "" => m = n
    BY DEF WorkersInv, RunsOK
  <2> QED
    BY <1>1, <1>9, <1>13, <2>1
<1>14. RunsOK'
  <2>1. ASSUME NEW j \in DOMAIN workers', workers'[j].run # "" PROVE Named(workers[j])'
    BY <1>1, <1>10, <2>1 DEF Named
  <2>2. ASSUME NEW j \in DOMAIN workers'
        PROVE  workers'[j].phase = "running" => workers'[j].docker = Isolated(workers[j].agent)'
    BY <1>1, <1>11, <1>12, <2>2 DEF Isolated, HasBackend
  <2> QED
    BY <1>1, <1>5, <1>11, <1>13, <2>1, <2>2 DEF RunsOK
<1> QED
  BY <1>1, <1>6, <1>14

\* What is left of the containers is still accounted for.
LEMMA ContainersStep ==
  ASSUME WorkersInv, NEW i \in DOMAIN workers, NEW w \in Worker, Moves(i, w),
         \A c \in containers' \ containers : c = Container(w) /\ w.docker /\ w.phase = "running",
         \A c \in containers \ containers' : c.name = workers[i].run,
         w.docker /\ w.phase = "running" => Container(w) \in containers',
         workers[i].docker /\ Container(workers[i]) \in containers'
           /\ workers[i].phase \in {"running", "ended"}
           => w.docker /\ w.phase \in {"running", "ended"} /\ w.run = workers[i].run
  PROVE  ContainersOK'
<1>0. w.agent = workers[i].agent
  BY DEF Moves
<1>1. /\ DOMAIN workers' = DOMAIN workers
      /\ \A j \in DOMAIN workers : workers'[j] = IF j = i THEN w ELSE workers[j]
  BY OneWorker
<1>2. ASSUME NEW c \in containers'
      PROVE  \E j \in DOMAIN workers :
               /\ workers'[j].docker /\ workers'[j].phase \in {"running", "ended"}
               /\ c = Container(workers'[j])
  <2>1. CASE c \in containers
    <3>1. PICK j \in DOMAIN workers :
            /\ workers[j].docker /\ workers[j].phase \in {"running", "ended"}
            /\ c = Container(workers[j])
      BY <2>1 DEF WorkersInv, ContainersOK
    <3>2. CASE j # i
      BY <1>1, <3>1, <3>2
    <3>3. CASE j = i
      <4>1. w.docker /\ w.phase \in {"running", "ended"} /\ w.run = workers[i].run
        BY <1>2, <3>1, <3>3
      <4>2. Container(w) = Container(workers[i])
        BY <1>0, <4>1, SameContainer
      <4> QED
        BY <1>1, <3>1, <3>3, <4>1, <4>2
    <3> QED
      BY <3>2, <3>3
  <2>2. CASE c \notin containers
    BY <1>1, <1>2, <2>2
  <2> QED
    BY <2>1, <2>2
<1>3. ASSUME NEW j \in DOMAIN workers, workers'[j].docker, workers'[j].phase = "running"
      PROVE  Container(workers'[j]) \in containers'
  <2>1. CASE j = i
    BY <1>1, <1>3, <2>1
  <2>2. CASE j # i
    <3>1. workers'[j] = workers[j]
      BY <1>1, <2>2
    <3>2. Container(workers[j]) \in containers
      BY <1>3, <3>1 DEF WorkersInv, ContainersOK
    <3>3. workers[j].run # workers[i].run
      BY <1>3, <2>2, <3>1 DEF WorkersInv, RunsOK
    <3>4. Container(workers[j]).name = workers[j].run
      BY DEF Container
    <3> QED
      BY <3>1, <3>2, <3>3, <3>4
  <2> QED
    BY <2>1, <2>2
<1>4. \A j \in DOMAIN workers : Container(workers[j])' = Container(workers'[j])
  BY DEF Container, Workspace, Volumes
<1> HIDE DEF Container
<1> QED
  BY <1>1, <1>2, <1>3, <1>4 DEF ContainersOK

\* A completion row stays, and one is stored by every worker that goes.
LEMMA CompletesStep ==
  ASSUME WorkersInv, NEW i \in DOMAIN workers, NEW w \in Worker, Moves(i, w),
         reports \subseteq reports', accidents' = 0 => accidents = 0,
         w.phase = "gone" /\ accidents' = 0 => <<w.agent.id, w.at>> \in reports'
  PROVE  Completes'
<1>1. /\ DOMAIN workers' = DOMAIN workers
      /\ \A j \in DOMAIN workers : workers'[j] = IF j = i THEN w ELSE workers[j]
  BY OneWorker
<1>2. accidents = 0 => \A j \in DOMAIN workers :
        workers[j].phase = "gone" => <<workers[j].agent.id, workers[j].at>> \in reports
  BY DEF WorkersInv, Completes
<1> QED
  BY <1>1, <1>2 DEF Completes

\* What every step of a worker but its calls does.
Takes(i, w) ==
  /\ w \in Worker /\ Moves(i, w) /\ refused' = refused /\ reports \subseteq reports'
  /\ w.phase = "gone" /\ accidents' = 0 => <<w.agent.id, w.at>> \in reports'
  /\ \A c \in containers' \ containers : c = Container(w) /\ w.docker /\ w.phase = "running"
  /\ \A c \in containers \ containers' : c.name = workers[i].run
  /\ w.docker /\ w.phase = "running" => Container(w) \in containers'
  /\ workers[i].docker /\ Container(workers[i]) \in containers'
       /\ workers[i].phase \in {"running", "ended"}
       => w.docker /\ w.phase \in {"running", "ended"} /\ w.run = workers[i].run

\* An accident counts, whatever it is.
Counts == accidents' \in 0 .. MaxAccidents /\ (accidents' = 0 => accidents = 0)
LEMMA AccidentCounts ==
  ASSUME accidents \in 0 .. MaxAccidents, Accident \/ UNCHANGED accidents
  PROVE  Counts /\ (Accident => accidents' # 0)
BY AccidentsAssumption DEF Counts, Accident

LEMMA TakesInv ==
  ASSUME WorkersInv, NEW i \in DOMAIN workers, NEW w, Takes(i, w), Counts,
         UNCHANGED <<deployment, up>>
  PROVE  WorkersInv'
<1>1. w \in Worker /\ Moves(i, w) /\ refused' = refused
  BY DEF Takes
<1>2. WorkersTypeOK' /\ RunsOK'
  BY <1>1, OneWorker
<1>3. ContainersOK'
  BY <1>1, ContainersStep DEF Takes
<1>4. Completes'
  BY <1>1, CompletesStep DEF Takes, Counts
<1>5. BootRefused' = BootRefused
  BY <1>1 DEF Moves, BootRefused
<1>6. ~BootRefused
  <2>1. DOMAIN <<>> = {}
    OBVIOUS
  <2> QED
    BY <2>1 DEF WorkersInv
<1> QED
  BY <1>1, <1>2, <1>3, <1>4, <1>5, <1>6 DEF WorkersInv, Counts

LEMMA UnresolvedTakes ==
  ASSUME WorkersInv, NEW i \in DOMAIN workers, Unresolved(i)
  PROVE  Takes(i, Reporting(workers[i])) /\ Counts
<1>1. workers[i] \in Worker /\ clock \in 0 .. MaxTime
  BY DEF WorkersInv, WorkersTypeOK
<1>2. workers[i].phase = "launched" /\ workers' = [workers EXCEPT ![i] = Reporting(workers[i])]
  BY DEF Unresolved
<1> DEFINE w == Reporting(workers[i])
<1>3. /\ w \in Worker /\ w.agent = workers[i].agent /\ w.run = workers[i].run
      /\ w.phase = "reporting" /\ w.docker = workers[i].docker
  BY <1>1 DEF Reporting, Worker
<1>4. refused' = refused /\ refused = FALSE
  BY DEF Unresolved, WorkersInv
<1> HIDE DEF w
<1>5. Moves(i, w)
  BY <1>2, <1>3, <1>4 DEF Moves, Unresolved, w
<1>6. Takes(i, w)
  BY <1>2, <1>3, <1>4, <1>5 DEF Takes, Unresolved
<1> QED
  BY <1>6, AccidentCounts DEF w, Unresolved, WorkersInv

LEMMA NoWorkspaceTakes ==
  ASSUME WorkersInv, NEW i \in DOMAIN workers, NoWorkspace(i)
  PROVE  Takes(i, Reporting(workers[i])) /\ Counts
<1>1. workers[i] \in Worker /\ clock \in 0 .. MaxTime
  BY DEF WorkersInv, WorkersTypeOK
<1>2. workers[i].phase = "launched" /\ workers' = [workers EXCEPT ![i] = Reporting(workers[i])]
  BY DEF NoWorkspace
<1> DEFINE w == Reporting(workers[i])
<1>3. /\ w \in Worker /\ w.agent = workers[i].agent /\ w.run = workers[i].run
      /\ w.phase = "reporting" /\ w.docker = workers[i].docker
  BY <1>1 DEF Reporting, Worker
<1>4. refused' = refused /\ refused = FALSE
  BY DEF NoWorkspace, WorkersInv
<1> HIDE DEF w
<1>5. Moves(i, w)
  BY <1>2, <1>3, <1>4 DEF Moves, NoWorkspace, Counted, w
<1>6. Takes(i, w)
  BY <1>2, <1>3, <1>4, <1>5 DEF Takes, NoWorkspace
<1> QED
  BY <1>6, AccidentCounts DEF w, NoWorkspace, WorkersInv

LEMMA EndsTakes ==
  ASSUME WorkersInv, NEW i \in DOMAIN workers, WorkerEnds(i)
  PROVE  Takes(i, [workers[i] EXCEPT !.phase = "ended"]) /\ Counts
<1>1. workers[i] \in Worker
  BY DEF WorkersInv, WorkersTypeOK
<1> DEFINE w == [workers[i] EXCEPT !.phase = "ended"]
<1>2. workers[i].phase = "running" /\ workers' = [workers EXCEPT ![i] = w]
  BY DEF WorkerEnds
<1>3. /\ w \in Worker /\ w.agent = workers[i].agent /\ w.run = workers[i].run
      /\ w.phase = "ended" /\ w.docker = workers[i].docker
  BY <1>1 DEF Worker
<1>4. refused' = refused /\ refused = FALSE /\ workers[i].run # ""
  BY <1>2 DEF WorkerEnds, WorkersInv, RunsOK
<1> HIDE DEF w
<1>5. Moves(i, w)
  BY <1>2, <1>3, <1>4 DEF Moves, WorkerEnds
<1>6. containers' \subseteq containers /\ \A c \in containers \ containers' : c.name = workers[i].run
  BY DEF WorkerEnds, Without
<1>7. Takes(i, w)
  BY <1>2, <1>3, <1>4, <1>5, <1>6 DEF Takes, WorkerEnds
<1> QED
  BY <1>7, AccidentCounts DEF w, WorkerEnds, WorkersInv

LEMMA ReapTakes ==
  ASSUME WorkersInv, NEW i \in DOMAIN workers, Reap(i)
  PROVE  Takes(i, Reporting(workers[i])) /\ Counts
<1>1. workers[i] \in Worker /\ clock \in 0 .. MaxTime
  BY DEF WorkersInv, WorkersTypeOK
<1>2. workers[i].phase = "ended" /\ workers' = [workers EXCEPT ![i] = Reporting(workers[i])]
  BY DEF Reap
<1> DEFINE w == Reporting(workers[i])
<1>3. /\ w \in Worker /\ w.agent = workers[i].agent /\ w.run = workers[i].run
      /\ w.phase = "reporting" /\ w.docker = workers[i].docker
  BY <1>1 DEF Reporting, Worker
<1>4. refused' = refused /\ refused = FALSE
  BY DEF Reap, WorkersInv
<1> HIDE DEF w
<1>5. Moves(i, w)
  BY <1>2, <1>3, <1>4 DEF Moves, Reap, w
<1>6. /\ containers' \subseteq containers
      /\ \A c \in containers \ containers' : c.name = workers[i].run
      /\ workers[i].docker => \A c \in containers' : c.name # workers[i].run
  BY DEF Reap, Reaped, Without
<1>7. Container(workers[i]).name = workers[i].run
  BY DEF Container
<1>8. Takes(i, w)
  BY <1>2, <1>3, <1>4, <1>5, <1>6, <1>7 DEF Takes, Reap
<1> QED
  BY <1>8, AccidentCounts DEF w, Reap, WorkersInv

LEMMA ReportTakes ==
  ASSUME WorkersInv, NEW i \in DOMAIN workers, Report(i)
  PROVE  Takes(i, [workers[i] EXCEPT !.phase = "gone"]) /\ Counts
<1>1. workers[i] \in Worker
  BY DEF WorkersInv, WorkersTypeOK
<1> DEFINE w == [workers[i] EXCEPT !.phase = "gone"]
<1>2. workers[i].phase = "reporting" /\ workers' = [workers EXCEPT ![i] = w]
  BY DEF Report
<1>3. /\ w \in Worker /\ w.agent = workers[i].agent /\ w.run = workers[i].run
      /\ w.phase = "gone" /\ w.docker = workers[i].docker /\ w.at = workers[i].at
  BY <1>1 DEF Worker
<1>4. refused' = refused /\ refused = FALSE
  BY DEF Report, WorkersInv
<1> HIDE DEF w
<1>5. Moves(i, w)
  BY <1>2, <1>3, <1>4 DEF Moves, Report
<1>6. Counts /\ (Accident => accidents' # 0)
  BY AccidentCounts DEF Report, WorkersInv
<1>7. reports \subseteq reports' /\ (accidents' = 0 => <<w.agent.id, w.at>> \in reports')
  BY <1>3, <1>6 DEF Report
<1>8. Takes(i, w)
  BY <1>2, <1>3, <1>4, <1>5, <1>7 DEF Takes, Report
<1> QED
  BY <1>6, <1>8 DEF w

\* A run's name is new; so its container's name is not taken.
LEMMA RunsTakes ==
  ASSUME WorkersInv, NEW i \in DOMAIN workers, Runs(i)
  PROVE  Counts /\ \E w : Takes(i, w)
<1> DEFINE agent == workers[i].agent
           run == RunId(agent, sequence)
           taken == Isolated(agent) /\ run \in Names
           w == [workers[i] EXCEPT !.run = run, !.docker = Isolated(agent),
                                   !.phase = IF taken THEN "ended" ELSE "running"]
<1>1. /\ workers[i] \in Worker /\ clock \in 0 .. MaxTime /\ sequence \in 0 .. MaxWorkers
      /\ sandbox \in Sandbox
  BY DEF WorkersInv, WorkersTypeOK
<1>2. /\ workers[i].phase = "launched" /\ workers' = [workers EXCEPT ![i] = w]
      /\ sequence' = sequence + 1
      /\ containers' = IF w.docker /\ ~taken THEN containers \cup {Container(w)} ELSE containers
      /\ UNCHANGED <<clock, sandbox, reports, refused, accidents>>
  BY DEF Runs
<1>3. agent \in Agents /\ agent.id \in Ids
  BY <1>1 DEF Worker, Ids
<1>4. run = RunName[<<agent.id, clock, sequence>>] /\ run \in STRING \ {""}
  <2>1. <<agent.id, clock, sequence>> \in Ids \X (0 .. MaxTime) \X (0 .. MaxWorkers)
    BY <1>1, <1>3
  <2> HIDE DEF agent
  <2> QED
    BY <2>1, RunNameAssumption DEF RunId
<1>named. run \in Range(RunName)
  <2>1. <<agent.id, clock, sequence>> \in DOMAIN RunName
    BY <1>1, <1>3, RunNameAssumption
  <2> HIDE DEF run, agent
  <2> QED
    BY <1>4, <2>1 DEF Range
<1>5. Isolated(agent) \in BOOLEAN
  BY <1>1, <1>3, WorkersAssumption DEF Isolated, HasBackend, Sandbox, Agent
<1> HIDE DEF taken, run
<1>6. /\ w \in Worker /\ w.agent = agent /\ w.run = run /\ w.docker = Isolated(agent)
      /\ w.phase = IF taken THEN "ended" ELSE "running"
  BY <1>1, <1>4, <1>5, <1>named DEF Worker
<1> HIDE DEF w
<1>7. Moves(i, w)
  BY <1>2, <1>4, <1>6 DEF Moves, Counted, WorkersInv
<1>8. ~taken
  <2>1. SUFFICES ASSUME taken PROVE FALSE
    OBVIOUS
  <2>2. PICK c \in containers : c.name = run
    BY <2>1 DEF taken, Names
  <2>3. PICK j \in DOMAIN workers :
          workers[j].phase \in {"running", "ended"} /\ c = Container(workers[j])
    BY DEF WorkersInv, ContainersOK
  <2>4. workers[j].run = run /\ j # i
    BY <1>2, <2>2, <2>3 DEF Container
  <2>5. RunsOK' /\ i \in DOMAIN workers' /\ j \in DOMAIN workers'
        /\ workers'[i].run = run /\ workers'[j].run = run
    BY <1>6, <1>7, <2>4, OneWorker
  <2> QED
    BY <1>4, <2>4, <2>5 DEF RunsOK
<1>9. Takes(i, w)
  BY <1>2, <1>6, <1>7, <1>8 DEF Takes
<1> QED
  BY <1>2, <1>9, AccidentCounts DEF WorkersInv

\* The wall is rooted where the bridge works and knows of no capability: it refuses a
\* file tool what lies outside and nothing else.
LEMMA AsksAnswered ==
  ASSUME WorkersInv, NEW i \in DOMAIN workers, NEW call \in WorkerCalls, WorkerAsks(i, call)
  PROVE  refused' = refused
<1> DEFINE root == WallRoot(workers[i])
           target == BridgeCwd(workers[i]) \o call.target
           rel == Relativize(BridgeCwd(workers[i]), target)
           asked == [call EXCEPT !.target = target]
           inside == rel # <<>> /\ ~Under(rel, "runlogs")
           allowed == Allows(WorkerWall(root), asked)
<1>1. root = BridgeCwd(workers[i])
  BY DEF WallRoot, BridgeCwd
<1> HIDE DEF root, target
<1>2. call \in [name : {<<tool>> : tool \in FileWrites}, target : Seq(STRING)]
  BY WorkersAssumption
<1>3. PICK tool \in FileWrites : call.name = <<tool>>
  BY <1>2
<1>4. asked.name = <<tool>> /\ asked.target = target
  BY <1>2, <1>3
<1> HIDE DEF asked
<1>5. Classify(asked, {}) = "FileWrite"
  <2>1. Claim(asked.name, {}) = {}
    BY DEF Claim, Topmost
  <2>2. Head(asked.name) = tool
    BY <1>4
  <2> QED
    BY <2>1, <2>2 DEF Classify, FileReads, OtherReads, FileWrites, Shells
<1>6. WorkerWall(root).scope = "worker" /\ WorkerWall(root).root = root
      /\ WorkerWall(root).ladder = {} /\ WorkerWall(root).longTerm = TRUE
      /\ WorkerWall(root).block = {}
  BY DEF WorkerWall
<1>7. "FileWrite" \in ToolScope("worker")
  BY DEF ToolScope
<1>8. allowed <=> WriteTargetAllowed("worker", root, target)
  BY <1>4, <1>5, <1>6, <1>7 DEF Allows
<1>9. WriteTargetAllowed("worker", root, target) <=> inside
  BY <1>1 DEF WriteTargetAllowed
<1>10. inside = allowed
  BY <1>8, <1>9 DEF Allows, WriteTargetAllowed, Under
<1>11. refused' = (refused \/ (inside # allowed))
  BY DEF WorkerAsks, root, target, asked
<1>12. refused = FALSE
  BY DEF WorkersInv
<1> HIDE DEF inside, allowed
<1> QED
  BY <1>10, <1>11, <1>12

\* One worker more changes nothing about the others.
LEMMA LaunchInv ==
  ASSUME WorkersInv, up, NEW a \in Agents, Len(workers) < MaxWorkers,
         workers' = Append(workers, Launched(a)),
         UNCHANGED <<clock, sandbox, sequence, containers, reports, refused, accidents>>,
         UNCHANGED <<deployment, up>>
  PROVE  WorkersInv'
<1> DEFINE w == Launched(a)
           k == Len(workers)
<1>0. workers \in Seq(Worker) /\ k \in Nat /\ DOMAIN workers = 1 .. k
  BY DEF WorkersInv, WorkersTypeOK
<1>1. w \in Worker /\ w.phase = "launched" /\ w.run = "" /\ w.docker = FALSE
  <2>1. 0 \in 0 .. MaxTime
    BY WorkersAssumption
  <2> QED
    BY <2>1 DEF Launched, Worker
<1>added. workers' = Append(workers, w)
  OBVIOUS
<1> HIDE DEF w
<1>2. /\ workers' \in Seq(Worker) /\ DOMAIN workers' = 1 .. k + 1 /\ Len(workers') = k + 1
      /\ \A j \in 1 .. k : workers'[j] = workers[j]
      /\ workers'[k + 1] = w
  <2>1. /\ Append(workers, w) \in Seq(Worker) /\ Len(Append(workers, w)) = Len(workers) + 1
        /\ \A j \in 1 .. Len(workers) : Append(workers, w)[j] = workers[j]
        /\ Append(workers, w)[Len(workers) + 1] = w
    <3>1. workers \in Seq(Worker) /\ w \in Worker
      BY <1>0, <1>1
    <3> QED
      BY <3>1, AppendProperties
  <2>2. DOMAIN workers' = 1 .. k + 1
    BY <1>added, <2>1
  <2> QED
    BY <1>added, <2>1, <2>2
<1>3. WorkersTypeOK'
  <2>1. /\ clock' \in 0 .. MaxTime /\ sandbox' \in Sandbox /\ sequence' \in 0 .. MaxWorkers
        /\ refused' \in BOOLEAN
    BY DEF WorkersInv, WorkersTypeOK
  <2>2. Len(workers') <= MaxWorkers
    BY <1>0, <1>2, WorkersAssumption
  <2> QED
    BY <1>2, <2>1, <2>2 DEF WorkersTypeOK
<1>4. \A j \in DOMAIN workers' : j \in DOMAIN workers \/ j = k + 1
  BY <1>0, <1>2
<1>5. \A j \in DOMAIN workers : j \in DOMAIN workers' /\ workers'[j] = workers[j]
  BY <1>0, <1>2
<1>6. Started' = Started
  <2>1. k + 1 \in DOMAIN workers' => workers'[k + 1].phase = "launched"
    BY <1>1, <1>2
  <2> QED
    BY <1>4, <1>5, <2>1 DEF Started
<1>7. RunsOK'
  <2>1. sequence' <= Cardinality(Started')
    BY <1>6 DEF WorkersInv, RunsOK
  <2>2. ASSUME NEW j \in DOMAIN workers', workers'[j].run # ""
        PROVE  j \in DOMAIN workers /\ Named(workers[j]) /\ Named(workers[j])'
    <3>1. j \in DOMAIN workers
      BY <1>1, <1>2, <1>4, <2>2
    <3>2. Named(workers[j])
      BY <1>5, <2>2, <3>1 DEF WorkersInv, RunsOK
    <3> QED
      BY <1>5, <3>1, <3>2 DEF Named
  <2>3. ASSUME NEW j \in DOMAIN workers'
        PROVE  /\ workers'[j].phase = "launched" => workers'[j].run = ""
               /\ workers'[j].phase = "running" => workers'[j].docker = Isolated(workers[j].agent)'
               /\ workers'[j].phase \in {"running", "ended"} => workers'[j].run # ""
    <3>1. CASE j = k + 1
      BY <1>1, <1>2, <3>1
    <3>2. CASE j \in DOMAIN workers
      BY <1>5, <3>2 DEF WorkersInv, RunsOK, Isolated, HasBackend
    <3> QED
      BY <1>4, <3>1, <3>2
  <2>4. ASSUME NEW m \in DOMAIN workers', NEW n \in DOMAIN workers',
               workers'[m].run = workers'[n].run, workers'[m].run # ""
        PROVE  m = n
    BY <1>5, <2>2, <2>4 DEF WorkersInv, RunsOK
  <2> QED
    BY <2>1, <2>2, <2>3, <2>4 DEF RunsOK
<1>8. ContainersOK'
  <2>1. \A j \in DOMAIN workers : Container(workers[j])' = Container(workers'[j])
    BY DEF Container, Workspace, Volumes
  <2>2. \A j \in DOMAIN workers' : Container(workers[j])' = Container(workers'[j])
    BY DEF Container, Workspace, Volumes
  <2>3. \A c \in containers' : \E j \in DOMAIN workers' :
          /\ workers'[j].docker /\ workers'[j].phase \in {"running", "ended"}
          /\ c = Container(workers'[j])
    BY <1>5 DEF WorkersInv, ContainersOK
  <2>4. \A j \in DOMAIN workers' : workers'[j].docker /\ workers'[j].phase = "running"
          => Container(workers'[j]) \in containers'
    BY <1>1, <1>2, <1>4, <1>5 DEF WorkersInv, ContainersOK
  <2> HIDE DEF Container
  <2> QED
    BY <2>2, <2>3, <2>4 DEF ContainersOK
<1>9. Completes'
  <2>1. accidents' = 0 => \A j \in DOMAIN workers :
          workers[j].phase = "gone" => <<workers[j].agent.id, workers[j].at>> \in reports'
    BY DEF WorkersInv, Completes
  <2>2. accidents' = 0 => \A j \in DOMAIN workers' :
          workers'[j].phase = "gone" => <<workers'[j].agent.id, workers'[j].at>> \in reports'
    BY <1>1, <1>2, <1>4, <1>5, <2>1
  <2> QED
    BY <2>2 DEF Completes
<1>10. BootRefused' = BootRefused
  BY DEF BootRefused
<1> QED
  BY <1>3, <1>7, <1>8, <1>9, <1>10 DEF WorkersInv

\* Nothing but the workers' own steps, the clock and a launch touches them.
LEMMA WorkersKept ==
  ASSUME WorkersInv, UNCHANGED <<sandbox, workers, sequence, containers, reports>>,
         refused' = refused, clock' \in 0 .. MaxTime, Counts, deployment' = deployment,
         up' = up \/ up' = FALSE
  PROVE  WorkersInv'
<1>1. WorkersTypeOK'
  BY DEF WorkersInv, WorkersTypeOK
<1>2. Started' = Started /\ BootRefused' = BootRefused
  BY DEF Started, BootRefused
<1>3. \A j \in DOMAIN workers : /\ Container(workers[j])' = Container(workers[j])
                               /\ Named(workers[j])' = Named(workers[j])
                               /\ Isolated(workers[j].agent)' = Isolated(workers[j].agent)
  BY DEF Container, Workspace, Volumes, Named, Isolated, HasBackend
<1>4. RunsOK'
  BY <1>2, <1>3 DEF WorkersInv, RunsOK, Named, Isolated, HasBackend
<1>5. ContainersOK'
  <2>1. \A c \in containers' : \E j \in DOMAIN workers' :
          /\ workers'[j].docker /\ workers'[j].phase \in {"running", "ended"}
          /\ c = Container(workers'[j])
    BY DEF WorkersInv, ContainersOK
  <2>2. \A j \in DOMAIN workers' : workers'[j].docker /\ workers'[j].phase = "running"
          => Container(workers'[j]) \in containers'
    BY DEF WorkersInv, ContainersOK
  <2>3. \A j \in DOMAIN workers' : Container(workers[j])' = Container(workers'[j])
    BY DEF Container, Workspace, Volumes
  <2> HIDE DEF Container
  <2> QED
    BY <2>1, <2>2, <2>3 DEF ContainersOK
<1>6. Completes'
  BY DEF WorkersInv, Completes, Counts
<1>7. BootRefused => ~up' /\ workers = <<>>
  BY DEF WorkersInv
<1> QED
  BY <1>1, <1>2, <1>4, <1>5, <1>6, <1>7 DEF WorkersInv, Counts

LEMMA WorkersNext == ASSUME WorkersInv, [Next]_vars PROVE WorkersInv'
<1>0. accidents \in 0 .. MaxAccidents /\ clock \in 0 .. MaxTime /\ MaxTime \in Nat
  BY WorkersAssumption DEF WorkersInv, WorkersTypeOK
<1>1. CASE UNCHANGED vars
  <2>1. Counts
    BY <1>0, <1>1, AccidentCounts DEF vars
  <2> QED
    BY <1>0, <1>1, <2>1, WorkersKept DEF vars, workerVars
<1>2. CASE Next
  <2>1. ASSUME UNCHANGED workerVars PROVE WorkersInv'
    <3>1. Accident \/ UNCHANGED accidents
      BY <1>2, <2>1
      DEF Next, WakeStep, WorkerStep, Tick, SupervisorStep, MainReturns, Spawns, WakeBegins,
          StepBegins, Permission, StepReturns, StepFails, StepTimesOut, WakeEnds, Check, Spawned,
          SpawnFails, Exits, Stops, SleepEnds, Elapses, Unresolved, NoWorkspace, Runs, WorkerAsks,
          WorkerEnds, Reap, Report
    <3>2. Counts
      BY <1>0, <3>1, AccidentCounts
    <3>3. deployment' = deployment /\ (up' = up \/ up' = FALSE)
      BY <1>2 DEF Next, MainReturns
    <3> QED
      BY <1>0, <2>1, <3>2, <3>3, WorkersKept DEF workerVars
  <2>2. CASE \E a \in deployment.agents : Spawns(a) /\ UNCHANGED <<deployment, up>>
    <3>1. deployment.agents \subseteq Agents
      BY DeploymentsAssumption DEF WorkersInv
    <3> QED
      BY <1>2, <2>2, <3>1, LaunchInv DEF Spawns, Next
  <2>3. CASE Tick /\ UNCHANGED <<deployment, up>>
    <3>1. Counts
      BY <1>0, <2>3, AccidentCounts DEF Tick
    <3>2. clock' \in 0 .. MaxTime
      BY <1>0, <2>3 DEF Tick
    <3> QED
      BY <2>3, <3>1, <3>2, WorkersKept DEF Tick
  <2>4. CASE WorkerStep /\ UNCHANGED <<deployment, up>>
    <3>1. PICK i \in DOMAIN workers :
            \/ Unresolved(i) \/ NoWorkspace(i) \/ Runs(i)
            \/ \E c \in WorkerCalls : WorkerAsks(i, c)
            \/ WorkerEnds(i) \/ Reap(i) \/ Report(i)
      BY <2>4 DEF WorkerStep
    <3>2. CASE \E c \in WorkerCalls : WorkerAsks(i, c)
      <4>1. PICK c \in WorkerCalls : WorkerAsks(i, c)
        BY <3>2
      <4>2. refused' = refused
        BY <4>1, AsksAnswered
      <4>3. /\ UNCHANGED <<sandbox, workers, sequence, containers, reports>>
            /\ UNCHANGED <<accidents, clock>>
        BY <4>1 DEF WorkerAsks
      <4>4. Counts
        BY <1>0, <4>3, AccidentCounts
      <4> QED
        BY <1>0, <2>4, <4>2, <4>3, <4>4, WorkersKept
    <3>3. CASE ~\E c \in WorkerCalls : WorkerAsks(i, c)
      <4>1. Counts /\ \E w : Takes(i, w)
        BY <3>1, <3>3, UnresolvedTakes, NoWorkspaceTakes, RunsTakes, EndsTakes, ReapTakes, ReportTakes
      <4> QED
        BY <2>4, <4>1, TakesInv
    <3> QED
      BY <3>2, <3>3
  <2> QED
    BY <1>2, <2>1, <2>2, <2>3, <2>4 DEF Next, WakeStep, MainReturns
<1> QED
  BY <1>1, <1>2

\* Where a container's workspace is: below the soul, and below no other's.
LEMMA WorkspaceIs ==
  ASSUME NEW v, NEW w
  PROVE  /\ IsPrefix(SoulRoot, Workspace(v))
         /\ IsPrefix(Workspace(v), Workspace(w)) => v.run = w.run
<1> DEFINE S == STRING \cup {"workspaces"} \cup {v.run, w.run}
           a == Workspace(v)
           b == Workspace(w)
<1>1. SoulRoot \in Seq(S)
  <2>1. SoulRoot \in Seq(STRING)
    BY RegistryAssumption
  <2> QED
    BY <2>1
<1>2. \A run \in {v.run, w.run} :
        /\ SoulRoot \o <<"workspaces", run>> \in Seq(S)
        /\ Len(SoulRoot \o <<"workspaces", run>>) = Len(SoulRoot) + 2
        /\ (SoulRoot \o <<"workspaces", run>>)[Len(SoulRoot) + 2] = run
        /\ \A n \in 1 .. Len(SoulRoot) : (SoulRoot \o <<"workspaces", run>>)[n] = SoulRoot[n]
  <2> TAKE run \in {v.run, w.run}
  <2>1. <<"workspaces", run>> \in Seq(S) /\ Len(<<"workspaces", run>>) = 2
    OBVIOUS
  <2> QED
    BY <1>1, <2>1, ConcatProperties
<1>3. /\ a \in Seq(S) /\ Len(a) = Len(SoulRoot) + 2 /\ a[Len(SoulRoot) + 2] = v.run
      /\ b \in Seq(S) /\ Len(b) = Len(SoulRoot) + 2 /\ b[Len(SoulRoot) + 2] = w.run
      /\ \A n \in 1 .. Len(SoulRoot) : a[n] = SoulRoot[n]
  BY <1>2 DEF Workspace
<1>4. Len(SoulRoot) \in Nat
  BY <1>1
<1> HIDE DEF a, b, S
<1>5. IsPrefix(SoulRoot, a)
  BY <1>1, <1>3, <1>4, PrefixIs
<1>6. IsPrefix(a, b) => v.run = w.run
  <2>1. IsPrefix(a, b) => \A n \in 1 .. Len(a) : a[n] = b[n]
    BY <1>3, PrefixIs
  <2> QED
    BY <1>3, <1>4, <2>1
<1> QED
  BY <1>5, <1>6 DEF a, b

\* What containers see, and where they write.
LEMMA MountsAre ==
  ASSUME NEW w, NEW m \in Container(w).mounts
  PROVE  IsPrefix(SoulRoot, m.host) /\ (m.writable => m.host = Workspace(w))
<1>1. CASE m = [host |-> Workspace(w), guest |-> Guest, writable |-> TRUE]
  BY <1>1, WorkspaceIs
<1>2. CASE m \in Volumes(w.agent)
  BY <1>2 DEF Volumes
<1> QED
  BY <1>1, <1>2 DEF Container

LEMMA WorkersDoAnswer == ASSUME WorkersInv PROVE WorkersAnswer
<1>1. OwnsContainer
  <2>1. \A w : Container(w).name = w.run
    BY DEF Container
  <2> HIDE DEF Container
  <2> QED
    BY <2>1 DEF OwnsContainer, Names, WorkersInv, ContainersOK
<1>2. Confined
  <2>1. ASSUME NEW i \in DOMAIN workers, workers[i].phase = "running", workers[i].agent.docker,
               sandbox.enabled, sandbox.require
        PROVE  workers[i].docker
    <3>1. workers[i].docker = Isolated(workers[i].agent)
      BY <2>1 DEF WorkersInv, RunsOK
    <3>2. ~BootRefused
      <4>1. DOMAIN <<>> = {}
        OBVIOUS
      <4> QED
        BY <4>1 DEF WorkersInv
    <3>3. sandbox.available
      BY <2>1, <3>2 DEF BootRefused
    <3> QED
      BY <2>1, <3>1, <3>3 DEF Isolated, HasBackend
  <2>2. ASSUME NEW c \in containers, NEW m \in c.mounts
        PROVE  /\ IsPrefix(SoulRoot, m.host)
               /\ m.writable =>
                    \A d \in containers : \A n \in d.mounts :
                      n.writable /\ c # d => ~IsPrefix(m.host, n.host)
    <3>1. PICK i \in DOMAIN workers :
            /\ workers[i].phase \in {"running", "ended"} /\ c = Container(workers[i])
      BY DEF WorkersInv, ContainersOK
    <3>2. IsPrefix(SoulRoot, m.host) /\ (m.writable => m.host = Workspace(workers[i]))
      BY <3>1, MountsAre
    <3>3. ASSUME m.writable, NEW d \in containers, NEW n \in d.mounts, n.writable,
                 IsPrefix(m.host, n.host)
          PROVE  c = d
      <4>1. PICK j \in DOMAIN workers :
              /\ workers[j].phase \in {"running", "ended"} /\ d = Container(workers[j])
        BY DEF WorkersInv, ContainersOK
      <4>2. n.host = Workspace(workers[j])
        BY <3>3, <4>1, MountsAre
      <4>3. workers[i].run = workers[j].run
        BY <3>2, <3>3, <4>2, WorkspaceIs
      <4>4. workers[i].run # ""
        BY <3>1 DEF WorkersInv, RunsOK
      <4>5. i = j
        BY <4>3, <4>4 DEF WorkersInv, RunsOK
      <4> QED
        BY <3>1, <4>1, <4>5
    <3> QED
      BY <3>2, <3>3
  <2> QED
    BY <2>1, <2>2 DEF Confined
<1> QED
  BY <1>1, <1>2 DEF WorkersInv, WorkersAnswer

\* For every list of agents and sandbox: unless something failed a worker that is gone is
\* on record; one in a container has that container to itself and takes it away, none sees
\* what is outside the soul or writes where another does, none is refused what is its own
\* (WorkersAnswer).
THEOREM WorkersDoTheirJob == Spec => []WorkersAnswer
<1>1. Init => WorkersInv
  BY WorkersBegin
<1>2. WorkersInv /\ [Next]_vars => WorkersInv'
  BY WorkersNext
<1>3. WorkersInv => WorkersAnswer
  BY WorkersDoAnswer
<1> QED
  BY <1>1, <1>2, <1>3, PTL DEF Spec

-----------------------------------------------------------------------------
(* What the wall makes of a call.                                           *)

\* The name of a server's tool and the prefixes of it.
LEMMA NameIs ==
  ASSUME NEW s, NEW t
  PROVE  /\ Len(<<"mcp", s, t>>) = 3 /\ Last(<<"mcp", s, t>>) = t /\ Head(<<"mcp", s, t>>) = "mcp"
         /\ <<"mcp", s, t>> \in Seq({"mcp", s, t})
         /\ \A r : IsPrefix(<<"mcp", r>>, <<"mcp", s, t>>) <=> r = s
<1>1. Len(<<"mcp", s, t>>) = 3 /\ <<"mcp", s, t>> \in Seq({"mcp", s, t})
  OBVIOUS
<1>2. Last(<<"mcp", s, t>>) = t
  BY <1>1 DEF Last
<1>3. ASSUME NEW r PROVE IsPrefix(<<"mcp", r>>, <<"mcp", s, t>>) <=> r = s
  <2> DEFINE p == <<"mcp", r>>
             q == <<"mcp", s, t>>
  <2>1. /\ p \in Seq({"mcp", r}) /\ Len(p) = 2 /\ p[1] = "mcp" /\ p[2] = r
        /\ q \in Seq({"mcp", s, t}) /\ Len(q) = 3 /\ q[1] = "mcp" /\ q[2] = s
    OBVIOUS
  <2> HIDE DEF p, q
  <2>2. IsPrefix(p, q) <=> Len(p) <= Len(q) /\ \A n \in 1 .. Len(p) : p[n] = q[n]
    <3>1. p \in Seq({"mcp", r}) /\ q \in Seq({"mcp", s, t})
      BY <2>1
    <3> QED
      BY <3>1, PrefixIs
  <2>3. \A n \in 1 .. 2 : n = 1 \/ n = 2
    OBVIOUS
  <2>4. IsPrefix(p, q) <=> r = s
    BY <2>1, <2>2, <2>3
  <2> QED
    BY <2>4 DEF p, q
<1> QED
  BY <1>1, <1>2, <1>3

\* A tool of a registered server that a capability claims, and lists, does what the
\* capability says or only looks: an irreversible capability overlaps with no other, and
\* what the operator lists or declares is declared for what it is.
LEMMA ClaimedIsDeclared ==
  ASSUME NEW inlined, NEW s \in Registered, NEW t \in Tools[s],
         NEW c \in Claim(<<"mcp", s, t>>, Ladder(inlined)), OnList(<<"mcp", s, t>>, c)
  PROVE  c.class \in {"Read", "Post", "SettleTx"} /\ Effect[s][t] \in {"Read", c.class}
<1> DEFINE name == <<"mcp", s, t>>
           server == Server(s)
           own == Surface(server)
           listed == server.tools = {} \/ t \in server.tools
<1>1. /\ server \in McpServer /\ server.name = s /\ own \in Capabilities
      /\ \A n \in DOMAIN Registry : Registry[n].name = s => Registry[n] = server
  BY ServerIs
<1>2. /\ own.prefix = <<"mcp", s>> /\ own.class = server.tier /\ own.tools = server.tools
      /\ own.rung \in {2, 4, 5} /\ server.tier \in {"Read", "Post", "SettleTx"}
      /\ (server.tier = "Post" => own.rung = 4) /\ (server.tier = "Read" => own.rung = 5)
  BY <1>1, SurfaceIs DEF McpServer, CapabilityTier
<1>3. /\ c \in Ladder(inlined) /\ IsPrefix(c.prefix, name)
      /\ \A d \in Ladder(inlined) : IsPrefix(d.prefix, name) => c.rung <= d.rung
  BY DEF Claim, Topmost
<1>4. own \in Ladder(inlined) /\ IsPrefix(own.prefix, name) /\ c.rung <= own.rung
  BY <1>1, <1>2, <1>3, NameIs DEF Ladder
<1>5. /\ Declares(SettleTools, s, t) => Effect[s][t] \in {"Read", "SettleTx"}
      /\ Declares(PostTools, s, t) /\ ~Declares(SettleTools, s, t) => Effect[s][t] \in {"Read", "Post"}
      /\ ~Declares(PostTools, s, t) /\ ~Declares(SettleTools, s, t) /\ listed
           => Effect[s][t] \in {"Read", server.tier}
  BY EffectAssumption
<1> HIDE DEF own, server, listed
<1>6. CASE \E p \in SettleTools : c = Open(1, p, "SettleTx")
  <2>1. PICK p \in SettleTools : c = Open(1, p, "SettleTx")
    BY <1>6
  <2>2. c.prefix = p /\ c.class = "SettleTx"
    BY <2>1, OpenIs
  <2>3. Declares(SettleTools, s, t)
    BY <1>3, <2>2 DEF Declares
  <2> QED
    BY <1>5, <2>2, <2>3
<1>explicit. Declares(SettleTools, s, t) => c.rung = 1
  <2>1. SUFFICES ASSUME NEW p \in SettleTools, IsPrefix(p, name) PROVE c.rung = 1
    BY DEF Declares
  <2> DEFINE d == Open(1, p, "SettleTx")
  <2>2. d \in Ladder(inlined) /\ d.prefix = p /\ d.rung = 1
    BY OpenIs DEF Ladder, Capabilities
  <2> HIDE DEF d
  <2>3. c.rung <= 1 /\ c.rung \in 1 .. 6
    BY <1>3, <2>1, <2>2, RungIs
  <2> QED
    BY <2>3
<1>7. CASE \E p \in PostTools : c = Open(3, p, "Post")
  <2>1. PICK p \in PostTools : c = Open(3, p, "Post")
    BY <1>7
  <2>2. c.prefix = p /\ c.class = "Post" /\ c.rung = 3
    BY <2>1, OpenIs
  <2>3. Declares(PostTools, s, t) /\ ~Declares(SettleTools, s, t)
    BY <1>3, <1>explicit, <2>2 DEF Declares
  <2> QED
    BY <1>5, <2>2, <2>3
<1>8. CASE \E n \in DOMAIN Registry : c = Surface(Registry[n])
  <2>1. PICK n \in DOMAIN Registry : c = Surface(Registry[n])
    BY <1>8
  <2>2. c.prefix = <<"mcp", Registry[n].name>>
    BY <2>1, RegistryAssumption, SurfaceIs
  <2>3. Registry[n].name = s
    BY <1>3, <2>2, NameIs
  <2>4. c = own
    BY <1>1, <2>1, <2>3 DEF own
  <2>5. listed
    BY <1>2, <2>4, NameIs DEF OnList, listed
  <2>6. ~Declares(SettleTools, s, t)
    BY <1>2, <1>explicit, <2>4
  <2>7. ~Declares(PostTools, s, t)
    <3>1. SUFFICES ASSUME NEW p \in PostTools, IsPrefix(p, name) PROVE FALSE
      BY DEF Declares
    <3> DEFINE d == Open(3, p, "Post")
    <3>2. d \in Capabilities /\ d.prefix = p /\ d.class = "Post" /\ d.rung = 3
      BY OpenIs DEF Capabilities
    <3> HIDE DEF d
    <3>3. own.class = "SettleTx"
      <4>1. own.rung <= 3
        BY <1>3, <2>4, <3>1, <3>2 DEF Ladder
      <4> QED
        BY <1>2, <4>1
    <3>4. ~IsPrefix(own.prefix, p) /\ ~IsPrefix(p, own.prefix)
      BY <1>1, <3>2, <3>3, DisjointAssumption DEF Disjoint
    <3>5. p \in Seq(STRING) /\ name \in Seq({"mcp", s, t})
      BY RegistryAssumption, NameIs
    <3> DEFINE q == <<"mcp", s>>
    <3>6. q \in Seq({"mcp", s}) /\ IsPrefix(q, name) /\ ~IsPrefix(q, p) /\ ~IsPrefix(p, q)
      BY <1>2, <1>4, <3>4
    <3> HIDE DEF q, name
    <3> QED
      BY <3>1, <3>5, <3>6, PrefixesMeet
  <2> QED
    BY <1>2, <1>5, <2>4, <2>5, <2>6, <2>7
<1>9. CASE \E x \in inlined : c = Open(6, <<"mcp", x>>, "Read")
  <2>1. c.rung = 6
    BY <1>9, OpenIs
  <2> QED
    BY <1>2, <1>4, <2>1
<1> QED
  BY <1>3, <1>6, <1>7, <1>8, <1>9, LadderIs

\* What the wall takes such a call for, when it takes it for something a state may do.
LEMMA McpClass ==
  ASSUME NEW inlined, NEW s \in Registered, NEW t \in Tools[s], NEW call,
         call.name = <<"mcp", s, t>>, Classify(call, Ladder(inlined)) # "Other"
  PROVE  /\ Classify(call, Ladder(inlined)) \in {"Read", "Post", "SettleTx"}
         /\ Effect[s][t] \in {"Read", Classify(call, Ladder(inlined))}
<1> DEFINE claim == Claim(call.name, Ladder(inlined))
           c == CHOOSE d \in claim : TRUE
<1>1. claim # {}
  <2>1. Surface(Server(s)) \in Ladder(inlined) /\ Surface(Server(s)).prefix = <<"mcp", s>>
    BY ServerIs, SurfaceIs DEF Ladder
  <2>2. IsPrefix(Surface(Server(s)).prefix, <<"mcp", s, t>>)
    BY <2>1, NameIs
  <2> DEFINE S == {d \in Ladder(inlined) : IsPrefix(d.prefix, <<"mcp", s, t>>)}
  <2>3. S \in SUBSET Ladder(inlined) /\ S # {}
    BY <2>1, <2>2
  <2>4. claim = Topmost(S)
    BY DEF Claim
  <2> HIDE DEF S, claim
  <2> QED
    BY <2>3, <2>4, TopIs
<1>2. c \in claim
  BY <1>1
<1>3. (\A d \in claim : OnList(call.name, d)) /\ Classify(call, Ladder(inlined)) = c.class
  <2> HIDE DEF claim
  <2>1. CASE \A d \in claim : OnList(call.name, d)
    BY <1>1, <2>1 DEF Classify, claim
  <2>2. CASE ~\A d \in claim : OnList(call.name, d)
    BY <1>1, <2>2 DEF Classify, claim
  <2> QED
    BY <2>1, <2>2
<1> HIDE DEF c
<1>4. c.class \in {"Read", "Post", "SettleTx"} /\ Effect[s][t] \in {"Read", c.class}
  BY <1>2, <1>3, ClaimedIsDeclared
<1> QED
  BY <1>3, <1>4

\* No capability claims a tool of the engine's own.
LEMMA BuiltinUnclaimed ==
  ASSUME NEW inlined, NEW call \in BuiltinCalls
  PROVE  /\ Claim(call.name, Ladder(inlined)) = {} /\ Claim(call.name, {}) = {}
         /\ Classify(call, Ladder(inlined)) = Classify(call, {})
<1> DEFINE name == call.name
<1>1. name \in Seq(STRING) /\ name # <<>> /\ Head(name) # "mcp"
  BY InvocationAssumption
<1>2. name[1] # "mcp" /\ Len(name) \in Nat /\ Len(name) >= 1
  BY <1>1
<1> HIDE DEF name
<1>3. ASSUME NEW S, NEW p \in Seq(S), p # <<>>, Head(p) = "mcp" PROVE ~IsPrefix(p, name)
  <2>1. p[1] = "mcp" /\ 1 \in 1 .. Len(p)
    BY <1>3
  <2>2. IsPrefix(p, name) => \A n \in 1 .. Len(p) : p[n] = name[n]
    BY <1>1, PrefixIs
  <2> QED
    BY <1>2, <2>1, <2>2
<1>4. ASSUME NEW r PROVE ~IsPrefix(<<"mcp", r>>, name)
  <2> DEFINE p == <<"mcp", r>>
  <2>1. p \in Seq({"mcp", r}) /\ p # <<>> /\ Head(p) = "mcp"
    OBVIOUS
  <2> HIDE DEF p
  <2>2. ~IsPrefix(p, name)
    BY <1>3, <2>1
  <2> QED
    BY <2>2 DEF p
<1>5. ASSUME NEW p \in PostTools \cup SettleTools PROVE ~IsPrefix(p, name)
  <2>1. p \in Seq(STRING) /\ p # <<>> /\ Head(p) = "mcp"
    BY RegistryAssumption
  <2> QED
    BY <1>3, <2>1
<1>6. ASSUME NEW c \in Ladder(inlined) PROVE ~IsPrefix(c.prefix, name)
  <2>1. CASE \E p \in SettleTools : c = Open(1, p, "SettleTx")
    BY <1>5, <2>1, OpenIs
  <2>2. CASE \E p \in PostTools : c = Open(3, p, "Post")
    BY <1>5, <2>2, OpenIs
  <2>3. CASE \E n \in DOMAIN Registry : c = Surface(Registry[n])
    <3>1. PICK n \in DOMAIN Registry : c = Surface(Registry[n])
      BY <2>3
    <3>2. c.prefix = <<"mcp", Registry[n].name>>
      BY <3>1, RegistryAssumption, SurfaceIs
    <3> QED
      BY <1>4, <3>2
  <2>4. CASE \E x \in inlined : c = Open(6, <<"mcp", x>>, "Read")
    BY <1>4, <2>4, OpenIs
  <2> QED
    BY <2>1, <2>2, <2>3, <2>4, LadderIs
<1>7. Claim(name, Ladder(inlined)) = {} /\ Claim(name, {}) = {}
  BY <1>6 DEF Claim, Topmost
<1> QED
  BY <1>7 DEF Classify, name

-----------------------------------------------------------------------------
(* The invocation.                                                          *)

\* What is plugged was let in by the policy at the trust the wake has: a step lasts as
\* long as its wake, and the trust is only lowered by the end of a step.
StepOK ==
  step.on =>
    /\ wake.on
    /\ \A s \in DOMAIN step.plugged :
         step.plugged[s] = "import" => s \in Registered /\ Clears(Server(s))

\* Only the present attempt may have acted, and then the wake is marked, or its step is
\* about to mark it.
DeedsOK ==
  wake.on => /\ wake.deeds \subseteq {wake.attempt}
             /\ wake.deeds # {} => wake.unretryable \/ (step.on /\ step.outward)

\* The trust is no higher than that of anything the attempt's earlier steps read.
ReadOK == wake.on => \A l \in wake.read : Rank(wake.trust) <= Rank(l)

InvocationInv ==
  /\ InvocationTypeOK /\ StepOK /\ DeedsOK /\ ReadOK
  /\ ActsWithinState /\ PrivilegeNeedsCleanWalk

\* The engine's own calls and those of the plugged servers.
LEMMA CallsAre ==
  ASSUME InvocationInv, step.on,
         NEW call \in Offered(step.prompt.state) \cup McpCalls(step.plugged)
  PROVE  \/ ~IsMcp(call) /\ call \in BuiltinCalls
         \/ /\ IsMcp(call)
            /\ \E s \in DOMAIN step.plugged : \E t \in Tools[s] :
                 call.name = <<"mcp", s, t>> /\ call.name[2] = s /\ call.name[3] = t
<1>1. CASE call \in Offered(step.prompt.state)
  BY <1>1, InvocationAssumption DEF Offered, IsMcp
<1>2. CASE call \in McpCalls(step.plugged)
  <2>1. PICK s \in DOMAIN step.plugged : \E t \in Tools[s] :
          call = [name |-> <<"mcp", s, t>>, target |-> <<>>]
    BY <1>2 DEF McpCalls
  <2>2. PICK t \in Tools[s] : call = [name |-> <<"mcp", s, t>>, target |-> <<>>]
    BY <2>1
  <2>3. call.name = <<"mcp", s, t>>
    BY <2>2
  <2> QED
    BY <2>3 DEF IsMcp
<1> QED
  BY <1>1, <1>2

\* Whatever a call the wall lets through does, the state may do it; and if it is for
\* good, or outward, the wall takes it for that.
LEMMA AllowedClass ==
  ASSUME InvocationInv, step.on,
         NEW call \in Offered(step.prompt.state) \cup McpCalls(step.plugged),
         Allows(StepWall, call)
  PROVE  /\ ClassOf(call) \in ToolClasses /\ ClassOf(call) \in ToolScope(step.prompt.state)
         /\ ClassOf(call) \in {"Post", "SettleTx"} => Outward(StepWall, call)
         /\ ClassOf(call) = "FileWrite" =>
              ~IsMcp(call) /\ Classify(call, StepWall.ladder) = "FileWrite"
<1> DEFINE ladder == Ladder(Inlined(step.prompt))
           class == Classify(call, ladder)
           scope == step.prompt.state
<1>1. scope \in States /\ step \in Step
  BY InvocationAssumption DEF InvocationInv, InvocationTypeOK, Step, StatePrompt
<1>2. StepWall.ladder = ladder /\ StepWall.scope = scope /\ StepWall.root = SoulRoot
  BY DEF StepWall, StateWall
<1> HIDE DEF class, ladder, scope
<1>3. class \in ToolScope(scope)
  BY <1>2 DEF Allows, class
<1>4. "Read" \in ToolScope(scope) /\ class # "Other" /\ ToolScope(scope) \subseteq ToolClasses
  BY <1>1, <1>3 DEF ToolScope, States, ToolClasses
<1>5. CASE ~IsMcp(call) /\ call \in BuiltinCalls
  <2>1. ClassOf(call) = class
    BY <1>5, BuiltinUnclaimed DEF ClassOf, class, ladder
  <2> QED
    BY <1>2, <1>3, <1>4, <1>5, <2>1 DEF Outward, class, scope
<1>6. ASSUME IsMcp(call), NEW s \in DOMAIN step.plugged, NEW t \in Tools[s],
             call.name = <<"mcp", s, t>>, call.name[2] = s, call.name[3] = t
      PROVE  ClassOf(call) \in {"Read", class} /\ ClassOf(call) # "FileWrite"
  <2>1. CASE step.plugged[s] = "import"
    <3>1. s \in Registered
      BY <2>1 DEF InvocationInv, StepOK
    <3>2. class \in {"Read", "Post", "SettleTx"} /\ Effect[s][t] \in {"Read", class}
      BY <1>4, <1>6, <3>1, McpClass DEF class, ladder
    <3> QED
      BY <1>6, <2>1, <3>2 DEF ClassOf
  <2>2. CASE step.plugged[s] # "import"
    BY <1>6, <2>2 DEF ClassOf
  <2> QED
    BY <2>1, <2>2
<1>7. CASE IsMcp(call) /\ ClassOf(call) \in {"Read", class} /\ ClassOf(call) # "FileWrite"
  BY <1>2, <1>3, <1>4, <1>7 DEF Outward, class, scope
<1> QED
  BY <1>5, <1>6, <1>7, CallsAre

\* A file the wall lets be written is the state's to write.
LEMMA AllowedWrite ==
  ASSUME InvocationInv, step.on, NEW call, Allows(StepWall, call),
         Classify(call, StepWall.ladder) = "FileWrite"
  PROVE  LET rel == SubSeq(Normalize(call.target), Len(SoulRoot) + 1, Len(Normalize(call.target)))
         IN /\ IsPrefix(SoulRoot, Normalize(call.target))
            /\ Head(rel) \in WritableDirs(step.prompt.state)
            /\ Head(rel) = "memory" => Permits(wake.trust, MemoryFloor)
<1> DEFINE abs == Normalize(call.target)
           rel == SubSeq(abs, Len(SoulRoot) + 1, Len(abs))
           scope == step.prompt.state
<1>1. scope \in States
  BY InvocationAssumption DEF InvocationInv, InvocationTypeOK, Step, StatePrompt
<1>2. /\ StepWall.scope = scope /\ StepWall.root = SoulRoot
      /\ StepWall.longTerm <=> Permits(wake.trust, MemoryFloor)
  BY DEF StepWall, StateWall, LongTermWritable
<1> HIDE DEF scope, abs
<1>3. /\ WriteTargetAllowed(scope, SoulRoot, call.target)
      /\ Permits(wake.trust, MemoryFloor) \/ ~Under(Relativize(SoulRoot, call.target), "memory")
  BY <1>2 DEF Allows
<1>4. PICK d \in WritableDirs(scope) : Under(Relativize(SoulRoot, call.target), d)
  BY <1>1, <1>3 DEF WriteTargetAllowed, States
<1>5. /\ Relativize(SoulRoot, call.target) # <<>>
      /\ Head(Relativize(SoulRoot, call.target)) = d
      /\ d = "memory" => Under(Relativize(SoulRoot, call.target), "memory")
  BY <1>4 DEF Under
<1>6. IsPrefix(SoulRoot, abs) /\ Relativize(SoulRoot, call.target) = rel
  BY <1>5 DEF Relativize, abs
<1> HIDE DEF rel
<1> QED
  BY <1>3, <1>4, <1>5, <1>6 DEF abs, rel, scope

\* The lowest of some labels.
LEMMA LowestIs ==
  ASSUME NEW labels, labels # {}
  PROVE  Lowest(labels) \in labels /\ \A l \in labels : Rank(Lowest(labels)) <= Rank(l)
<1> DEFINE R == {Rank(l) : l \in labels}
<1>1. R \in SUBSET Nat /\ R # {}
  BY RankType
<1>2. PICK m \in R : \A n \in R : m <= n
  <2> HIDE DEF R
  <2> QED
    BY <1>1, LeastNatural
<1>3. PICK l \in labels : m = Rank(l)
  BY <1>2
<1>4. \A k \in labels : Rank(l) <= Rank(k)
  BY <1>2, <1>3
<1> QED
  BY <1>3, <1>4 DEF Lowest

\* What a prompt gets plugged: no other than the servers known, and the registered ones
\* that the trust clears.
LEMMA PluggedIs ==
  ASSUME NEW p \in Prompts, NEW failing
  PROVE  /\ Plugged(p, failing) \in Plugs
         /\ \A s \in DOMAIN Plugged(p, failing) :
              Plugged(p, failing)[s] = "import" => s \in Registered /\ Clears(Server(s))
<1> DEFINE N == {p.mcp[n].name : n \in Requests(p, failing)}
           Of(s) == {n \in Requests(p, failing) : p.mcp[n].name = s}
           f == [s \in N |-> IF p.mcp[Max(Of(s))].inline THEN "inline" ELSE "import"]
<1>1. Plugged(p, failing) = f
  BY DEF Plugged
<1>2. Requests(p, failing) \subseteq DOMAIN p.mcp
  BY DEF Requests
<1>3. N \in SUBSET DOMAIN Tools
  BY <1>2, InvocationAssumption
<1>4. f \in [N -> {"import", "inline"}]
  OBVIOUS
<1>5. f \in Plugs
  <2> HIDE DEF N, f
  <2> QED
    BY <1>3, <1>4 DEF Plugs
<1>6. ASSUME NEW s \in N, f[s] = "import" PROVE s \in Registered /\ Clears(Server(s))
  <2>1. p.mcp \in Seq(McpRef)
    BY InvocationAssumption DEF StatePrompt
  <2>2. Of(s) \in SUBSET (1 .. Len(p.mcp)) /\ Len(p.mcp) \in Nat /\ Of(s) # {}
    BY <1>2, <2>1
  <2>3. Max(Of(s)) \in Of(s)
    <3> HIDE DEF Of
    <3> QED
      BY <2>2, GreatestIs
  <2>4. ~p.mcp[Max(Of(s))].inline
    BY <1>6
  <2> QED
    BY <2>3, <2>4 DEF Requests, Admitted
<1> HIDE DEF f
<1>7. DOMAIN f = N
  BY <1>4
<1> QED
  BY <1>1, <1>5, <1>6, <1>7

LEMMA InvocationBegins == ASSUME Init PROVE InvocationInv
<1>1. wakes = 0 /\ wake = Asleep /\ step = NoStep /\ act = NoAct
  BY DEF Init, InvocationInit
<1>2. wake.on = FALSE /\ step.on = FALSE /\ act.class = "none"
  BY <1>1 DEF Asleep, NoStep, NoAct
<1>3. InvocationTypeOK
  BY <1>1, <1>2, InvocationAssumption DEF InvocationTypeOK
<1>4. ActsWithinState /\ PrivilegeNeedsCleanWalk
  BY <1>1, <1>2 DEF ActsWithinState, ClassesKept, WritesKept, RepliesKept, PrivilegeNeedsCleanWalk
<1> QED
  BY <1>2, <1>3, <1>4 DEF InvocationInv, StepOK, DeedsOK, ReadOK

\* The record of the last call is left alone, or cleared.
LEMMA ActKept ==
  ASSUME InvocationInv, act' = act \/ act' = NoAct
  PROVE  /\ ActsWithinState' /\ PrivilegeNeedsCleanWalk'
         /\ act' = NoAct \/ act'.class \in ToolClasses
<1>1. CASE act' = act
  BY <1>1 DEF InvocationInv, InvocationTypeOK, ActsWithinState, ClassesKept, WritesKept, RepliesKept,
              PrivilegeNeedsCleanWalk
<1>2. CASE act' = NoAct
  <2>1. act'.class = "none"
    BY <1>2 DEF NoAct
  <2> QED
    BY <1>2, <2>1
    DEF ActsWithinState, ClassesKept, WritesKept, RepliesKept, PrivilegeNeedsCleanWalk
<1> QED
  BY <1>1, <1>2

\* Nothing runs after the step.
LEMMA FallsAsleep ==
  ASSUME InvocationInv, UNCHANGED wakes, wake' = Asleep, step' = NoStep,
         act' = act \/ act' = NoAct
  PROVE  InvocationInv'
<1>1. wake'.on = FALSE /\ step'.on = FALSE
  BY DEF Asleep, NoStep
<1>2. InvocationTypeOK'
  BY <1>1, ActKept DEF InvocationInv, InvocationTypeOK
<1> QED
  BY <1>1, <1>2, ActKept DEF InvocationInv, StepOK, DeedsOK, ReadOK

LEMMA WakeBeginsInv ==
  ASSUME InvocationInv, deployment \in Deployments, NEW seed \in deployment.seeds, WakeBegins(seed)
  PROVE  InvocationInv'
<1>1. seed \in Configured /\ seed \in TierNames
  BY DeploymentsAssumption, LatticeAssumption DEF Configured
<1>2. MaxWakes \in Nat /\ MaxAttempts \in Nat \ {0} /\ MaxSteps \in Nat \ {0}
  BY InvocationAssumption
<1>3. /\ wake'.on = TRUE /\ wake'.deeds = {} /\ wake'.read = {} /\ ~step.on
      /\ step' = step /\ act' = act
  BY DEF WakeBegins, InvocationInv, StepOK
<1>4. wake' \in Wake
  <2>1. 1 \in 1 .. MaxAttempts /\ 0 \in 0 .. MaxSteps
    BY <1>2
  <2> QED
    BY <1>1, <2>1 DEF WakeBegins, Wake
<1>5. wakes' \in 0 .. MaxWakes
  <2>1. wakes \in 0 .. MaxWakes
    BY DEF InvocationInv, InvocationTypeOK
  <2> QED
    <3>1. wakes < MaxWakes /\ wakes' = wakes + 1
      BY DEF WakeBegins
    <3> QED
      BY <1>2, <2>1, <3>1
<1>6. InvocationTypeOK'
  <2>1. IF step'.on THEN step' \in Step ELSE step' = NoStep
    BY <1>3 DEF InvocationInv, InvocationTypeOK
  <2> QED
    BY <1>3, <1>4, <1>5, <2>1, ActKept DEF InvocationTypeOK
<1> QED
  BY <1>3, <1>6, ActKept DEF InvocationInv, StepOK, DeedsOK, ReadOK

LEMMA StepBeginsInv ==
  ASSUME InvocationInv, deployment \in Deployments, NEW p \in deployment.prompts, NEW reply,
         StepBegins(p, reply)
  PROVE  InvocationInv'
<1>1. p \in Prompts
  BY DeploymentsAssumption
<1>2. PICK failing \in BOOLEAN :
        step' = [on |-> TRUE, prompt |-> p, plugged |-> Plugged(p, failing),
                 replyTo |-> Target(reply), outward |-> FALSE, accessed |-> {}]
  BY DEF StepBegins
<1>3. Target(reply) \in Range(Batch)
  <2>1. Len(Batch) \in Nat /\ Len(Batch) \in DOMAIN Batch
    BY InvocationAssumption
  <2>2. Last(Batch) \in Range(Batch)
    BY <2>1 DEF Last, Range
  <2> QED
    BY <2>2 DEF Target
<1>4. /\ Plugged(p, failing) \in Plugs
      /\ \A s \in DOMAIN Plugged(p, failing) :
           Plugged(p, failing)[s] = "import" => s \in Registered /\ Clears(Server(s))
  BY <1>1, PluggedIs
<1>5. /\ step' \in Step /\ step'.on = TRUE /\ step'.outward = FALSE
      /\ step'.plugged = Plugged(p, failing)
  BY <1>1, <1>2, <1>3, <1>4 DEF Step
<1>6. wake \in Wake /\ wake.on /\ ~step.on /\ wake.steps < MaxSteps
      /\ wake' = [wake EXCEPT !.steps = @ + 1] /\ act' = act /\ wakes' = wakes
  BY DEF StepBegins, InvocationInv, InvocationTypeOK
<1>7. /\ wake' \in Wake /\ wake'.on = wake.on /\ wake'.trust = wake.trust
      /\ wake'.read = wake.read /\ wake'.deeds = wake.deeds /\ wake'.attempt = wake.attempt
      /\ wake'.unretryable = wake.unretryable
  <2>1. wake.steps + 1 \in 0 .. MaxSteps
    <3>1. wake.steps \in 0 .. MaxSteps
      BY <1>6 DEF Wake
    <3>2. MaxSteps \in Nat
      BY InvocationAssumption
    <3> QED
      BY <1>6, <3>1, <3>2
  <2> QED
    BY <1>6, <2>1 DEF Wake
<1>8. InvocationTypeOK'
  BY <1>5, <1>6, <1>7, ActKept DEF InvocationInv, InvocationTypeOK
<1>9. StepOK'
  <2>1. \A s : Clears(Server(s)) <=> Clears(Server(s))'
    BY <1>7 DEF Clears
  <2> QED
    BY <1>4, <1>5, <1>6, <1>7, <2>1 DEF StepOK, Clears
<1>10. DeedsOK' /\ ReadOK'
  BY <1>6, <1>7 DEF InvocationInv, DeedsOK, ReadOK
<1> QED
  BY <1>6, <1>8, <1>9, <1>10, ActKept DEF InvocationInv

LEMMA StepReturnsInv ==
  ASSUME InvocationInv, StepReturns
  PROVE  InvocationInv'
<1>1. /\ step.on /\ step' = NoStep /\ step'.on = FALSE /\ act' = NoAct /\ wakes' = wakes
      /\ step \in Step /\ wake \in Wake /\ wake.on
  BY DEF StepReturns, NoStep, InvocationInv, InvocationTypeOK, StepOK
<1>2. step.prompt.state \in States /\ step.accessed \subseteq TierNames /\ step.outward \in BOOLEAN
  BY <1>1, InvocationAssumption DEF Step, StatePrompt
<1> DEFINE trust == IF step.accessed = {} THEN wake.trust
                    ELSE Meet(wake.trust, Lowest(step.accessed))
<1>3. trust \in TierNames /\ Rank(trust) <= Rank(wake.trust)
      /\ \A l \in step.accessed : Rank(trust) <= Rank(l)
  <2>1. wake.trust \in TierNames
    BY <1>1 DEF Wake
  <2>2. \A a : Rank(a) \in Nat
    BY RankType
  <2>3. CASE step.accessed = {}
    BY <2>1, <2>2, <2>3
  <2>4. CASE step.accessed # {}
    <3> DEFINE low == Lowest(step.accessed)
    <3>1. low \in step.accessed /\ \A l \in step.accessed : Rank(low) <= Rank(l)
      BY <2>4, LowestIs
    <3>2. trust = Meet(wake.trust, low)
      BY <2>4
    <3> HIDE DEF low, trust
    <3>3. trust \in {wake.trust, low} /\ Rank(trust) <= Rank(wake.trust) /\ Rank(trust) <= Rank(low)
      BY <3>2, MeetIsLower
    <3> QED
      BY <1>2, <2>1, <2>2, <3>1, <3>3
  <2> QED
    BY <2>3, <2>4
<1> HIDE DEF trust
<1>4. wake' = [wake EXCEPT !.from = step.prompt.state, !.unretryable = Mark(TRUE),
                           !.trust = trust, !.read = @ \cup step.accessed, !.deeds = Deeds]
  BY DEF StepReturns, trust
<1>5. /\ Deeds \subseteq {wake.attempt}
      /\ Deeds # {} => Mark(TRUE)
      /\ Mark(TRUE) \in BOOLEAN
  BY <1>1, <1>2 DEF Deeds, Mark, InvocationInv, DeedsOK, Wake
<1>6. Deeds \in SUBSET (1 .. MaxAttempts)
  BY <1>1, <1>5 DEF Wake
<1>7. /\ wake' \in Wake /\ wake'.on = TRUE /\ wake'.trust = trust
      /\ wake'.read = wake.read \cup step.accessed /\ wake'.deeds = Deeds
      /\ wake'.attempt = wake.attempt /\ (wake'.unretryable <=> Mark(TRUE))
  BY <1>1, <1>2, <1>3, <1>4, <1>5, <1>6 DEF Wake
<1>8. InvocationTypeOK'
  BY <1>1, <1>7, ActKept DEF InvocationInv, InvocationTypeOK
<1>9. DeedsOK'
  BY <1>5, <1>7 DEF DeedsOK
<1>10. ReadOK'
  <2>1. wake.trust \in TierNames /\ \A l \in wake.read : Rank(wake.trust) <= Rank(l)
    BY <1>1 DEF InvocationInv, ReadOK, Wake
  <2>2. \A l \in wake.read \cup step.accessed : Rank(trust) <= Rank(l)
    BY <1>3, <2>1, RankType
  <2>3. \A l \in wake'.read : Rank(wake'.trust) <= Rank(l)
    BY <1>7, <2>2
  <2> QED
    BY <2>3 DEF ReadOK, Rank
<1> QED
  BY <1>1, <1>8, <1>9, <1>10, ActKept DEF InvocationInv, StepOK

LEMMA StepTimesOutInv ==
  ASSUME InvocationInv, StepTimesOut
  PROVE  InvocationInv'
<1>1. /\ step.on /\ step' = NoStep /\ step'.on = FALSE /\ act' = NoAct /\ wakes' = wakes
      /\ step \in Step /\ wake \in Wake /\ wake.on
  BY DEF StepTimesOut, NoStep, InvocationInv, InvocationTypeOK, StepOK
<1>2. CASE ~Retryable(Mark(FALSE))
  BY <1>1, <1>2, FallsAsleep DEF StepTimesOut
<1>3. CASE Retryable(Mark(FALSE))
  <2>1. ~wake.unretryable /\ ~step.outward /\ step.prompt.state # "Reflect"
        /\ wake.attempt < MaxAttempts
    BY <1>3 DEF Retryable, Mark
  <2>2. Deeds = {}
    BY <1>1, <2>1 DEF Deeds, InvocationInv, DeedsOK
  <2>3. wake' = [wake EXCEPT !.trust = wake.seed, !.from = "", !.steps = 0, !.read = {},
                             !.attempt = @ + 1, !.unretryable = FALSE, !.deeds = Deeds]
    BY <1>3 DEF StepTimesOut
  <2>4. wake.attempt + 1 \in 1 .. MaxAttempts /\ 0 \in 0 .. MaxSteps /\ wake.seed \in TierNames
    <3>1. wake.attempt \in 1 .. MaxAttempts /\ wake.seed \in Configured
      BY <1>1 DEF Wake
    <3>2. MaxAttempts \in Nat /\ MaxSteps \in Nat
      BY InvocationAssumption
    <3>3. wake.seed \in TierNames
      BY <3>1, LatticeAssumption DEF Configured
    <3> QED
      BY <2>1, <3>1, <3>2, <3>3
  <2>5. wake' \in Wake /\ wake'.on = TRUE /\ wake'.deeds = {} /\ wake'.read = {}
    BY <1>1, <2>2, <2>3, <2>4 DEF Wake
  <2>6. InvocationTypeOK'
    BY <1>1, <2>5, ActKept DEF InvocationInv, InvocationTypeOK
  <2> QED
    BY <1>1, <2>5, <2>6, ActKept DEF InvocationInv, StepOK, DeedsOK, ReadOK
<1> QED
  BY <1>2, <1>3

LEMMA PermissionInv ==
  ASSUME InvocationInv, step.on,
         NEW call \in Offered(step.prompt.state) \cup McpCalls(step.plugged), Permission(call)
  PROVE  InvocationInv'
<1> DEFINE outward == Outward(StepWall, call)
           class == ClassOf(call)
           scope == step.prompt.state
           inline == IsMcp(call) /\ step.plugged[call.name[2]] = "inline"
<1>1. /\ Allows(StepWall, call) /\ wakes' = wakes
      /\ act' = [class |-> class, call |-> call, state |-> scope, trust |-> wake.trust,
                 replyTo |-> step.replyTo, read |-> wake.read, inline |-> inline]
      /\ step' = [step EXCEPT !.outward = @ \/ outward,
                              !.accessed = IF IsMcp(call) THEN @ \cup Label(call) ELSE @]
      /\ wake' = IF class \in {"Post", "SettleTx"}
                 THEN [wake EXCEPT !.deeds = @ \cup {wake.attempt}] ELSE wake
  BY DEF Permission
<1>2. /\ class \in ToolClasses /\ class \in ToolScope(scope)
      /\ class \in {"Post", "SettleTx"} => outward
      /\ class = "FileWrite" => Classify(call, StepWall.ladder) = "FileWrite"
  BY <1>1, AllowedClass
<1>3. outward \in BOOLEAN /\ inline \in BOOLEAN
  BY DEF Outward
<1>4. step \in Step /\ wake \in Wake /\ wake.on /\ step.on = TRUE
  BY DEF InvocationInv, InvocationTypeOK, StepOK, Step
<1> HIDE DEF outward, class, scope, inline
<1>5. IsMcp(call) => Label(call) \subseteq TierNames
  <2>1. \A s \in Registered : Server(s).trust \in TierNames
    BY ServerIs DEF McpServer
  <2> QED
    BY <2>1, InvocationAssumption DEF Label
<1>6. /\ step' \in Step /\ step'.on = TRUE /\ step'.plugged = step.plugged
      /\ step'.outward <=> (step.outward \/ outward)
  <2> DEFINE accessed == IF IsMcp(call) THEN step.accessed \cup Label(call) ELSE step.accessed
  <2>1. accessed \in SUBSET TierNames
    BY <1>4, <1>5 DEF Step
  <2>2. step' = [step EXCEPT !.outward = @ \/ outward, !.accessed = accessed]
    BY <1>1
  <2>3. (step.outward \/ outward) \in BOOLEAN
    OBVIOUS
  <2> HIDE DEF accessed
  <2> QED
    BY <1>4, <2>1, <2>2, <2>3 DEF Step
<1>7. /\ wake' \in Wake /\ wake'.on = TRUE /\ wake'.trust = wake.trust /\ wake'.read = wake.read
      /\ wake'.attempt = wake.attempt /\ wake'.unretryable = wake.unretryable
      /\ wake'.deeds = IF class \in {"Post", "SettleTx"} THEN wake.deeds \cup {wake.attempt}
                       ELSE wake.deeds
  BY <1>1, <1>4 DEF Wake
<1>8. /\ act'.class = class /\ act'.call = call /\ act'.state = scope /\ act'.trust = wake.trust
      /\ act'.replyTo = step.replyTo /\ act'.read = wake.read /\ act'.inline = inline
  BY <1>1
<1>9. InvocationTypeOK'
  BY <1>1, <1>2, <1>6, <1>7, <1>8 DEF InvocationInv, InvocationTypeOK
<1>10. StepOK'
  <2>1. \A s : Clears(Server(s)) <=> Clears(Server(s))'
    BY <1>7 DEF Clears
  <2> QED
    BY <1>4, <1>6, <1>7, <2>1 DEF InvocationInv, StepOK, Clears
<1>11. DeedsOK'
  <2>1. /\ wake.deeds \subseteq {wake.attempt}
        /\ wake.deeds # {} => wake.unretryable \/ step.outward
    BY <1>4 DEF InvocationInv, DeedsOK
  <2> QED
    BY <1>2, <1>6, <1>7, <2>1 DEF DeedsOK
<1>12. ReadOK'
  BY <1>4, <1>7 DEF InvocationInv, ReadOK, Rank
<1>13. ActsWithinState'
  <2>1. ClassesKept'
    BY <1>1, <1>2, <1>8 DEF ClassesKept, Allows, StepWall, StateWall
  <2>2. WritesKept'
    <3>1. CASE class = "FileWrite"
      <4>1. Classify(call, StepWall.ladder) = "FileWrite"
        BY <1>2, <3>1
      <4> QED
        BY <1>1, <1>8, <3>1, <4>1, AllowedWrite DEF WritesKept, scope
    <3>2. CASE class # "FileWrite"
      BY <1>8, <3>2 DEF WritesKept
    <3> QED
      BY <3>1, <3>2
  <2>3. RepliesKept'
    BY <1>4, <1>8 DEF RepliesKept, Step
  <2> QED
    BY <2>1, <2>2, <2>3 DEF ActsWithinState
<1>14. PrivilegeNeedsCleanWalk'
  <2>1. SUFFICES ASSUME IsMcp(call), ~inline, Server(call.name[2]).min # "", NEW l \in wake.read
                 PROVE  Permits(l, Server(call.name[2]).min)
    BY <1>8 DEF PrivilegeNeedsCleanWalk, IsMcp
  <2>2. PICK s \in DOMAIN step.plugged : call.name[2] = s
    BY <2>1, CallsAre
  <2>3. step.plugged[s] = "import"
    <3>1. step.plugged \in Plugs
      BY <1>4 DEF Step
    <3>2. step.plugged[s] \in {"import", "inline"}
      BY <3>1 DEF Plugs
    <3> QED
      BY <2>1, <2>2, <3>2 DEF inline
  <2>4. Permits(wake.trust, Server(s).min)
    BY <2>1, <2>2, <2>3 DEF InvocationInv, StepOK, Clears
  <2>5. Rank(wake.trust) <= Rank(l)
    BY <1>4 DEF InvocationInv, ReadOK
  <2> QED
    BY <2>2, <2>4, <2>5, RankType DEF Permits
<1> QED
  BY <1>9, <1>10, <1>11, <1>12, <1>13, <1>14 DEF InvocationInv

LEMMA InvocationNext ==
  ASSUME InvocationInv, deployment \in Deployments, [Next]_vars
  PROVE  InvocationInv'
<1>1. CASE UNCHANGED invocationVars
  BY <1>1 DEF invocationVars, InvocationInv, InvocationTypeOK, StepOK, DeedsOK, ReadOK, Clears, Rank,
              ActsWithinState, ClassesKept, WritesKept, RepliesKept, PrivilegeNeedsCleanWalk
<1>2. CASE WakeStep
  <2>1. ASSUME StepFails \/ WakeEnds PROVE InvocationInv'
    <3>1. /\ UNCHANGED wakes /\ wake' = Asleep /\ step' = NoStep /\ (act' = act \/ act' = NoAct)
      BY <2>1 DEF StepFails, WakeEnds, InvocationInv, InvocationTypeOK
    <3> QED
      BY <3>1, FallsAsleep
  <2> QED
    BY <1>2, <2>1, WakeBeginsInv, StepBeginsInv, PermissionInv, StepReturnsInv, StepTimesOutInv
    DEF WakeStep, Spawns
<1> QED
  BY <1>1, <1>2 DEF Next, vars, MainReturns

-----------------------------------------------------------------------------
(* The daemon.                                                              *)

DaemonInv == InvocationInv /\ WorkersInv /\ SupervisorInv /\ TypeOK

LEMMA DaemonBegins == ASSUME Init PROVE DaemonInv
<1>1. InvocationInv /\ WorkersInv /\ SupervisorInv
  BY InvocationBegins, WorkersBegin, SupervisorBegins
<1>2. up \in BOOLEAN
  BY DEF Init
<1> QED
  BY <1>1, <1>2 DEF DaemonInv, TypeOK, InvocationInv, WorkersInv, SupervisorInv

LEMMA DaemonNext == ASSUME DaemonInv, [Next]_vars PROVE DaemonInv'
<1>1. InvocationInv' /\ WorkersInv' /\ SupervisorInv'
  BY InvocationNext, WorkersNext, SupervisorNext DEF DaemonInv, WorkersInv
<1>2. up' \in BOOLEAN
  BY DEF DaemonInv, TypeOK, Next, vars, MainReturns
<1> QED
  BY <1>1, <1>2 DEF DaemonInv, TypeOK, InvocationInv, WorkersInv, SupervisorInv

LEMMA DaemonKeeps == Spec => []DaemonInv
<1>1. Init => DaemonInv
  BY DaemonBegins
<1>2. DaemonInv /\ [Next]_vars => DaemonInv'
  BY DaemonNext
<1> QED
  BY <1>1, <1>2, PTL DEF Spec

\* Every variable keeps its type: no wake has more attempts or steps than it may.
THEOREM TypeCorrect == Spec => []TypeOK
<1>1. DaemonInv => TypeOK
  BY DEF DaemonInv
<1> QED
  BY <1>1, DaemonKeeps, PTL

\* For every registry whose tools are what the operator says of them: no call the wall
\* lets through does what its state may not do, writes a file that is not the state's,
\* or answers a message outside the batch.
THEOREM ActsAreAllowed == Spec => []ActsWithinState
<1>1. DaemonInv => ActsWithinState
  BY DEF DaemonInv, InvocationInv
<1> QED
  BY <1>1, DaemonKeeps, PTL

\* A wake that acted outward or ran a Reflect is not dispatched a second time, whatever
\* ends its invocation and however many attempts it has.
THEOREM ActedOnce == Spec => []ActedIsFinal
<1>1. DaemonInv => ActedIsFinal
  BY DEF DaemonInv, InvocationInv, DeedsOK, ActedIsFinal
<1> QED
  BY <1>1, DaemonKeeps, PTL

\* Whatever the lattice, the prompts and the order of the calls: a server that takes a
\* minimum trust is not called after something below it was read.
THEOREM PrivilegeIsClean == Spec => []PrivilegeNeedsCleanWalk
<1>1. DaemonInv => PrivilegeNeedsCleanWalk
  BY DEF DaemonInv, InvocationInv
<1> QED
  BY <1>1, DaemonKeeps, PTL
=============================================================================
