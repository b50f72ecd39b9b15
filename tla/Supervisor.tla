------------------------------ MODULE Supervisor ------------------------------
(***************************************************************************)
(* The module supervisor (harness/modules.rs): a task per enabled module that *)
(* starts it, waits for its exit and restarts it after a delay that doubles   *)
(* up to a cap and is reset by a run that lasted; all of them stop with the   *)
(* shutdown watch. A module counts its own time.                             *)
(***************************************************************************)
EXTENDS Accidents

CONSTANTS
  Modules,       \* the modules that may be declared
  BackoffStart,  \* BACKOFF_START
  BackoffCap,    \* BACKOFF_CAP
  HealthyUptime, \* HEALTHY_UPTIME
  MaxStreak      \* bound: restarts counted since the last healthy run

ASSUME SupervisorAssumption ==
  /\ BackoffStart \in Nat \ {0} /\ HealthyUptime \in Nat /\ MaxStreak \in Nat
  /\ BackoffCap \in Nat /\ BackoffCap >= BackoffStart

VARIABLES
  shutdown,  \* the shutdown watch
  tasks      \* the supervisor's task of each enabled module

supervisorVars == <<shutdown, tasks>>

\* `timer` counts the uptime or the sleep; `streak` is history: the delays since the
\* start or the last healthy run.
Task == [phase : {"check", "secrets", "running", "asleep", "stopped"},
         backoff : BackoffStart .. BackoffCap, timer : Nat, streak : 0 .. MaxStreak]
FreshTask == [phase |-> "check", backoff |-> BackoffStart, timer |-> 0, streak |-> 0]

\* Every variable keeps its type.
SupervisorTypeOK ==
  /\ shutdown \in BOOLEAN
  /\ \A m \in DOMAIN tasks : m \in Modules /\ tasks[m] \in Task

SupervisorInit(enabled) == shutdown = FALSE /\ tasks = [m \in enabled |-> FreshTask]

Becomes(m, task) == tasks' = [tasks EXCEPT ![m] = task]

\* SIGTERM or SIGINT.
Signal == ~shutdown /\ shutdown' = TRUE /\ UNCHANGED tasks

\* The top of supervise's loop.
Check(m) ==
  /\ tasks[m].phase = "check"
  /\ Becomes(m, [tasks[m] EXCEPT !.phase = IF shutdown THEN "stopped" ELSE "secrets"])
  /\ UNCHANGED <<shutdown, accidents>>

\* Its secrets are resolved, or not, and it is spawned: run_once waits for neither
\* with the shutdown in view.
Spawned(m) ==
  /\ tasks[m].phase = "secrets"
  /\ Becomes(m, [tasks[m] EXCEPT !.phase = "running", !.timer = 0])
  /\ UNCHANGED <<shutdown, accidents>>

\* Mutant: the delay is reset by any run.
ResetAlways(uptime) == TRUE

\* Only a run that lasted resets the delay.
Resets(uptime) == uptime >= HealthyUptime

\* The loop goes on after a run, unless the watch has flipped.
AfterRun(m, uptime) ==
  LET backoff == IF Resets(uptime) THEN BackoffStart ELSE tasks[m].backoff
      streak == IF uptime >= HealthyUptime THEN 0 ELSE tasks[m].streak
  IN Becomes(m, [phase |-> IF shutdown THEN "stopped" ELSE "asleep",
                 backoff |-> backoff, timer |-> 0, streak |-> streak])

SpawnFails(m) ==
  /\ tasks[m].phase = "secrets" /\ tasks[m].streak < MaxStreak
  /\ AfterRun(m, 0)
  /\ UNCHANGED <<shutdown, accidents>>

Exits(m) ==
  /\ tasks[m].phase = "running" /\ tasks[m].streak < MaxStreak
  /\ AfterRun(m, tasks[m].timer)
  /\ UNCHANGED <<shutdown, accidents>>

\* The watch flips: a running child is killed, a sleep is cut short.
Stops(m) ==
  /\ shutdown /\ tasks[m].phase \in {"running", "asleep"}
  /\ Becomes(m, [tasks[m] EXCEPT !.phase = "stopped"])
  /\ UNCHANGED <<shutdown, accidents>>

Doubled(backoff) == IF 2 * backoff > BackoffCap THEN BackoffCap ELSE 2 * backoff

\* The sleep is over.
SleepEnds(m) ==
  /\ tasks[m].phase = "asleep" /\ tasks[m].timer >= tasks[m].backoff
  /\ Becomes(m, [phase |-> "check", backoff |-> Doubled(tasks[m].backoff), timer |-> 0,
                 streak |-> tasks[m].streak + 1])
  /\ UNCHANGED <<shutdown, accidents>>

Elapses(m) ==
  /\ \/ tasks[m].phase = "running" /\ tasks[m].timer < HealthyUptime
     \/ tasks[m].phase = "asleep" /\ tasks[m].timer < tasks[m].backoff
  /\ Becomes(m, [tasks[m] EXCEPT !.timer = @ + 1])
  /\ UNCHANGED <<shutdown, accidents>>

SupervisorStep ==
  \/ Signal /\ UNCHANGED accidents
  \/ \E m \in DOMAIN tasks :
       Check(m) \/ Spawned(m) \/ SpawnFails(m) \/ Exits(m) \/ Stops(m) \/ SleepEnds(m) \/ Elapses(m)

-----------------------------------------------------------------------------
\* The delay after that many failures in a row, if it were not capped.
Uncapped[n \in 0 .. MaxStreak] == IF n = 0 THEN BackoffStart ELSE 2 * Uncapped[n - 1]

\* A module that keeps failing is restarted after 1, 2, 4, ... and then always the
\* capped delay, counted from its last healthy run; and it stops only on shutdown.
RestartsPaced ==
  \A m \in DOMAIN tasks :
    /\ tasks[m].phase = "asleep" =>
         LET doubled == Uncapped[tasks[m].streak]
         IN tasks[m].backoff = IF doubled > BackoffCap THEN BackoffCap ELSE doubled
    /\ tasks[m].phase = "stopped" => shutdown
=============================================================================
