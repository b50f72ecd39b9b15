-------------------------------- MODULE Daemon --------------------------------
(***************************************************************************)
(* The tasks of `dack run` beside the queue and the ingestion: the wakes and  *)
(* their invocations, the workers they launch, the module supervisor. The     *)
(* deployment says what is configured; main does not wait for any task, and   *)
(* what is running when it returns is dropped where it stands.               *)
(***************************************************************************)
EXTENDS Invocation, Workers, Supervisor

CONSTANT
  Deployments  \* [modules, sandbox, seeds, prompts, agents]: the modules enabled, the
               \* worker sandbox, the trusts wakes begin with, the soul's state-prompts
               \* and the agents its results name

ASSUME DeploymentsAssumption ==
  \A d \in Deployments :
    /\ d.modules \subseteq Modules /\ d.sandbox \in Sandbox /\ d.seeds \subseteq Configured
    /\ d.prompts \subseteq Prompts /\ d.agents \subseteq Agents

VARIABLES
  deployment,
  up          \* the process is up

vars == <<invocationVars, workerVars, supervisorVars, accidents, deployment, up>>

TypeOK ==
  /\ InvocationTypeOK /\ WorkersTypeOK /\ SupervisorTypeOK
  /\ accidents \in 0 .. MaxAccidents
  /\ deployment \in Deployments /\ up \in BOOLEAN

Init ==
  /\ deployment \in Deployments /\ accidents = 0
  /\ InvocationInit /\ WorkersInit(deployment.sandbox)
  /\ up = ~BootRefused
  /\ SupervisorInit(deployment.modules)

\* A result of Express may name an agent to launch; a `spawn` of another state is
\* ignored.
Spawns(agent) ==
  /\ step.on /\ step.prompt.state = "Express" /\ Len(workers) < MaxWorkers
  /\ StepReturns
  /\ workers' = Append(workers, Launched(agent))
  /\ UNCHANGED <<clock, sandbox, sequence, containers, reports, refused, accidents>>

WakeStep ==
  \/ /\ \/ \E t \in deployment.seeds : WakeBegins(t)
        \/ \E p \in deployment.prompts, r \in Messages \cup {NoReply} : StepBegins(p, r)
        \/ step.on /\ \E c \in Offered(step.prompt.state) \cup McpCalls(step.plugged) : Permission(c)
        \/ StepReturns /\ UNCHANGED accidents
        \/ StepFails \/ StepTimesOut \/ WakeEnds
     /\ UNCHANGED workerVars
  \/ \E a \in deployment.agents : Spawns(a)

\* The ingestion's select sees the watch and main returns.
MainReturns == shutdown /\ up' = FALSE

Next ==
  /\ up
  /\ UNCHANGED deployment
  /\ \/ WakeStep /\ UNCHANGED <<supervisorVars, up>>
     \/ (WorkerStep \/ Tick) /\ UNCHANGED <<invocationVars, supervisorVars, up>>
     \/ SupervisorStep /\ UNCHANGED <<invocationVars, workerVars, up>>
     \/ MainReturns /\ UNCHANGED <<invocationVars, workerVars, supervisorVars, accidents>>

Spec == Init /\ [][Next]_vars
=============================================================================
