-------------------------------- MODULE Workers --------------------------------
(***************************************************************************)
(* Delegated workers (run_worker_detached): a task of its own that resolves   *)
(* an agent, runs it in a workspace of its own, in a container when the agent *)
(* asks for one and the runtime has a backend, and reports to the queue. Two  *)
(* workers interleave freely; the clock counts seconds. The backend is built  *)
(* at the boot (build_worker_backend), which it may refuse.                  *)
(***************************************************************************)
EXTENDS Wall, Accidents

CONSTANTS
  Agents,       \* the agents that may be named
  Guest,        \* the path a container sees the workspace at
  RunName,      \* the name format! makes of an agent's id, the second and a count
  WorkerCalls,  \* writes: [name, target] with the target relative to where it runs
  MaxWorkers,   \* bound: workers launched
  MaxTime       \* bound: the last second

\* What agents/<id>.md says, if there is one and it parses. `tools` is {} when it lists
\* none. A volume's source is a path below the soul root, its target one in the
\* container.
Agent == [id : STRING, def : {"good", "bad", "none"}, docker : BOOLEAN,
          tools : SUBSET STRING,
          volumes : SUBSET [source : Seq(STRING), exists : BOOLEAN, target : Seq(STRING)]]

ASSUME WorkersAssumption ==
  /\ \A a \in Agents : a \in Agent
  /\ \A c \in WorkerCalls : c \in [name : {<<tool>> : tool \in FileWrites}, target : Seq(STRING)]
  /\ Guest \in Seq(STRING)
  /\ MaxWorkers \in Nat /\ MaxTime \in Nat

Ids == {a.id : a \in Agents}

\* Different counts make different names.
ASSUME RunNameAssumption ==
  /\ RunName \in [Ids \X (0 .. MaxTime) \X (0 .. MaxWorkers) -> STRING \ {""}]
  /\ \A x, y \in DOMAIN RunName : x[3] # y[3] => RunName[x] # RunName[y]

VARIABLES
  clock,
  sandbox,    \* runtime.worker_sandbox, and what the preflight found
  workers,    \* the workers, in the order they were launched
  sequence,   \* WORKER_SEQ
  containers, \* the containers that are up
  reports,    \* the ids of the completion rows stored
  refused     \* history: whether a worker was refused a write into its workspace

workerVars == <<clock, sandbox, workers, sequence, containers, reports, refused>>

Worker == [agent : Agents, docker : BOOLEAN, run : Range(RunName) \cup {""},
           phase : {"launched", "running", "ended", "reporting", "gone"}, at : 0 .. MaxTime]

\* `image`: one is configured; `ignored`: the soul's .gitignore has workspaces/;
\* `available`: Docker answers and has the image.
Sandbox == [enabled : BOOLEAN, image : BOOLEAN, ignored : BOOLEAN, require : BOOLEAN,
            available : BOOLEAN]

\* Every variable keeps its type.
WorkersTypeOK ==
  /\ clock \in 0 .. MaxTime
  /\ sandbox \in Sandbox
  /\ workers \in Seq(Worker) /\ Len(workers) <= MaxWorkers
  /\ sequence \in 0 .. MaxWorkers
  /\ refused \in BOOLEAN

WorkersInit(configured) ==
  /\ sandbox = configured
  /\ clock = 0 /\ workers = <<>> /\ sequence = 0
  /\ containers = {} /\ reports = {} /\ refused = FALSE

Tick ==
  /\ clock < MaxTime /\ clock' = clock + 1
  /\ UNCHANGED <<sandbox, workers, sequence, containers, reports, refused, accidents>>

\* What is known of a worker before it runs.
Launched(agent) ==
  [agent |-> agent, docker |-> FALSE, run |-> "", phase |-> "launched", at |-> 0]

-----------------------------------------------------------------------------
(* The backend.                                                             *)

\* The boot is refused rather than run workers unconfined or lose their output.
BootRefused ==
  /\ sandbox.enabled
  /\ ~sandbox.image \/ ~sandbox.ignored \/ (sandbox.require /\ ~sandbox.available)

\* The runtime carries a backend; without one a worker runs on the host.
HasBackend == sandbox.enabled /\ sandbox.available

-----------------------------------------------------------------------------
(* A run.                                                                   *)

\* Mutant: the name has the agent and the second only.
RunIdBySecond(agent, n) == RunName[<<agent.id, clock, 0>>]

\* Unique: the agent, the second and the process-wide count.
RunId(agent, n) == RunName[<<agent.id, clock, n>>]

Isolated(agent) == agent.docker /\ HasBackend

Workspace(w) == SoulRoot \o <<"workspaces", w.run>>

\* resolve_worker_volumes: what exists inside the soul, for reading.
Volumes(agent) ==
  {[host |-> Normalize(SoulRoot \o v.source), guest |-> v.target, writable |-> FALSE] :
     v \in {u \in agent.volumes :
              u.exists /\ IsPrefix(SoulRoot, Normalize(SoulRoot \o u.source))}}

\* What `docker run` is given.
Container(w) ==
  [name |-> w.run,
   mounts |-> {[host |-> Workspace(w), guest |-> Guest, writable |-> TRUE]}
              \cup Volumes(w.agent)]
Names == {c.name : c \in containers}

\* worker_sub_helper_defs: a worker on the host may run every other agent, and is
\* offered their tools beside its own; one in a container has no helpers.
SubHelpers(w) ==
  IF w.docker THEN {} ELSE {a \in Agents : a.def = "good" /\ a.id # w.agent.id}
OfferedTools(w) ==
  IF w.agent.tools = {} THEN {} ELSE w.agent.tools \cup UNION {a.tools : a \in SubHelpers(w)}
OfferedTo(w, call) == OfferedTools(w) = {} \/ Head(call.name) \in OfferedTools(w)

\* The wall is rooted at the path the bridge works in.
WallRoot(w) == IF w.docker THEN Guest ELSE Workspace(w)

BridgeCwd(w) == IF w.docker THEN Guest ELSE Workspace(w)

\* The worker goes on to report, with the second it ends in.
Reporting(w) == [w EXCEPT !.phase = "reporting", !.at = clock]

\* The agent's definition cannot be read or parsed.
Unresolved(i) ==
  /\ workers[i].phase = "launched" /\ workers[i].agent.def # "good"
  /\ workers' = [workers EXCEPT ![i] = Reporting(@)]
  /\ UNCHANGED <<clock, sandbox, sequence, containers, reports, refused, accidents>>

\* The workspace cannot be created.
NoWorkspace(i) ==
  /\ workers[i].phase = "launched" /\ workers[i].agent.def = "good"
  /\ Accident
  /\ sequence' = sequence + 1
  /\ workers' = [workers EXCEPT ![i] = Reporting(@)]
  /\ UNCHANGED <<clock, sandbox, containers, reports, refused>>

\* The bridge is spawned. A container whose name is taken does not come up, and the
\* run ends with it.
Runs(i) ==
  /\ workers[i].phase = "launched" /\ workers[i].agent.def = "good"
  /\ LET agent == workers[i].agent
         run == RunId(agent, sequence)
         taken == Isolated(agent) /\ run \in Names
         worker == [workers[i] EXCEPT !.run = run, !.docker = Isolated(agent),
                                      !.phase = IF taken THEN "ended" ELSE "running"]
     IN /\ workers' = [workers EXCEPT ![i] = worker]
        /\ containers' = IF worker.docker /\ ~taken
                         THEN containers \cup {Container(worker)} ELSE containers
  /\ sequence' = sequence + 1
  /\ UNCHANGED <<clock, sandbox, reports, refused, accidents>>

\* The worker asks to write. A target is spelled from where the bridge works.
WorkerAsks(i, call) ==
  /\ workers[i].phase = "running" /\ OfferedTo(workers[i], call)
  /\ LET target == BridgeCwd(workers[i]) \o call.target
         rel == Relativize(BridgeCwd(workers[i]), target)
         inside == rel # <<>> /\ ~Under(rel, "runlogs")
         allowed == Allows(WorkerWall(WallRoot(workers[i])), [call EXCEPT !.target = target])
     IN refused' = (refused \/ (inside # allowed))
  /\ UNCHANGED <<clock, sandbox, workers, sequence, containers, reports, accidents>>

Without(w) == {c \in containers : c.name # w.run}

\* It returns, fails or times out. Its container goes with it, unless only the local
\* client died.
WorkerEnds(i) ==
  /\ workers[i].phase = "running"
  /\ workers' = [workers EXCEPT ![i].phase = "ended"]
  /\ containers' \in {containers, Without(workers[i])}
  /\ UNCHANGED <<clock, sandbox, sequence, reports, refused, accidents>>

\* A container is removed by its name.
Reaped(w) == IF w.docker THEN Without(w) ELSE containers

Reap(i) ==
  /\ workers[i].phase = "ended"
  /\ containers' = Reaped(workers[i])
  /\ workers' = [workers EXCEPT ![i] = Reporting(@)]
  /\ UNCHANGED <<clock, sandbox, sequence, reports, refused, accidents>>

\* enqueue_worker_completion: INSERT OR IGNORE of a row named after the agent and
\* the second; a failure is only logged.
Report(i) ==
  /\ workers[i].phase = "reporting"
  /\ workers' = [workers EXCEPT ![i].phase = "gone"]
  /\ \/ /\ reports' = reports \cup {<<workers[i].agent.id, workers[i].at>>}
        /\ UNCHANGED accidents
     \/ Accident /\ UNCHANGED reports
  /\ UNCHANGED <<clock, sandbox, sequence, containers, refused>>

WorkerStep ==
  \E i \in DOMAIN workers :
    \/ Unresolved(i) \/ NoWorkspace(i) \/ Runs(i)
    \/ \E c \in WorkerCalls : WorkerAsks(i, c)
    \/ WorkerEnds(i) \/ Reap(i) \/ Report(i)

-----------------------------------------------------------------------------
\* A worker that is gone has a completion row of its agent and second, unless storing
\* it failed.
Completes ==
  accidents = 0 =>
    \A i \in DOMAIN workers :
      workers[i].phase = "gone" => <<workers[i].agent.id, workers[i].at>> \in reports

\* One that runs in a container has that container to itself until it ends, and leaves
\* none behind.
OwnsContainer ==
  /\ \A i \in DOMAIN workers :
       workers[i].phase = "running" /\ workers[i].docker => workers[i].run \in Names
  /\ \A c \in containers :
       \E i \in DOMAIN workers : workers[i].run = c.name /\ workers[i].phase \in {"running", "ended"}

\* Where a sandbox is required, an agent that asks for a container never runs on the
\* host; a container sees nothing outside the soul, and writes to no path another one
\* writes to.
Confined ==
  /\ \A i \in DOMAIN workers :
       /\ workers[i].phase = "running" /\ workers[i].agent.docker
       /\ sandbox.enabled /\ sandbox.require
       => workers[i].docker
  /\ \A c \in containers : \A m \in c.mounts :
       /\ IsPrefix(SoulRoot, m.host)
       /\ m.writable =>
            \A d \in containers : \A n \in d.mounts : n.writable /\ c # d => ~IsPrefix(m.host, n.host)

\* A worker is refused exactly what lies outside its workspace (or in a runlogs
\* directory of it).
WorkersAnswer == Completes /\ OwnsContainer /\ Confined /\ ~refused
=============================================================================
