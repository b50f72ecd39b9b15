------------------------------ MODULE Invocation ------------------------------
(***************************************************************************)
(* The steps of a wake as the harness runs them: the capabilities a prompt    *)
(* gets plugged (assemble_mcp_servers), the bridge asking the wall for each   *)
(* call, and the ways an invocation ends (OpenClaudeClient::invoke, run_step).*)
(* The bridge may hang, close or fail at any point, and a call it was allowed *)
(* may land later; so the properties speak of the calls the wall lets through.*)
(*                                                                          *)
(* One branch of the walk; the worklist, sessions and queue are in Cycle and  *)
(* ConsciousnessLoop. A server's secret may not resolve; no path in the soul  *)
(* is a symbolic link.                                                       *)
(***************************************************************************)
EXTENDS Wall, Accidents

CONSTANTS
  Prompts,      \* the soul's state-prompts
  BuiltinCalls, \* calls of the engine's own tools: [name, target]
  Tools,        \* the tools each server has, by the server's name
  Effect,       \* the class each tool of a registered server really is of
  Batch,        \* the messages in the payload, the latest last
  Messages,     \* every message a model may name
  MaxWakes,     \* bound: wakes
  MaxAttempts,  \* the first dispatch of a wake and its timeout retries
  MaxSteps      \* MAX_CYCLE_STEPS

\* A capability is requested by the name of a registered server, or inlined.
McpRef == [name : STRING, inline : BOOLEAN]
StatePrompt == [id : STRING, state : States, mcp : Seq(McpRef)]

ASSUME InvocationAssumption ==
  /\ \A p \in Prompts : p \in StatePrompt
  /\ \A p \in Prompts : \A n \in DOMAIN p.mcp : p.mcp[n].name \in DOMAIN Tools
  /\ \A c \in BuiltinCalls : c.name \in Seq(STRING) /\ c.name # <<>> /\ Head(c.name) # "mcp"
  /\ Batch \in Seq(Messages) /\ Batch # <<>>
  /\ Registered \subseteq DOMAIN Tools
  /\ "public" \in TierNames
  /\ MaxWakes \in Nat /\ MaxAttempts \in Nat \ {0} /\ MaxSteps \in Nat \ {0}

Declares(prefixes, s, t) == \E p \in prefixes : IsPrefix(p, <<"mcp", s, t>>)

\* The operator tells the truth: a tool that an explicit prefix declares is of that
\* prefix's class, and any other a server is registered for is of the server's, or it looks.
ASSUME EffectAssumption ==
  \A s \in Registered : \A t \in Tools[s] :
    /\ Effect[s][t] \in ToolClasses
    /\ CASE Declares(SettleTools, s, t) -> Effect[s][t] \in {"Read", "SettleTx"}
         [] Declares(PostTools, s, t) /\ ~Declares(SettleTools, s, t) ->
              Effect[s][t] \in {"Read", "Post"}
         [] OTHER ->
              Server(s).tools = {} \/ t \in Server(s).tools => Effect[s][t] \in {"Read", Server(s).tier}

VARIABLES
  wakes,  \* wakes popped so far
  wake,   \* the wake being dispatched
  step,   \* the invocation in flight
  act     \* history: the last call the wall let through in this step

invocationVars == <<wakes, wake, step, act>>

Asleep == [on |-> FALSE]
NoStep == [on |-> FALSE]
NoAct == [class |-> "none"]
NoReply == "none"

\* `read` and `deeds` are history: what this attempt's earlier steps read, and the
\* attempts that acted outward or ran a Reflect.
Wake == [on : {TRUE}, seed : Configured, trust : TierNames, from : States \cup {""},
         attempt : 1 .. MaxAttempts, steps : 0 .. MaxSteps, unretryable : BOOLEAN,
         read : SUBSET TierNames, deeds : SUBSET (1 .. MaxAttempts)]

\* plugged: the servers exposed, and whether each is the registered one or inlined.
Plugs == UNION {[S -> {"import", "inline"}] : S \in SUBSET DOMAIN Tools}
Step == [on : {TRUE}, prompt : Prompts, plugged : Plugs, replyTo : Range(Batch),
         outward : BOOLEAN, accessed : SUBSET TierNames]

\* Every variable keeps its type; no wake has more attempts or steps than allowed.
InvocationTypeOK ==
  /\ wakes \in 0 .. MaxWakes
  /\ IF wake.on THEN wake \in Wake ELSE wake = Asleep
  /\ IF step.on THEN step \in Step ELSE step = NoStep
  /\ act = NoAct \/ act.class \in ToolClasses

InvocationInit == wakes = 0 /\ wake = Asleep /\ step = NoStep /\ act = NoAct

-----------------------------------------------------------------------------
(* Assembling the step.                                                     *)

TierFits(tier, s) ==
  CASE tier = "Read" -> TRUE
    [] tier = "Post" -> s = "Express"
    [] tier = "SettleTx" -> s = "Settle"

\* Mutant: the gate looks at the trust the wake began with.
ClearsAtSeed(server) == server.min = "" \/ Permits(wake.seed, server.min)

\* A min_trust is checked against the trust as it is now.
Clears(server) == server.min = "" \/ Permits(wake.trust, server.min)

\* What the prompt requests, the state's policy admits and the state fits; a server
\* whose secret does not resolve is dropped.
Admitted(ref, s, failing) ==
  /\ ref.name \notin PolicyFor(s).deny
  /\ IF ref.inline THEN ~PolicyFor(s).whitelist
     ELSE /\ ref.name \in PolicyFor(s).import \cap Registered
          /\ LET server == Server(ref.name)
             IN TierFits(server.tier, s) /\ Clears(server) /\ ~(server.auth /\ failing)

\* Their positions in the prompt.
Requests(p, failing) == {n \in DOMAIN p.mcp : Admitted(p.mcp[n], p.state, failing)}

\* A later request replaces an earlier one of the same name.
Plugged(p, failing) ==
  [name \in {p.mcp[n].name : n \in Requests(p, failing)} |->
     LET last == Max({n \in Requests(p, failing) : p.mcp[n].name = name})
     IN IF p.mcp[last].inline THEN "inline" ELSE "import"]

Inlined(p) == {p.mcp[n].name : n \in {m \in Requests(p, FALSE) : p.mcp[m].inline}}

\* A reply goes to the message the baton names, if the batch has it; else to the latest.
Target(reply) == IF reply \in Range(Batch) THEN reply ELSE Last(Batch)

StepWall == StateWall(step.prompt.state, SoulRoot, Inlined(step.prompt), wake.trust)

\* Another wake is popped.
WakeBegins(seed) ==
  /\ ~wake.on /\ wakes < MaxWakes
  /\ wakes' = wakes + 1
  /\ wake' = [on |-> TRUE, seed |-> seed, trust |-> seed, from |-> "", attempt |-> 1,
              steps |-> 0, unretryable |-> FALSE, read |-> {}, deeds |-> {}]
  /\ UNCHANGED <<step, act, accidents>>

\* The entry, or a prompt a baton leads to, is invoked.
StepBegins(p, reply) ==
  /\ wake.on /\ ~step.on /\ wake.steps < MaxSteps
  /\ WithinCeiling(p.state, Reaches(wake.trust))
  /\ IF wake.from = "" THEN reply = NoReply ELSE AllowedTransition(wake.from, p.state)
  /\ \E failing \in BOOLEAN :
       /\ IF failing THEN Accident ELSE UNCHANGED accidents
       /\ step' = [on |-> TRUE, prompt |-> p, plugged |-> Plugged(p, failing),
                   replyTo |-> Target(reply), outward |-> FALSE, accessed |-> {}]
  /\ wake' = [wake EXCEPT !.steps = @ + 1]
  /\ UNCHANGED <<wakes, act>>

-----------------------------------------------------------------------------
(* The bridge asks for a call.                                              *)

\* What the engine is not even offered.
DisallowedFor(scope) ==
  ({"Bash", "PowerShell", "REPL", "KillShell"}
     \ (IF "Shell" \in ToolScope(scope) THEN {"Bash"} ELSE {}))
    \cup (IF "Net" \in ToolScope(scope) THEN {} ELSE {"WebFetch", "WebSearch"})

Offered(scope) == {c \in BuiltinCalls : Head(c.name) \notin DisallowedFor(scope)}

McpCalls(plugged) ==
  UNION {{[name |-> <<"mcp", s, t>>, target |-> <<>>] : t \in Tools[s]} : s \in DOMAIN plugged}

IsMcp(call) == Head(call.name) = "mcp"

\* What the call does, whatever the wall takes it for.
ClassOf(call) ==
  IF ~IsMcp(call) THEN Classify(call, {})
  ELSE IF step.plugged[call.name[2]] = "import" THEN Effect[call.name[2]][call.name[3]]
  ELSE "Read"

\* The label accessed_trust gives the call's server: by its name, `public` for one
\* that is not registered.
Label(call) ==
  IF call.name[2] \in Registered THEN {Server(call.name[2]).trust} ELSE {"public"}

\* The wall decides, records the call and answers; a denied call changes nothing
\* but the record.
Permission(call) ==
  /\ step.on
  /\ Allows(StepWall, call)
  /\ LET outward == Outward(StepWall, call)
         class == ClassOf(call)
     IN /\ act' = [class |-> class, call |-> call, state |-> step.prompt.state,
                   trust |-> wake.trust, replyTo |-> step.replyTo, read |-> wake.read,
                   inline |-> IsMcp(call) /\ step.plugged[call.name[2]] = "inline"]
        /\ step' = [step EXCEPT !.outward = @ \/ outward,
                                !.accessed = IF IsMcp(call) THEN @ \cup Label(call) ELSE @]
        /\ wake' = IF class \in {"Post", "SettleTx"}
                   THEN [wake EXCEPT !.deeds = @ \cup {wake.attempt}] ELSE wake
  /\ UNCHANGED <<wakes, accidents>>

-----------------------------------------------------------------------------
(* The invocation ends.                                                     *)

\* Mutant: the error is passed on before the wake is marked.
MarkAfterwards(returned) ==
  wake.unretryable \/ (returned /\ (step.outward \/ step.prompt.state = "Reflect"))

\* The wake may not be run again: it acted outward, or it is a Reflect.
Mark(returned) == wake.unretryable \/ step.outward \/ step.prompt.state = "Reflect"

\* accessed_trust: the lowest of the labels.
Lowest(labels) == CHOOSE l \in labels : \A k \in labels : Rank(l) <= Rank(k)

Deeds ==
  IF step.prompt.state = "Reflect" THEN wake.deeds \cup {wake.attempt} ELSE wake.deeds

\* A result: the branch's trust drops to what the step accessed.
StepReturns ==
  /\ step.on
  /\ step' = NoStep
  /\ wake' = [wake EXCEPT !.from = step.prompt.state, !.unretryable = Mark(TRUE),
                          !.trust = IF step.accessed = {} THEN @
                                    ELSE Meet(@, Lowest(step.accessed)),
                          !.read = @ \cup step.accessed, !.deeds = Deeds]
  /\ act' = NoAct /\ UNCHANGED wakes

\* The bridge reports an error, closes or cannot be spawned: the wake fails.
StepFails ==
  /\ step.on
  /\ step' = NoStep /\ wake' = Asleep /\ act' = NoAct
  /\ UNCHANGED <<wakes, accidents>>

\* Mutant: the cap counts retries, not attempts.
RetryableOnce(unretryable) == ~unretryable /\ wake.attempt <= MaxAttempts

Retryable(unretryable) == ~unretryable /\ wake.attempt < MaxAttempts

\* The budget runs out: the wake is dispatched again from the start, if it may be.
StepTimesOut ==
  /\ step.on
  /\ step' = NoStep
  /\ wake' = IF Retryable(Mark(FALSE))
             THEN [wake EXCEPT !.trust = wake.seed, !.from = "", !.steps = 0, !.read = {},
                               !.attempt = @ + 1, !.unretryable = FALSE, !.deeds = Deeds]
             ELSE Asleep
  /\ act' = NoAct /\ UNCHANGED <<wakes, accidents>>

\* No branch is left.
WakeEnds ==
  /\ wake.on /\ ~step.on /\ wake.from # ""
  /\ wake' = Asleep
  /\ UNCHANGED <<wakes, step, act, accidents>>

-----------------------------------------------------------------------------
\* A call is only ever made in a state that may make it: an irreversible one in
\* Settle, an outward one in Express, none a dry run holds back; whatever a server is
\* called and however its tools are listed, and however a path is spelled.
ClassesKept ==
  act # NoAct =>
    /\ act.class \in ToolScope(act.state)
    /\ \A p \in ActiveBlock : ~IsPrefix(p, act.call.name)

\* A file is only written in a directory the state owns: never a runlog, and long-term
\* memory only at the trust it takes.
WritesKept ==
  act.class = "FileWrite" =>
    LET rel == SubSeq(Normalize(act.call.target), Len(SoulRoot) + 1,
                      Len(Normalize(act.call.target)))
    IN /\ IsPrefix(SoulRoot, Normalize(act.call.target))
       /\ Head(rel) \in WritableDirs(act.state)
       /\ Head(rel) = "memory" => Permits(act.trust, MemoryFloor)

\* An outward call answers a message of the batch that woke the cycle.
RepliesKept == act.class = "Post" => act.replyTo \in Range(Batch)

ActsWithinState == ClassesKept /\ WritesKept /\ RepliesKept

\* A wake that acted outward, or ran a Reflect, is never dispatched again, however
\* its invocation ended.
ActedIsFinal == wake.on => \A a \in wake.deeds : a = wake.attempt

\* A server that takes a minimum trust is only called when everything the attempt's
\* earlier steps read has it. What an inlined server under a registered name returns
\* counts as that server's.
PrivilegeNeedsCleanWalk ==
  (act # NoAct /\ IsMcp(act.call) /\ ~act.inline /\ Server(act.call.name[2]).min # "") =>
    \A l \in act.read : Permits(l, Server(act.call.name[2]).min)
=============================================================================
