--------------------------------- MODULE Wall ---------------------------------
(***************************************************************************)
(* The wall: which class a tool call has, and whether the state it is made in *)
(* may make it (classify_tool, StatePolicyResponder::decide), over the        *)
(* capabilities the operator registers (DackConfig). Pure operators.          *)
(*                                                                          *)
(* The name of a tool and the prefix of a capability are sequences of         *)
(* segments: mcp__chat__send is <<"mcp", "chat", "send">> and one prefix of   *)
(* it <<"mcp", "chat">>. So is a path.                                        *)
(***************************************************************************)
EXTENDS TrustLattice, SequencesExt

CONSTANTS
  Registry,    \* mcp_servers
  PostTools,   \* post_tools: prefixes of MCP tools, without an allowlist
  SettleTools, \* settle_tools, likewise
  Policies,    \* tier_policy: of the states that have one
  DryRun,      \* dry_run: [enabled, block]
  MemoryFloor, \* memory_write_min_trust
  SoulRoot     \* the path of the soul repository

\* What a capability server may do at most: look, act and take back, act for good.
CapabilityTier == {"Read", "Post", "SettleTx"}

\* A server: the tools it is registered for ({}: all of them), the trust of what it
\* returns, the least trust that may call it ("": any), whether it needs a secret.
McpServer == [name : STRING, tier : CapabilityTier, tools : SUBSET STRING,
              trust : TierNames, min : TierNames \cup {""}, auth : BOOLEAN]

\* The operator's half of the handshake: the servers a prompt of the state may import
\* or never has, and whether it may inline public ones of its own.
TierPolicy == [whitelist : BOOLEAN, import : SUBSET STRING, deny : SUBSET STRING]

Registered == {Registry[n].name : n \in DOMAIN Registry}
Server(name) == Registry[CHOOSE n \in DOMAIN Registry : Registry[n].name = name]

ASSUME RegistryAssumption ==
  /\ Registry \in Seq(McpServer)
  /\ \A n, o \in DOMAIN Registry : Registry[n].name = Registry[o].name => n = o
  /\ DOMAIN Policies \subseteq States
  /\ \A s \in DOMAIN Policies : Policies[s] \in TierPolicy
  /\ DryRun.enabled \in BOOLEAN
  /\ \A p \in PostTools \cup SettleTools : p \in Seq(STRING) /\ p # <<>> /\ Head(p) = "mcp"
  /\ SoulRoot \in Seq(STRING)

\* A state without a policy gets nothing.
PolicyFor(s) ==
  IF s \in DOMAIN Policies THEN Policies[s]
  ELSE [whitelist |-> TRUE, import |-> {}, deny |-> {}]

\* active_block: the prefixes that are denied while testing.
ActiveBlock == IF DryRun.enabled THEN DryRun.block ELSE {}

-----------------------------------------------------------------------------
(* What a name claims.                                                      *)

\* A capability on a rung of the ladder. The most privileged class is at the top: for
\* each class its explicit prefixes and then its servers, what a prompt inlines last.
Open(rung, prefix, class) == [rung |-> rung, prefix |-> prefix, class |-> class, tools |-> {}]
Surface(s) == [rung |-> CASE s.tier = "SettleTx" -> 2 [] s.tier = "Post" -> 4 [] s.tier = "Read" -> 5,
               prefix |-> <<"mcp", s.name>>, class |-> s.tier, tools |-> s.tools]

Capabilities ==
  {Open(1, p, "SettleTx") : p \in SettleTools} \cup {Open(3, p, "Post") : p \in PostTools}
    \cup {Surface(Registry[n]) : n \in DOMAIN Registry}

Ladder(inlined) == Capabilities \cup {Open(6, <<"mcp", s>>, "Read") : s \in inlined}

\* The boot refuses an irreversible prefix that overlaps with another class's.
Disjoint ==
  \A s, o \in Capabilities :
    s.class = "SettleTx" /\ o.class # "SettleTx"
      => ~IsPrefix(s.prefix, o.prefix) /\ ~IsPrefix(o.prefix, s.prefix)

ASSUME DisjointAssumption == Disjoint

Topmost(S) == {c \in S : \A d \in S : c.rung <= d.rung}

\* Mutant: an allowlist only skips its own capability; a later one may claim the tool.
ClaimSkipping(name, ladder) ==
  Topmost({c \in ladder : IsPrefix(c.prefix, name) /\ (c.tools = {} \/ Last(name) \in c.tools)})

\* The first capability whose prefix the name has claims it. Those of one rung say the
\* same of it: explicit prefixes have no allowlist, and a server's name is its own.
Claim(name, ladder) == Topmost({c \in ladder : IsPrefix(c.prefix, name)})

\* Only its listed tools are in the class of a capability that has a list.
OnList(name, c) ==
  c.tools = {} \/ (Len(name) = Len(c.prefix) + 1 /\ Last(name) \in c.tools)

-----------------------------------------------------------------------------
(* Paths.                                                                   *)

\* normalize_lexical: `..` takes back the segment before it, if there is one.
Normalize(path) ==
  FoldLeft(LAMBDA kept, seg : IF seg # ".." THEN Append(kept, seg)
                              ELSE IF kept = <<>> THEN kept ELSE Front(kept),
           <<>>, path)

\* The target as seen from the root, <<>> when it is not below it.
Relativize(root, target) ==
  LET abs == Normalize(target)
  IN IF IsPrefix(root, abs) THEN SubSeq(abs, Len(root) + 1, Len(abs)) ELSE <<>>

\* A prefix `memory/` needs something below it, `SOUL.md` does not.
Under(rel, dir) == rel # <<>> /\ Head(rel) = dir /\ (Len(rel) > 1 \/ dir = "SOUL.md")

WriteTargetAllowed(scope, root, target) ==
  LET rel == Relativize(root, target)
  IN /\ rel # <<>>
     /\ ~Under(rel, "runlogs")
     /\ scope = "worker" \/ \E d \in WritableDirs(scope) : Under(rel, d)

-----------------------------------------------------------------------------
(* The decision. A call is a tool's name and, for a file tool, its absolute   *)
(* target, <<>> for the others.                                             *)

FileReads == {"Read", "FileRead", "Grep", "Glob", "LS", "NotebookRead"}
OtherReads == {"LSP", "ReadMcpResource", "ListMcpResources", "ToolSearch",
               "TaskGet", "TaskList", "TaskOutput"}
FileWrites == {"Write", "FileWrite", "Edit", "FileEdit", "MultiEdit", "NotebookEdit"}
Shells == {"Bash", "BashOutput", "KillShell", "PowerShell", "REPL"}

TargetsRunlogs(target) == "runlogs" \in Range(target)

Classify(call, ladder) ==
  LET claim == Claim(call.name, ladder)
      tool == Head(call.name)
      listed == \A c \in claim : OnList(call.name, c)
  IN CASE claim # {} /\ listed -> (CHOOSE c \in claim : TRUE).class
       [] claim # {} /\ ~listed -> "Other"
       [] claim = {} /\ tool \in FileReads /\ ~TargetsRunlogs(call.target) -> "Read"
       [] claim = {} /\ tool \in {"WebFetch", "WebSearch"} -> "Net"
       [] claim = {} /\ tool \in OtherReads -> "Read"
       [] claim = {} /\ tool \in FileWrites -> "FileWrite"
       [] claim = {} /\ tool \in Shells -> "Shell"
       [] OTHER -> "Other"

LongTermWritable(trust) == Permits(trust, MemoryFloor)

\* The wall of an invocation; a worker's knows of no capability.
StateWall(s, root, inlined, trust) ==
  [scope |-> s, root |-> root, ladder |-> Ladder(inlined),
   longTerm |-> LongTermWritable(trust), block |-> ActiveBlock]
WorkerWall(root) ==
  [scope |-> "worker", root |-> root, ladder |-> {}, longTerm |-> TRUE, block |-> {}]

Allows(wall, call) ==
  LET class == Classify(call, wall.ladder)
  IN /\ class \in ToolScope(wall.scope)
     /\ ~\E p \in wall.block : IsPrefix(p, call.name)
     /\ class = "FileWrite" =>
          /\ WriteTargetAllowed(wall.scope, wall.root, call.target)
          /\ wall.longTerm \/ ~Under(Relativize(wall.root, call.target), "memory")

\* What acted_outward reports once the call is let through.
Outward(wall, call) ==
  Allows(wall, call) /\ Classify(call, wall.ladder) \in {"Post", "SettleTx"}
=============================================================================
