------------------------------- MODULE MCDaemon -------------------------------
(***************************************************************************)
(* An instance of Daemon for TLC. The operator registers a feed whose endpoint *)
(* also trades but is listed for reading only, a chat to post to, a vault that *)
(* takes the trust `self`, and a wallet; the soul inlines a blog, and a server *)
(* by the name of the feed. One deployment walks the states, two delegate to   *)
(* workers, with and without a container backend, one is refused for want of    *)
(* Docker, one runs a module: what they do shares nothing but the shutdown.    *)
(***************************************************************************)
EXTENDS Daemon

MCTiers == <<"public", "self">>
MCReaches == [t \in {"public", "self"} |-> IF t = "public" THEN "Express" ELSE "Reflect"]

Mcp(name, tier, tools, trust, min, auth) ==
  [name |-> name, tier |-> tier, tools |-> tools, trust |-> trust, min |-> min, auth |-> auth]

MCRegistry == <<Mcp("feed", "Read", {"get"}, "public", "", FALSE),
                Mcp("chat", "Post", {}, "self", "", TRUE),
                Mcp("vault", "Read", {}, "self", "self", FALSE),
                Mcp("wallet", "SettleTx", {}, "self", "self", FALSE)>>
MCTools == [feed |-> {"get", "buy"}, chat |-> {"send", "bulk"}, vault |-> {"get"},
            wallet |-> {"pay"}, blog |-> {"get"}]
MCEffect == [feed |-> [get |-> "Read", buy |-> "SettleTx"],
             chat |-> [send |-> "Post", bulk |-> "Post"],
             vault |-> [get |-> "Read"], wallet |-> [pay |-> "SettleTx"]]
MCSettleTools == {}
MCPostTools == {<<"mcp", "chat", "bulk">>}
MCDryRun == [enabled |-> TRUE, block |-> {<<"mcp", "chat", "bulk">>}]

Grants(whitelist, import, deny) == [whitelist |-> whitelist, import |-> import, deny |-> deny]
MCPolicies ==
  [s \in States \ {"Reflect"} |->
     CASE s = "Perceive" -> Grants(FALSE, {"feed", "vault", "wallet"}, {})
       [] s = "Express" -> Grants(TRUE, {"chat", "vault"}, {})
       [] s = "Settle" -> Grants(TRUE, {"wallet", "vault"}, {"vault"})]

Import(name) == [name |-> name, inline |-> FALSE]
Inline(name) == [name |-> name, inline |-> TRUE]
Prompt(id, s, mcp) == [id |-> id, state |-> s, mcp |-> mcp]
MCPrompts ==
  {Prompt("perceive", "Perceive", <<Inline("feed"), Import("feed"), Import("vault"), Inline("blog")>>),
   Prompt("shadow", "Perceive", <<Import("feed"), Inline("feed"), Import("wallet")>>),
   Prompt("express", "Express", <<Import("chat"), Import("vault"), Inline("blog")>>),
   Prompt("delegate", "Express", <<>>),
   Prompt("settle", "Settle", <<Import("wallet"), Import("vault")>>),
   Prompt("reflect", "Reflect", <<Import("vault"), Inline("blog")>>)}

MCRoot == <<"soul">>
MCBuiltinCalls ==
  {[name |-> <<"Write">>, target |-> MCRoot \o t] :
     t \in {<<"memory", "a">>, <<"memory", "..", "prompts", "p">>, <<"runlogs", "r">>,
            <<"..", "etc">>}}
  \cup {[name |-> <<"Read">>, target |-> <<"soul", "runlogs", "r">>],
        [name |-> <<"WebFetch">>, target |-> <<>>], [name |-> <<"Bash">>, target |-> <<>>]}
MCBatch == <<"m1", "m2">>

Volume(source, exists) == [source |-> source, exists |-> exists, target |-> <<"mnt">> \o source]
AgentFile(id, def, docker, tools, volumes) ==
  [id |-> id, def |-> def, docker |-> docker, tools |-> tools, volumes |-> volumes]
MCCoder == AgentFile("coder", "good", TRUE, {"Write"},
                  {Volume(<<"memory">>, TRUE), Volume(<<"..", "etc">>, TRUE),
                   Volume(<<"lore">>, FALSE)})
MCGhost == AgentFile("ghost", "none", FALSE, {}, {})
MCPlanner == AgentFile("planner", "good", FALSE, {"Edit"}, {})
MCAgents == {MCCoder, MCGhost, MCPlanner}
MCGuest == <<"workspace">>
MCRunName == [x \in {"coder", "ghost", "planner"} \X (0 .. 1) \X (0 .. 2) |-> ToString(x)]
MCWorkerCalls ==
  {[name |-> <<"Write">>, target |-> t] :
     t \in {<<"out">>, <<"..", "memory", "a">>, <<"runlogs", "r">>}}
  \cup {[name |-> <<"Edit">>, target |-> <<"out">>]}

Sandboxed(enabled, require, available) ==
  [enabled |-> enabled, image |-> enabled, ignored |-> enabled, require |-> require,
   available |-> available]
Deployed(modules, box, seeds, prompts, agents) ==
  [modules |-> modules, sandbox |-> box, seeds |-> seeds,
   prompts |-> {p \in MCPrompts : p.id \in prompts}, agents |-> agents]
MCDeployments ==
  LET off == Sandboxed(FALSE, TRUE, FALSE)
  IN {Deployed({}, off, {"public", "self"},
               {"perceive", "shadow", "express", "settle", "reflect"}, {}),
      Deployed({"telegram"}, off, {}, {}, {})}
     \cup {Deployed({}, box, {"self"}, {"delegate"}, {MCCoder, MCGhost}) :
             box \in {Sandboxed(TRUE, TRUE, TRUE), Sandboxed(TRUE, FALSE, FALSE),
                      Sandboxed(TRUE, TRUE, FALSE)}}
=============================================================================
