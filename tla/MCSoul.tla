-------------------------------- MODULE MCSoul --------------------------------
(***************************************************************************)
(* An instance of Soul for TLC: a memory file every outward state may write   *)
(* and a prompt only Reflect may; a required remote, a best-effort mirror,   *)
(* and a remote no key can sign for.                                         *)
(***************************************************************************)
EXTENDS Soul

MCPaths == {"note", "prompt"}
MCDirOf == [p \in MCPaths |-> IF p = "note" THEN "memory" ELSE "prompts"]
MCSoulRemotes ==
  <<[name |-> "primary", gitlawb |-> FALSE, kind |-> "inferred", role |-> "soul",
     token |-> "set", required |-> TRUE],
    [name |-> "unsigned", gitlawb |-> TRUE, kind |-> "inferred", role |-> "builder",
     token |-> "none", required |-> TRUE],
    [name |-> "mirror", gitlawb |-> TRUE, kind |-> "git", role |-> "soul",
     token |-> "none", required |-> FALSE]>>
MCLegacyUrl == <<[name |-> "older", gitlawb |-> TRUE]>>
=============================================================================
