------------------------------ MODULE StateTable ------------------------------
(***************************************************************************)
(* The capability table of the consciousness states, as code in              *)
(* state::default_spec: which classes of tool a state may use and which       *)
(* directories of the soul it may write; beside it worker_spec, the one of a  *)
(* delegated worker, and the transition rules.                               *)
(***************************************************************************)
EXTENDS Integers

States == {"Perceive", "Express", "Settle", "Reflect"}

ToolClasses == {"Read", "Net", "FileWrite", "Post", "SettleTx", "Shell", "Other"}

\* The directories a writable_dirs entry names. Any other path is in none.
SoulDirs == {"memory", "skills", "stimuli", "prompts", "SOUL.md", "agents"}

ToolScope(s) ==
  CASE s = "Perceive" -> {"Read", "Net"}
    [] s = "Express" -> {"Read", "FileWrite", "Post"}
    [] s = "Settle" -> {"Read", "FileWrite", "SettleTx"}
    [] s = "Reflect" -> {"Read", "FileWrite"}
    [] s = "worker" -> {"Read", "Net", "FileWrite", "Shell", "Other"}

WritableDirs(s) ==
  CASE s = "Perceive" -> {}
    [] s \in {"Express", "Settle"} -> {"memory"}
    [] s = "Reflect" -> SoulDirs

ReachRank ==
  [s \in States |-> CASE s = "Perceive" -> 0 [] s = "Express" -> 1
                      [] s = "Settle" -> 2 [] OTHER -> 3]
WithinCeiling(s, ceiling) == ReachRank[s] <= ReachRank[ceiling]

\* Mutant: Reflect hands on like any other state.
AnyTransition(from, to) == TRUE

\* Reflect exits to nothing; the rest is bounded by the ceiling.
AllowedTransition(from, to) == from # "Reflect"
=============================================================================
