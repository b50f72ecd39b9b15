------------------------------- MODULE MCCycle -------------------------------
(***************************************************************************)
(* Instances of Cycle for TLC: the default lattice, a sticky Perceive, an    *)
(* Express that may go on to itself or to the Reflect, and servers labelled  *)
(* `self` and with a name no tier has. A duty's directive is `self`, its      *)
(* payload `public`; the operator's word is signed or only claims to be.     *)
(***************************************************************************)
EXTENDS Cycle

CONSTANT StartsOf  \* the entries stimuli may have

MCTierNames == {"public", "self", "operator_signed", "unlisted"}
MCTiers == <<"public", "self", "operator_signed">>
MCReachesOf == [t \in {"public", "self", "operator_signed"} |->
                 IF t = "public" THEN "Express" ELSE "Reflect"]

MCPrompts == {"perceive", "express", "reflect"}
MCStateOf == [p \in MCPrompts |-> CASE p = "perceive" -> "Perceive"
                                    [] p = "express" -> "Express"
                                    [] OTHER -> "Reflect"]
\* The soul may list a transition out of its Reflect: the structural rule drops it.
MCTransitions == [p \in MCPrompts |-> CASE p = "perceive" -> {"express", "reflect"}
                                        [] p = "express" -> {"express", "reflect"}
                                        [] OTHER -> {"express"}]
MCStimuli ==
  [entry : StartsOf, directive : {"self"}, signed : {FALSE},
   payload : {"public"}, thread : Threads]
  \cup [entry : StartsOf, directive : {"operator_signed"}, signed : BOOLEAN,
        payload : {"self"}, thread : Threads]
MCTrustOf == [s \in Servers |-> IF s = "inlined" THEN "unlisted" ELSE "self"]
=============================================================================
