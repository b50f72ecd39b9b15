------------------------------ MODULE Accidents -------------------------------
(***************************************************************************)
(* What can go wrong around a process, counted against one bound: a command   *)
(* or a file operation that fails, a loss of the process, an operator who     *)
(* interferes. The modules that share this variable share the bound.         *)
(***************************************************************************)
EXTENDS Integers

CONSTANT MaxAccidents  \* bound: accidents of every kind together

ASSUME AccidentsAssumption == MaxAccidents \in Nat

VARIABLE accidents

Accident == accidents < MaxAccidents /\ accidents' = accidents + 1
=============================================================================
