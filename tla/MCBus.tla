------------------------------- MODULE MCBus -------------------------------
(***************************************************************************)
(* Instances of Bus for TLC: the duties are named by their policy. Every     *)
(* duty opens at the same second of the day.                                 *)
(***************************************************************************)
EXTENDS Bus

CONSTANT OpensAt  \* 0 without a dispatch window

MCMode == [d \in Duties |-> d]
MCOpening == [d \in Duties |-> OpensAt]
MCClosing == [d \in Duties |-> 0]
=============================================================================
