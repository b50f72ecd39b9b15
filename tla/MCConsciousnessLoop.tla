------------------------ MODULE MCConsciousnessLoop ------------------------
(***************************************************************************)
(* Instances of ConsciousnessLoop for TLC: a debounced chat message          *)
(* (Normal), the back-online wake (Low), and one baton the message's wake    *)
(* may defer (Low). With a cap of one pending row, shedding happens.         *)
(***************************************************************************)
EXTENDS ConsciousnessLoop, TLC

MCIds == {"msg", "back", "msg-b1"}
MCBackOnline == {"back"}
MCDeferred == {"msg-b1"}
MCOriginOf == [d \in MCDeferred |-> "msg"]
MCPriorityRank ==
  [i \in MCIds |-> IF i = "msg" THEN 20 ELSE 30]
MCReceivedAt ==
  [i \in MCIds |-> CASE i = "back" -> 0 [] i = "msg" -> 1 [] OTHER -> 2]
MCHolds == {0, 1}
\* The backoffs of the code, 5, 15 and 30 s, in units of 15 s.
MCBackoff(n) == IF n <= 2 THEN 1 ELSE 2
=============================================================================
