---------------------------- MODULE TrustLattice ----------------------------
(***************************************************************************)
(* The operator's trust lattice (config::TrustLattice): pure functions that  *)
(* every wake is gated by.                                                  *)
(***************************************************************************)
EXTENDS StateTable, Sequences

CONSTANTS
  TierNames, \* every tier name a label may carry, configured or not
  Tiers,     \* the configured tiers, lowest first: trust_tiers
  ReachesOf  \* the state each configured tier reaches

Configured == {Tiers[n] : n \in DOMAIN Tiers}

ASSUME LatticeAssumption ==
  /\ Tiers \in Seq(TierNames)
  /\ Len(Tiers) > 0
  /\ \A m, n \in DOMAIN Tiers : Tiers[m] = Tiers[n] => m = n
  /\ ReachesOf \in [Configured -> States]

\* The position of the name; an unknown name ranks with the lowest.
Rank(t) ==
  IF t \in Configured THEN (CHOOSE n \in DOMAIN Tiers : Tiers[n] = t) - 1 ELSE 0

\* The ceiling of a tier; an unknown name reaches Express.
Reaches(t) == IF t \in Configured THEN ReachesOf[t] ELSE "Express"

\* Mutant: the higher of the two tiers.
Join(a, b) == IF Rank(a) <= Rank(b) THEN b ELSE a

\* The lower of two tiers; the first one when they rank alike.
Meet(a, b) == IF Rank(a) <= Rank(b) THEN a ELSE b

\* Whether a wake at trust `cycle` clears a capability's min_trust.
Permits(cycle, min) == Rank(cycle) >= Rank(min)
=============================================================================
