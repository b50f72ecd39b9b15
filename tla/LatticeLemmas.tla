--------------------------- MODULE LatticeLemmas ---------------------------
(***************************************************************************)
(* Lemmas about the trust lattice and about sets of naturals, for the proofs  *)
(* about the modules that use them.                                         *)
(***************************************************************************)
EXTENDS TrustLattice, TLAPS, WellFoundedInduction

-----------------------------------------------------------------------------
(* Naturals.                                                                *)

\* A set of naturals that is not empty has a least element.
LEMMA LeastNatural ==
  ASSUME NEW S \in SUBSET Nat, S # {}
  PROVE  \E m \in S : \A n \in S : m <= n
<1>1. PICK m \in S : \A n \in S : ~(<<n, m>> \in OpToRel(<, Nat))
  BY NatLessThanWellFounded, WFMin
<1>2. \A n \in S : ~(n < m)
  BY <1>1 DEF OpToRel
<1> QED
  BY <1>2

\* Induction, stated of a set of naturals.
LEMMA SetInduction ==
  ASSUME NEW T \in SUBSET Nat, 0 \in T, \A n \in T : n + 1 \in T
  PROVE  T = Nat
<1>1. SUFFICES ASSUME Nat \ T # {} PROVE FALSE
  OBVIOUS
<1>2. PICK m \in Nat \ T : \A n \in Nat \ T : m <= n
  <2>1. Nat \ T \in SUBSET Nat
    OBVIOUS
  <2> QED
    BY <1>1, <2>1, LeastNatural
<1>3. m - 1 \in Nat /\ ~(m <= m - 1)
  OBVIOUS
<1>4. m - 1 \in T
  BY <1>2, <1>3
<1> QED
  BY <1>4

\* A set that holds 0, and with a number below k the next one, holds all up to k.
LEMMA UpTo ==
  ASSUME NEW k \in Nat, NEW T, 0 \in T, \A n \in 0 .. k : n \in T /\ n < k => n + 1 \in T
  PROVE  0 .. k \subseteq T
<1>1. SUFFICES ASSUME (0 .. k) \ T # {} PROVE FALSE
  OBVIOUS
<1>2. PICK m \in (0 .. k) \ T : \A n \in (0 .. k) \ T : m <= n
  <2>1. (0 .. k) \ T \in SUBSET Nat
    OBVIOUS
  <2> QED
    BY <1>1, <2>1, LeastNatural
<1>3. m # 0 /\ m - 1 \in 0 .. k /\ ~(m <= m - 1) /\ m - 1 < k
  BY <1>2
<1>4. m - 1 \in T
  BY <1>2, <1>3
<1> QED
  BY <1>2, <1>3, <1>4

-----------------------------------------------------------------------------
(* The lattice.                                                             *)

\* A rank is a position in the list of tiers.
LEMMA RankType == ASSUME NEW t PROVE Rank(t) \in Nat
<1>1. CASE t \in Configured
  <2> DEFINE n == CHOOSE m \in DOMAIN Tiers : Tiers[m] = t
  <2>1. n \in DOMAIN Tiers
    BY <1>1 DEF Configured
  <2>2. n \in Nat /\ n >= 1
    BY <2>1, LatticeAssumption
  <2> QED
    BY <1>1, <2>2 DEF Rank
<1>2. CASE t \notin Configured
  BY <1>2 DEF Rank
<1> QED
  BY <1>1, <1>2

\* A ceiling is a state.
LEMMA ReachesType == ASSUME NEW t PROVE Reaches(t) \in States
BY LatticeAssumption DEF Reaches, States

\* The meet is one of the two tiers and ranks no higher than either.
LEMMA MeetIsLower ==
  ASSUME NEW a, NEW b
  PROVE  /\ Meet(a, b) \in {a, b}
         /\ Rank(Meet(a, b)) <= Rank(a)
         /\ Rank(Meet(a, b)) <= Rank(b)
BY RankType DEF Meet
=============================================================================
