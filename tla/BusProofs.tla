------------------------------ MODULE BusProofs ------------------------------
(***************************************************************************)
(* Proofs about Bus, for every set of duties, keys, policies, windows and     *)
(* budgets: a candidate is carried by one row, folds only append, a key has   *)
(* one open row, credits count wakes, and a candidate is lost by an accident  *)
(* alone.                                                                   *)
(***************************************************************************)
EXTENDS Bus, TLAPS, WellFoundedInduction, FiniteSetTheorems, SequenceTheorems

-----------------------------------------------------------------------------
(* The inductive invariant.                                                 *)

\* Whether a candidate of the duty is coalesced by its key.
Coalesces == Mode[bus.duty] # "none" /\ keyOf[Candidate] # NoKey

\* The call in progress: the candidates left are the last ones sensed, and have ids left.
CallOK ==
  /\ bus.phase = "idle" <=> bus.todo = <<>>
  /\ bus.at <= clock
  /\ Len(bus.todo) <= sensed
  /\ \A n \in DOMAIN bus.todo : bus.todo[n] = sensed - Len(bus.todo) + n
  /\ bus.phase # "idle" => bus.index + Len(bus.todo) <= MaxBatch + 1
  /\ bus.phase \in {"finding", "superseding", "folding", "spending"} => Coalesces
  /\ bus.phase = "spending" => Mode[bus.duty] = "adaptive"
  /\ bus.phase = "superseding" => Mode[bus.duty] = "latest"

\* What was found is what the call's duty and key are those of.
FoundOK ==
  /\ bus.phase \in {"superseding", "folding"} =>
       /\ bus.found # <<>>
       /\ \A n \in DOMAIN bus.found :
            rows[bus.found[n]].key = keyOf[Candidate] /\ bus.found[n] \in Stored
  /\ bus.phase = "folding" => bus.base = rows[Head(bus.found)].payload

\* The rows: what has come by now, each candidate in one, under its own key.
RowsOK ==
  /\ \A i \in Stored : ReceivedAt(i) <= (IF bus.phase = "idle" THEN clock ELSE bus.at)
  /\ \A i \in Stored : Contents(i) # {}
  /\ \A i \in Ids \ Stored : rows[i].payload = <<>>
  /\ \A i \in Ids : Contents(i) \subseteq 1 .. sensed - Len(bus.todo)
  /\ \A i \in Ids, c \in Items : c \in Contents(i) => keyOf[c] = rows[i].key

HistoryOK ==
  /\ keyOf \in [Items -> AnyKey]
  /\ collided \subseteq 1 .. sensed - Len(bus.todo)
  /\ heard \subseteq Items /\ leased \subseteq Ids

\* A row that is or was with the mind was leased.
LeasedOK ==
  /\ \A i \in Ids : rows[i].status \in {"dispatched", "settled"} => i \in leased
  /\ mind.busy => mind.id \in leased /\ mind.id \in Stored

\* Past the search, no open row is left for the key but those still to be superseded.
NoneOpen ==
  /\ bus.phase \in {"spending", "storing"} /\ Coalesces => Joinable \subseteq leased
  /\ bus.phase = "superseding" =>
       \A i \in Joinable \ leased : \E n \in DOMAIN bus.found : bus.found[n] = i

\* The credits of an account: one for each row it has, and one for the row to be stored.
Bought(d, k, day) ==
  {i \in Stored : Duty(i) = d /\ rows[i].key = k /\ DateOf(ReceivedAt(i)) = day}
ToStore(d, k, day) ==
  IF bus.phase = "storing" /\ <<d, k, day>> = Account THEN 1 ELSE 0
Mishaps == faults + crashes
CreditsOK ==
  \A d \in Duties, k \in Keys, day \in Dates : Mode[d] = "adaptive" =>
    LET wakes == Cardinality(Bought(d, k, day))
        spent == credits[<<d, k, day>>]
        due == ToStore(d, k, day)
    IN  /\ wakes + due <= spent
        /\ spent <= wakes + due + Mishaps + Cardinality(collided)

\* As long as nothing went wrong: every candidate has a row; the row in the mind's hands
\* is the one dispatched, and what it was given is what the row holds; what a settled row
\* holds was heard; a superseded row has a later candidate of its key after it.
NoAccident == collided = {} /\ raced = {} /\ faults = 0 /\ crashes = 0
AccountedFor ==
  NoAccident =>
    /\ \A c \in 1 .. sensed - Len(bus.todo) : \E i \in Stored : c \in Contents(i)
    /\ \A i \in Ids : rows[i].status = "dispatched" => mind.busy /\ mind.id = i
    /\ mind.busy => rows[mind.id].status = "dispatched" /\ mind.given = Contents(mind.id)
    /\ \A i \in Ids : rows[i].status = "settled" => Contents(i) \subseteq heard
    /\ \A i \in Ids : rows[i].status = "coalesced" =>
         \A c \in Contents(i) : \E e \in c + 1 .. sensed : keyOf[e] = keyOf[c]

BusInv ==
  /\ TypeOK /\ CallOK /\ FoundOK /\ RowsOK /\ HistoryOK
  /\ CarriedOnce /\ LeasedOK /\ NoneOpen /\ OneOpenRow /\ CreditsOK /\ AccountedFor
-----------------------------------------------------------------------------
(* Naturals, and the rows of one duty.                                      *)

\* A set of naturals that is not empty has a least element.
LEMMA LeastNatural ==
  ASSUME NEW S \in SUBSET Nat, S # {}
  PROVE  \E m \in S : \A n \in S : m <= n
<1>1. PICK m \in S : \A n \in S : ~(<<n, m>> \in OpToRel(<, Nat))
  BY NatLessThanWellFounded, WFMin
<1>2. \A n \in S : ~(n < m)
  BY <1>1 DEF OpToRel
<1> QED
  BY <1>2

\* A set that holds 0, and with a number below k the next one, holds all up to k.
LEMMA UpTo ==
  ASSUME NEW k \in Nat, NEW T, 0 \in T, \A n \in 0 .. k : n \in T /\ n < k => n + 1 \in T
  PROVE  0 .. k \subseteq T
<1>1. SUFFICES ASSUME (0 .. k) \ T # {} PROVE FALSE
  OBVIOUS
<1>2. PICK m \in (0 .. k) \ T : \A n \in (0 .. k) \ T : m <= n
  <2>1. (0 .. k) \ T \in SUBSET Nat
    OBVIOUS
  <2> QED
    BY <1>1, <2>1, LeastNatural
<1>3. m # 0 /\ m - 1 \in 0 .. k /\ ~(m <= m - 1) /\ m - 1 < k
  BY <1>2
<1>4. m - 1 \in T
  BY <1>2, <1>3
<1> QED
  BY <1>2, <1>3, <1>4

\* What the window widens to is a natural number, for every number of halvings.
LEMMA WidenedType == \A n \in 0 .. DailyCredits : Widened[n] \in Nat
<1> DEFINE Solves(f, m) == f = [n \in 0 .. m |-> IF n = 0 THEN InitialWindow ELSE 10 * f[n - 1]]
           T == {m \in 0 .. DailyCredits : \E f : Solves(f, m)}
<1>0. DailyCredits \in Nat /\ InitialWindow \in Nat
  BY TimesAssumption
<1>1. 0 \in T
  <2>1. Solves([n \in 0 .. 0 |-> InitialWindow], 0)
    OBVIOUS
  <2> HIDE DEF Solves
  <2> QED
    BY <1>0, <2>1
<1>2. ASSUME NEW m \in 0 .. DailyCredits, m \in T, m < DailyCredits PROVE m + 1 \in T
  <2>1. PICK f : Solves(f, m)
    BY <1>2
  <2> DEFINE g == [n \in 0 .. m + 1 |-> IF n <= m THEN f[n] ELSE 10 * f[m]]
  <2>2. \A n \in 0 .. m + 1 : g[n] = IF n = 0 THEN InitialWindow ELSE 10 * g[n - 1]
    <3> TAKE n \in 0 .. m + 1
    <3>1. CASE n = m + 1
      BY <3>1
    <3>2. CASE n <= m
      <4>1. n \in 0 .. m
        BY <3>2
      <4>2. f[n] = IF n = 0 THEN InitialWindow ELSE 10 * f[n - 1]
        BY <2>1, <4>1
      <4> QED
        BY <3>2, <4>2
    <3> QED
      BY <3>1, <3>2
  <2>4. Solves(g, m + 1)
    BY <2>2
  <2>5. m + 1 \in 0 .. DailyCredits
    BY <1>0, <1>2
  <2> HIDE DEF g, Solves
  <2> QED
    BY <1>2, <2>4, <2>5
<1>3. DailyCredits \in T
  <2> HIDE DEF T
  <2> QED
    BY <1>0, <1>1, <1>2, UpTo
<1>4. PICK f : Solves(f, DailyCredits)
  BY <1>3
<1>5. Solves(Widened, DailyCredits)
  <2>1. Widened = CHOOSE h : Solves(h, DailyCredits)
    BY DEF Widened
  <2> HIDE DEF Solves
  <2> QED
    BY <1>4, <2>1
<1> DEFINE U == {n \in 0 .. DailyCredits : Widened[n] \in Nat}
<1>6. 0 \in U
  BY <1>0, <1>5
<1>7. ASSUME NEW n \in 0 .. DailyCredits, n \in U, n < DailyCredits PROVE n + 1 \in U
  BY <1>0, <1>5, <1>7
<1> HIDE DEF Solves
<1>8. 0 .. DailyCredits \subseteq U
  <2> HIDE DEF U
  <2> QED
    BY <1>0, <1>6, <1>7, UpTo
<1> QED
  BY <1>8

LEMMA AdaptiveWindowType == ASSUME NEW spent \in Nat PROVE AdaptiveWindow(spent) \in Nat
<1> DEFINE H == {k \in 1 .. DailyCredits : (DailyCredits - spent) * 2^k <= DailyCredits}
<1>1. Cardinality(H) \in 0 .. DailyCredits
  <2>1. IsFiniteSet(1 .. DailyCredits) /\ Cardinality(1 .. DailyCredits) = DailyCredits
    BY FS_Interval, TimesAssumption
  <2>2. H \in SUBSET (1 .. DailyCredits)
    OBVIOUS
  <2> HIDE DEF H
  <2>3. IsFiniteSet(H) /\ Cardinality(H) <= DailyCredits
    BY <2>1, <2>2, FS_Subset
  <2> QED
    BY <2>3, FS_CardinalityType, TimesAssumption
<1>2. Widened[Cardinality(H)] \in Nat
  BY <1>1, WidenedType
<1> QED
  BY <1>2, TimesAssumption DEF AdaptiveWindow

\* A duty has finitely many rows.
LEMMA FewRows ==
  ASSUME NEW d, NEW S \in SUBSET Ids, \A i \in S : Duty(i) = d
  PROVE  IsFiniteSet(S) /\ Cardinality(S) \in Nat
<1> DEFINE T == Times \X (1 .. MaxBatch)
           f == [i \in S |-> <<i[2], i[3]>>]
<1>1. IsFiniteSet(Times) /\ IsFiniteSet(1 .. MaxBatch)
  BY FS_Interval, TimesAssumption DEF Times
<1>2. IsFiniteSet(T)
  BY <1>1, FS_Product
<1>3. f \in Injection(S, T)
  <2>1. f \in [S -> T]
    BY DEF Ids
  <2>2. \A i, j \in S : f[i] = f[j] => i = j
    BY DEF Ids, Duty
  <2> QED
    BY <2>1, <2>2 DEF Injection, IsInjective
<1> HIDE DEF T, f
<1> QED
  BY <1>2, <1>3, FS_Injection, FS_CardinalityType


\* An enumeration of finitely many rows has each of them.
LEMMA EachOnce ==
  ASSUME NEW S \in SUBSET Ids, IsFiniteSet(S), NEW s \in OldestFirst(S)
  PROVE  s \in Seq(S) /\ \A i \in S : \E n \in DOMAIN s : s[n] = i
<1> DEFINE k == Cardinality(S)
<1>1. k \in Nat
  BY FS_CardinalityType
<1>2. s \in [1 .. k -> S] /\ \A m, n \in 1 .. k : m < n => s[m] # s[n]
  BY DEF OldestFirst
<1>3. IsFiniteSet(1 .. k) /\ Cardinality(1 .. k) = k
  BY <1>1, FS_Interval
<1> HIDE DEF k
<1>4. s \in Injection(1 .. k, S)
  <2>1. \A m, n \in 1 .. k : s[m] = s[n] => m = n
    BY <1>1, <1>2
  <2> QED
    BY <1>2, <2>1 DEF Injection, IsInjective
<1>5. s \in Surjection(1 .. k, S)
  BY <1>3, <1>4, FS_Injection DEF k
<1> QED
  BY <1>1, <1>2, <1>5 DEF Surjection

\* The rows that a candidate may join are finitely many.
LEMMA FewJoinable ==
  /\ Joinable \subseteq Ids /\ IsFiniteSet(Joinable)
  /\ \A i \in Joinable : i \in Pending /\ Duty(i) = bus.duty /\ rows[i].key = keyOf[Candidate]
<1>1. Joinable \in SUBSET Ids
      /\ \A i \in Joinable : i \in Pending /\ Duty(i) = bus.duty /\ rows[i].key = keyOf[Candidate]
  BY DEF Joinable, Coalescable, Pending
<1> QED
  BY <1>1, FewRows

\* The time a new row waits for.
LEMMA PopAfterType ==
  ASSUME bus.duty \in Duties, bus.at \in Nat, bus.window \in Nat PROVE PopAfter \in Nat
<1>1. Debounce \in Nat
  BY TimesAssumption DEF Debounce
<1>2. NextOpen(bus.duty, bus.at) \in Int
  <2>1. Opening[bus.duty] \in Nat /\ Day \in Nat /\ Day > 0
    BY TimesAssumption
  <2>2. bus.at % Day \in Int
    BY <2>1
  <2> QED
    BY <2>1, <2>2 DEF NextOpen
<1> QED
  BY <1>1, <1>2 DEF PopAfter

-----------------------------------------------------------------------------
(* The call in progress.                                                    *)

BusType == [phase : Phases, duty : Duties, at : Times, todo : Seq(Items),
            index : 1 .. MaxBatch, found : Seq(Ids), base : Seq(Items), window : Nat]

LEMMA IdleIs ==
  /\ Idle \in BusType /\ Idle.phase = "idle" /\ Idle.todo = <<>>
  /\ Idle.at = 0 /\ Idle.index = 1 /\ Idle.found = <<>> /\ Idle.base = <<>> /\ Idle.window = 0
<1>1. (CHOOSE d \in Duties : TRUE) \in Duties
  BY DutiesAssumption
<1>2. <<>> \in Seq(Ids) /\ <<>> \in Seq(Items)
  BY EmptySeq
<1>3. 0 \in Times /\ 1 \in 1 .. MaxBatch
  BY TimesAssumption DEF Times
<1> QED
  BY <1>1, <1>2, <1>3 DEF Idle, BusType, Phases

LEMMA AwakeIs ==
  /\ Awake \in [id : Ids, busy : BOOLEAN, given : SUBSET Items]
  /\ Awake.busy = FALSE /\ Awake.given = {}
<1>1. \E d \in Duties : <<d, 0, 1>> \in Ids
  <2>1. 0 \in Times /\ 1 \in 1 .. MaxBatch
    BY TimesAssumption DEF Times
  <2> QED
    BY <2>1, DutiesAssumption DEF Ids
<1>2. (CHOOSE i \in Ids : TRUE) \in Ids
  BY <1>1
<1> QED
  BY <1>2 DEF Awake

\* While a call is in progress its candidate is the first that was not dealt with.
LEMMA CandidateIs ==
  ASSUME TypeOK, CallOK, bus.phase # "idle"
  PROVE  /\ bus.todo # <<>> /\ Len(bus.todo) \in Nat /\ Len(bus.todo) >= 1
         /\ DOMAIN bus.todo = 1 .. Len(bus.todo)
         /\ sensed \in Nat /\ sensed <= MaxItems /\ MaxItems \in Nat
         /\ Candidate = sensed - Len(bus.todo) + 1
         /\ Candidate \in Items /\ Candidate \in 1 .. sensed
         /\ NewId \in Ids /\ Duty(NewId) = bus.duty /\ ReceivedAt(NewId) = bus.at
<1>1. bus \in BusType /\ sensed \in 0 .. MaxItems
  BY DEF TypeOK, BusType
<1>2. bus.todo # <<>> /\ bus.todo \in Seq(Items)
  BY <1>1 DEF CallOK, BusType
<1>3. Len(bus.todo) \in Nat /\ Len(bus.todo) >= 1 /\ DOMAIN bus.todo = 1 .. Len(bus.todo)
  BY <1>2
<1>4. Candidate = bus.todo[1] /\ Candidate \in Items
  BY <1>2 DEF Candidate
<1>5. Candidate = sensed - Len(bus.todo) + 1
  BY <1>3, <1>4 DEF CallOK
<1>6. NewId \in Ids /\ Duty(NewId) = bus.duty /\ ReceivedAt(NewId) = bus.at
  BY <1>1 DEF NewId, Ids, BusType, Duty, ReceivedAt
<1>7. sensed \in Nat /\ MaxItems \in Nat /\ sensed <= MaxItems
  BY <1>1, TimesAssumption
<1>8. Len(bus.todo) <= sensed
  BY DEF CallOK
<1>9. Candidate \in 1 .. sensed
  BY <1>3, <1>5, <1>7, <1>8
<1> QED
  BY <1>2, <1>3, <1>4, <1>5, <1>6, <1>7, <1>9

\* What beginning with a candidate makes of the call.
LEMMA BeginIs ==
  ASSUME NEW b \in BusType
  PROVE  /\ Begin(b) \in BusType
         /\ Begin(b).phase =
              (IF Mode[b.duty] # "none" /\ keyOf'[Head(b.todo)] # NoKey THEN "finding" ELSE "storing")
         /\ Begin(b).duty = b.duty /\ Begin(b).at = b.at /\ Begin(b).todo = b.todo
         /\ Begin(b).index = b.index
BY DEF Begin, BusType, Phases

\* The call after a candidate is done: one candidate fewer, and the phase as the next
\* one's policy has it.
CallMovesOn ==
  /\ bus' \in BusType
  /\ Len(bus'.todo) = Len(bus.todo) - 1
  /\ bus'.phase \in {"idle", "finding", "storing"}
  /\ bus'.phase # "idle" => bus'.at = bus.at

LEMMA NextCandidateIs ==
  ASSUME TypeOK, CallOK, bus.phase # "idle", NextCandidate, UNCHANGED <<sensed, clock>>
  PROVE  CallOK' /\ CallMovesOn /\ keyOf' = keyOf
         /\ (bus'.phase = "storing" => ~Coalesces')
<1> DEFINE k == Len(bus.todo)
<1>0. /\ bus.todo # <<>> /\ k \in Nat /\ k >= 1 /\ DOMAIN bus.todo = 1 .. k /\ sensed \in Nat
  BY CandidateIs
<1>1. /\ bus \in BusType /\ bus.todo \in Seq(Items) /\ keyOf' = keyOf
      /\ bus.index \in Nat /\ bus.index >= 1 /\ clock \in Nat /\ MaxBatch \in Nat
  <2>1. bus \in BusType /\ clock \in Times
    BY DEF TypeOK, BusType
  <2>2. keyOf' = keyOf
    BY DEF NextCandidate
  <2> QED
    BY <2>1, <2>2, TimesAssumption DEF BusType, Times
<1>2. /\ Tail(bus.todo) \in Seq(Items) /\ Len(Tail(bus.todo)) = k - 1
      /\ DOMAIN Tail(bus.todo) = 1 .. k - 1
      /\ \A n \in 1 .. k - 1 : Tail(bus.todo)[n] = bus.todo[n + 1]
  BY <1>0, <1>1
<1>3. CASE Tail(bus.todo) = <<>>
  <2>1. bus' = Idle
    BY <1>3 DEF NextCandidate
  <2>2. k = 1 /\ Len(Idle.todo) = 0 /\ DOMAIN Idle.todo = {}
    <3>1. Len(<<>>) = 0 /\ DOMAIN <<>> = {}
      OBVIOUS
    <3>2. k - 1 = 0
      BY <1>2, <1>3, <3>1
    <3> HIDE DEF k
    <3> QED
      BY <1>0, <3>1, <3>2, IdleIs
  <2>3. CallMovesOn
    BY <2>1, <2>2, IdleIs DEF CallMovesOn
  <2>4. CallOK'
    BY <1>0, <1>1, <2>1, <2>2, IdleIs DEF CallOK
  <2> QED
    BY <1>1, <2>1, <2>3, <2>4, IdleIs
<1>4. CASE Tail(bus.todo) # <<>>
  <2> DEFINE b == [bus EXCEPT !.todo = Tail(@), !.index = @ + 1,
                              !.found = <<>>, !.base = <<>>, !.window = 0]
  <2>1. bus' = Begin(b)
    BY <1>4 DEF NextCandidate
  <2>2. k >= 2 /\ bus.index + k <= MaxBatch + 1 /\ bus.index + 1 \in 1 .. MaxBatch
    <3>1. Len(Tail(bus.todo)) # 0
      BY <1>2, <1>4, EmptySeq
    <3>2. k - 1 # 0 /\ bus.index + k <= MaxBatch + 1
      BY <1>2, <3>1 DEF CallOK
    <3> HIDE DEF k
    <3> QED
      BY <1>0, <1>1, <3>2
  <2>3. /\ b \in BusType /\ b.todo = Tail(bus.todo) /\ b.index = bus.index + 1
        /\ b.duty = bus.duty /\ b.at = bus.at
    <3>1. <<>> \in Seq(Ids) /\ <<>> \in Seq(Items)
      BY EmptySeq
    <3> QED
      BY <1>1, <1>2, <2>2, <3>1 DEF BusType
  <2> HIDE DEF b
  <2>4. /\ bus' \in BusType /\ bus'.todo = Tail(bus.todo) /\ bus'.index = bus.index + 1
        /\ bus'.duty = bus.duty /\ bus'.at = bus.at
        /\ bus'.phase = IF Mode[bus.duty] # "none" /\ keyOf'[Head(bus'.todo)] # NoKey
                        THEN "finding" ELSE "storing"
    BY <2>1, <2>3, BeginIs
  <2>5. bus'.phase \in {"finding", "storing"} /\ (bus'.phase = "storing" <=> ~Coalesces')
    BY <2>4 DEF Coalesces, Candidate
  <2>6. CallMovesOn
    BY <1>2, <2>4, <2>5 DEF CallMovesOn
  <2>7. CallOK'
    <3>1. Len(bus'.todo) = k - 1 /\ k <= sensed
      BY <1>2, <2>4 DEF CallOK
    <3>2. \A n \in DOMAIN bus'.todo : bus'.todo[n] = sensed - Len(bus'.todo) + n
      <4> TAKE n \in DOMAIN bus'.todo
      <4>1. n \in 1 .. k - 1
        BY <1>2, <2>4
      <4>2. bus'.todo[n] = bus.todo[n + 1] /\ n \in Nat /\ n + 1 \in DOMAIN bus.todo
        BY <1>0, <1>2, <2>4, <4>1
      <4>3. bus.todo[n + 1] = sensed - k + (n + 1)
        BY <4>2 DEF CallOK
      <4> HIDE DEF k
      <4>4. sensed - k + (n + 1) = sensed - (k - 1) + n
        BY <1>0, <4>2
      <4> QED
        BY <3>1, <4>2, <4>3, <4>4
    <3>3. bus'.index + Len(bus'.todo) <= MaxBatch + 1 /\ Len(bus'.todo) <= sensed
      <4> HIDE DEF k
      <4> QED
        BY <1>0, <1>1, <2>2, <2>4, <3>1
    <3>4. bus'.todo # <<>> /\ bus'.at <= clock /\ bus.phase # "idle"
      BY <1>4, <2>4 DEF CallOK
    <3> QED
      BY <2>5, <3>2, <3>3, <3>4 DEF CallOK
  <2> QED
    BY <1>1, <2>5, <2>6, <2>7
<1> QED
  BY <1>3, <1>4

-----------------------------------------------------------------------------
(* What a step leaves of the rows.                                          *)

\* Only a fold and an enqueue change what rows there are and what they hold.
SameRows ==
  \A i \in Ids :
    /\ rows'[i].payload = rows[i].payload /\ rows'[i].key = rows[i].key
    /\ rows'[i].status = "absent" <=> rows[i].status = "absent"

LEMMA SameRowsIs ==
  ASSUME SameRows
  PROVE  /\ Stored' = Stored
         /\ \A i \in Ids : Contents(i)' = Contents(i)
         /\ \A d, k, day : Bought(d, k, day)' = Bought(d, k, day)
<1>1. Stored' = Stored
  BY DEF SameRows, Stored
<1>2. \A i \in Ids : Contents(i)' = Contents(i)
  BY DEF SameRows, Contents
<1>3. \A i \in Stored : i \in Ids
  BY DEF Stored
<1>4. ASSUME NEW d, NEW k, NEW day PROVE Bought(d, k, day)' = Bought(d, k, day)
  BY <1>1, <1>3 DEF SameRows, Bought
<1> QED
  BY <1>1, <1>2, <1>4

LEMMA CarriedStays == ASSUME CarriedOnce, SameRows PROVE CarriedOnce'
<1>1. \A i \in Stored : i \in Ids
  BY DEF Stored
<1> QED
  BY <1>1, SameRowsIs DEF SameRows, CarriedOnce

\* The rows that were never leased are as they were, but for those that are no longer pending.
FewerOpen ==
  \A i \in Pending' \ leased' :
    i \in Pending \ leased /\ rows'[i].popAfter = rows[i].popAfter /\ rows'[i].key = rows[i].key

LEMMA OpenStays == ASSUME OneOpenRow, FewerOpen PROVE OneOpenRow'
BY DEF OneOpenRow, FewerOpen, Closed, Apart

\* Finitely many candidates collided.
LEMMA FewCollided ==
  ASSUME TypeOK, HistoryOK PROVE IsFiniteSet(collided) /\ Cardinality(collided) \in Nat
<1>1. Len(bus.todo) \in Nat /\ sensed \in Nat
  <2>1. bus.todo \in Seq(Items) /\ sensed \in 0 .. MaxItems
    BY DEF TypeOK
  <2> QED
    BY <2>1, TimesAssumption
<1>2. IsFiniteSet(1 .. sensed - Len(bus.todo))
  BY <1>1, FS_Interval
<1> QED
  BY <1>2, FS_Subset, FS_CardinalityType DEF HistoryOK

\* The credits stay right if nothing is bought or spent, and the credit of a row that is
\* not stored after all is put down to a failure.
LEMMA CreditsStay ==
  ASSUME TypeOK, TypeOK', CreditsOK, UNCHANGED <<credits, collided>>,
         HistoryOK, \A d, k, day : Bought(d, k, day)' = Bought(d, k, day),
         \A d \in Duties, k \in Keys, day \in Dates : Mode[d] = "adaptive" =>
           \/ /\ ToStore(d, k, day)' = ToStore(d, k, day)
              /\ Mishaps <= Mishaps'
           \/ /\ ToStore(d, k, day)' = 0
              /\ Mishaps + 1 <= Mishaps'
  PROVE  CreditsOK'
<1> SUFFICES ASSUME NEW d \in Duties, NEW k \in Keys, NEW day \in Dates, Mode[d] = "adaptive"
             PROVE  /\ Cardinality(Bought(d, k, day)) + ToStore(d, k, day)' <= credits[<<d, k, day>>]
                    /\ credits[<<d, k, day>>] <= Cardinality(Bought(d, k, day)) + ToStore(d, k, day)'
                                               + Mishaps' + Cardinality(collided)
  BY DEF CreditsOK
<1>1. Cardinality(Bought(d, k, day)) \in Nat
  <2>1. Bought(d, k, day) \in SUBSET Ids /\ \A i \in Bought(d, k, day) : Duty(i) = d
    BY DEF Bought, Stored
  <2> QED
    BY <2>1, FewRows
<1>2. Cardinality(collided) \in Nat
  BY FewCollided
<1>3. ToStore(d, k, day) \in {0, 1} /\ ToStore(d, k, day)' \in {0, 1}
  BY DEF ToStore
<1>4. credits[<<d, k, day>>] \in Nat /\ Mishaps \in Nat /\ Mishaps' \in Nat
  <2>1. credits \in [Duties \X Keys \X Dates -> Nat] /\ <<d, k, day>> \in Duties \X Keys \X Dates
    BY DEF TypeOK
  <2>2. faults \in Nat /\ crashes \in Nat /\ faults' \in Nat /\ crashes' \in Nat
    BY DEF TypeOK
  <2>3. credits[<<d, k, day>>] \in Nat
    BY <2>1
  <2>4. \A a, b \in Nat : a + b \in Nat
    OBVIOUS
  <2> QED
    BY <2>2, <2>3, <2>4 DEF Mishaps
<1> DEFINE w == Cardinality(Bought(d, k, day))
           u == ToStore(d, k, day)
           v == ToStore(d, k, day)'
           c == Cardinality(collided)
           s == credits[<<d, k, day>>]
           f == Mishaps
           g == Mishaps'
<1>5. w \in Nat /\ c \in Nat /\ u \in {0, 1} /\ v \in {0, 1} /\ s \in Nat /\ f \in Nat /\ g \in Nat
  BY <1>1, <1>2, <1>3, <1>4
<1>6. w + u <= s /\ s <= w + u + f + c
  BY DEF CreditsOK
<1>7. (v = u /\ f <= g) \/ (v = 0 /\ f + 1 <= g)
  OBVIOUS
<1> HIDE DEF w, u, v, c, s, f, g
<1>8. w + v <= s /\ s <= w + v + g + c
  BY <1>5, <1>6, <1>7
<1> QED
  BY <1>8 DEF w, v, c, s, g

-----------------------------------------------------------------------------
(* The consciousness loop and the clock: the call in progress is let alone.  *)

LEMMA CallLetAlone ==
  ASSUME BusInv, TypeOK', SameRows,
         UNCHANGED <<bus, sensed, credits, faults, crashes, keyOf, collided, raced>>,
         clock' \in Nat, clock <= clock', heard' \subseteq Items,
         leased' \subseteq Ids, leased \subseteq leased', FewerOpen, LeasedOK', AccountedFor'
  PROVE  BusInv'
<1> USE DEF BusInv
<1>0. /\ Stored' = Stored /\ \A i \in Ids : Contents(i)' = Contents(i)
      /\ Stored \subseteq Ids /\ Candidate' = Candidate
  BY SameRowsIs DEF Stored, Candidate
<1>1. clock \in Nat /\ bus.at \in Nat
  BY TimesAssumption DEF TypeOK, Times
<1>2. CallOK'
  BY <1>0, <1>1 DEF CallOK, Coalesces
<1>3. FoundOK'
  <2>1. CASE bus.phase \in {"superseding", "folding"}
    <3>1. \A n \in DOMAIN bus.found : bus.found[n] \in Ids
      BY <1>0, <2>1 DEF FoundOK
    <3>2. Head(bus.found) \in Ids
      <4>1. bus.found \in Seq(Ids) /\ bus.found # <<>>
        BY <2>1 DEF TypeOK, FoundOK
      <4> QED
        BY <4>1
    <3> QED
      BY <1>0, <3>1, <3>2 DEF FoundOK, SameRows
  <2>2. CASE bus.phase \notin {"superseding", "folding"}
    BY <2>2 DEF FoundOK
  <2> QED
    BY <2>1, <2>2
<1>4. RowsOK'
  <2>1. \A i \in Stored : ReceivedAt(i) <= (IF bus.phase = "idle" THEN clock' ELSE bus.at)
    <3>1. \A i \in Stored : ReceivedAt(i) \in Nat
      BY <1>0 DEF Ids, Times, ReceivedAt
    <3> QED
      BY <1>1, <3>1 DEF RowsOK
  <2> QED
    BY <1>0, <2>1 DEF RowsOK, SameRows
<1>5. HistoryOK'
  BY DEF HistoryOK
<1>6. NoneOpen'
  <2>1. Joinable' \ leased' \subseteq Joinable \ leased
    BY DEF Joinable, Coalescable, FewerOpen, WithinWindow, Candidate, Pending
  <2> QED
    BY <2>1 DEF NoneOpen, Coalesces, Candidate
<1>7. CreditsOK'
  <2>1. \A d, k, day : ToStore(d, k, day)' = ToStore(d, k, day)
    BY DEF ToStore, Account, Candidate
  <2>2. Mishaps' = Mishaps /\ Mishaps \in Nat
    BY DEF Mishaps, TypeOK
  <2> QED
    BY <2>1, <2>2, SameRowsIs, CreditsStay
<1> QED
  BY <1>2, <1>3, <1>4, <1>5, <1>6, <1>7, CarriedStays, OpenStays

\* One row's status, retries and hour are written.
LEMMA RowWritten ==
  ASSUME TypeOK, NEW i \in Ids, NEW st \in RowStatus \ {"absent"}, i \in Stored,
         rows' \in [Ids -> Row], rows'[i].status = st,
         rows'[i].payload = rows[i].payload, rows'[i].key = rows[i].key,
         \A j \in Ids : j # i => rows'[j] = rows[j]
  PROVE  SameRows
BY DEF SameRows, Stored

LEMMA PopStep == ASSUME BusInv, NEW i \in Ids, Pop(i) PROVE BusInv'
<1> USE DEF BusInv
<1>1. /\ ~mind.busy /\ rows[i].status = "pending"
      /\ rows' = [rows EXCEPT ![i].status = "dispatched"]
      /\ mind' = [id |-> i, busy |-> TRUE, given |-> Contents(i)]
      /\ leased' = leased \cup {i}
      /\ UNCHANGED <<clock, credits, bus, sensed, faults, crashes, keyOf, heard, collided, raced>>
  BY DEF Pop
<1>2. rows \in [Ids -> Row] /\ Contents(i) \subseteq Items
  BY DEF TypeOK, Contents, Row
<1>3. /\ rows' \in [Ids -> Row] /\ rows'[i].status = "dispatched"
      /\ rows'[i].payload = rows[i].payload /\ rows'[i].key = rows[i].key
      /\ \A j \in Ids : j # i => rows'[j] = rows[j]
  BY <1>1, <1>2 DEF Row, RowStatus
<1>4. i \in Stored
  BY <1>1 DEF Stored
<1>5. SameRows
  BY <1>3, <1>4, RowWritten DEF RowStatus
<1>6. TypeOK'
  BY <1>1, <1>2, <1>3, <1>5, SameRowsIs DEF TypeOK
<1>7. FewerOpen
  BY <1>1, <1>3 DEF FewerOpen, Pending
<1>8. LeasedOK'
  BY <1>1, <1>3, <1>4, <1>5, SameRowsIs DEF LeasedOK
<1>9. AccountedFor'
  <2>1. /\ Stored' = Stored /\ \A j \in Ids : Contents(j)' = Contents(j)
    BY <1>5, SameRowsIs
  <2> SUFFICES ASSUME NoAccident
      PROVE /\ \A c \in 1 .. sensed - Len(bus.todo) : \E j \in Stored : c \in Contents(j)
            /\ \A j \in Ids : rows'[j].status = "dispatched" => mind'.busy /\ mind'.id = j
            /\ mind'.busy => rows'[mind'.id].status = "dispatched" /\ mind'.given = Contents(mind'.id)
            /\ \A j \in Ids : rows'[j].status = "settled" => Contents(j) \subseteq heard
            /\ \A j \in Ids : rows'[j].status = "coalesced" =>
                 \A c \in Contents(j) : \E e \in c + 1 .. sensed : keyOf[e] = keyOf[c]
    BY <1>1, <2>1 DEF AccountedFor, NoAccident, Stored
  <2>2. \A j \in Ids : rows[j].status # "dispatched"
    BY <1>1 DEF AccountedFor
  <2> QED
    BY <1>1, <1>3, <2>2 DEF AccountedFor
<1>10. clock \in Nat
  BY TimesAssumption DEF TypeOK, Times
<1> QED
  BY <1>1, <1>5, <1>6, <1>7, <1>8, <1>9, <1>10, CallLetAlone DEF HistoryOK

LEMMA SettleStep == ASSUME BusInv, Settle PROVE BusInv'
<1> USE DEF BusInv
<1> DEFINE i == mind.id
<1>1. /\ mind.busy /\ rows' = [rows EXCEPT ![i].status = "settled"]
      /\ heard' = heard \cup mind.given /\ mind' = Awake
      /\ UNCHANGED <<clock, credits, bus, sensed, faults, crashes, keyOf, leased, collided, raced>>
  BY DEF Settle
<1>2. rows \in [Ids -> Row] /\ i \in Ids /\ i \in Stored /\ i \in leased /\ mind.given \subseteq Items
  BY <1>1 DEF TypeOK, LeasedOK
<1>3. /\ rows' \in [Ids -> Row] /\ rows'[i].status = "settled"
      /\ rows'[i].payload = rows[i].payload /\ rows'[i].key = rows[i].key
      /\ \A j \in Ids : j # i => rows'[j] = rows[j]
  BY <1>1, <1>2 DEF Row, RowStatus
<1> HIDE DEF i
<1>5. SameRows
  BY <1>2, <1>3, RowWritten DEF RowStatus
<1>6. TypeOK'
  BY <1>1, <1>2, <1>3, <1>5, SameRowsIs, AwakeIs DEF TypeOK
<1>7. FewerOpen
  BY <1>1, <1>3 DEF FewerOpen, Pending
<1>8. LeasedOK'
  BY <1>1, <1>2, <1>3, <1>5, AwakeIs DEF LeasedOK
<1>9. AccountedFor'
  <2>1. /\ Stored' = Stored /\ \A j \in Ids : Contents(j)' = Contents(j)
    BY <1>5, SameRowsIs
  <2> SUFFICES ASSUME NoAccident
      PROVE /\ \A c \in 1 .. sensed - Len(bus.todo) : \E j \in Stored : c \in Contents(j)
            /\ \A j \in Ids : rows'[j].status # "dispatched"
            /\ \A j \in Ids : rows'[j].status = "settled" => Contents(j) \subseteq heard'
            /\ \A j \in Ids : rows'[j].status = "coalesced" =>
                 \A c \in Contents(j) : \E e \in c + 1 .. sensed : keyOf[e] = keyOf[c]
    BY <1>1, <2>1, AwakeIs DEF AccountedFor, NoAccident, Stored
  <2>2. \A j \in Ids : rows[j].status = "dispatched" => j = i
    BY <1>1 DEF AccountedFor, i
  <2>3. mind.given = Contents(i)
    BY <1>1 DEF AccountedFor, i
  <2> QED
    BY <1>1, <1>3, <2>2, <2>3 DEF AccountedFor
<1>10. clock \in Nat
  BY TimesAssumption DEF TypeOK, Times
<1> QED
  BY <1>1, <1>2, <1>5, <1>6, <1>7, <1>8, <1>9, <1>10, CallLetAlone DEF HistoryOK

LEMMA RetryStep == ASSUME BusInv, Retry PROVE BusInv'
<1> USE DEF BusInv
<1> DEFINE i == mind.id
<1>1. /\ mind.busy /\ rows[i].attempts < MaxRetries /\ mind' = Awake
      /\ rows' = [rows EXCEPT ![i].status = "pending", ![i].attempts = @ + 1,
                              ![i].popAfter = clock + RetryDelay]
      /\ UNCHANGED <<clock, credits, bus, sensed, faults, crashes,
                     keyOf, leased, heard, collided, raced>>
  BY DEF Retry, history
<1>2. rows \in [Ids -> Row] /\ i \in Ids /\ i \in Stored /\ i \in leased
  BY <1>1 DEF TypeOK, LeasedOK
<1>3. clock \in Nat /\ clock + RetryDelay \in Nat
  BY TimesAssumption DEF TypeOK, Times
<1> HIDE DEF i, BusInv
<1>4. /\ rows' \in [Ids -> Row] /\ rows'[i].status = "pending"
      /\ rows'[i].payload = rows[i].payload /\ rows'[i].key = rows[i].key
      /\ \A j \in Ids : j # i => rows'[j] = rows[j]
  <2> DEFINE row == [rows[i] EXCEPT !.status = "pending", !.attempts = @ + 1,
                                    !.popAfter = clock + RetryDelay]
  <2>1. rows[i] \in Row /\ rows[i].attempts + 1 \in 0 .. MaxRetries
    BY <1>1, <1>2, TimesAssumption DEF Row
  <2>2. /\ row \in Row /\ row.status = "pending"
        /\ row.payload = rows[i].payload /\ row.key = rows[i].key
    BY <1>3, <2>1 DEF Row, RowStatus
  <2>3. rows' = [rows EXCEPT ![i] = row]
    BY <1>1, <1>2
  <2> HIDE DEF row
  <2> QED
    BY <1>2, <2>2, <2>3
<1> USE DEF BusInv
<1>5. SameRows
  BY <1>2, <1>4, RowWritten DEF RowStatus
<1>6. TypeOK'
  BY <1>1, <1>2, <1>4, <1>5, SameRowsIs, AwakeIs DEF TypeOK
<1>7. FewerOpen
  BY <1>1, <1>2, <1>4 DEF FewerOpen, Pending
<1>8. LeasedOK'
  BY <1>1, <1>2, <1>4, <1>5, AwakeIs DEF LeasedOK
<1>9. AccountedFor'
  <2>1. /\ Stored' = Stored /\ \A j \in Ids : Contents(j)' = Contents(j)
    BY <1>5, SameRowsIs
  <2>3. /\ mind'.busy = FALSE
        /\ UNCHANGED <<bus, sensed, faults, crashes, keyOf, heard, collided, raced>>
    BY <1>1, AwakeIs
  <2> SUFFICES ASSUME NoAccident
      PROVE /\ \A c \in 1 .. sensed - Len(bus.todo) : \E j \in Stored : c \in Contents(j)
            /\ \A j \in Ids : rows'[j].status # "dispatched"
            /\ \A j \in Ids : rows'[j].status = "settled" => Contents(j) \subseteq heard
            /\ \A j \in Ids : rows'[j].status = "coalesced" =>
                 \A c \in Contents(j) : \E e \in c + 1 .. sensed : keyOf[e] = keyOf[c]
    BY <2>1, <2>3 DEF AccountedFor, NoAccident, Stored
  <2>2. \A j \in Ids : rows[j].status = "dispatched" => j = i
    BY <1>1 DEF AccountedFor, i
  <2> QED
    BY <1>1, <1>4, <2>2 DEF AccountedFor
<1> QED
  BY <1>1, <1>3, <1>5, <1>6, <1>7, <1>8, <1>9, CallLetAlone DEF HistoryOK

\* The clock moves on, or nothing does.
LEMMA RowsLetAlone ==
  ASSUME BusInv, UNCHANGED <<rows, credits, bus, mind, sensed, faults, crashes, history>>,
         clock' \in Times, clock <= clock'
  PROVE  BusInv'
<1> USE DEF BusInv, history
<1>1. SameRows /\ FewerOpen
  BY DEF SameRows, FewerOpen, Pending
<1>2. TypeOK'
  BY <1>1, SameRowsIs DEF TypeOK
<1>3. LeasedOK'
  BY DEF LeasedOK, Stored
<1>4. AccountedFor'
  BY DEF AccountedFor, NoAccident, Stored, Contents
<1>5. clock' \in Nat
  BY TimesAssumption DEF Times
<1> QED
  BY <1>1, <1>2, <1>3, <1>4, <1>5, CallLetAlone DEF HistoryOK

LEMMA TickStep == ASSUME BusInv, Tick \/ UNCHANGED vars PROVE BusInv'
<1>1. clock \in Nat /\ MaxTime \in Nat /\ clock <= MaxTime
  BY TimesAssumption DEF BusInv, TypeOK, Times
<1>2. clock' \in Times /\ clock <= clock'
  BY <1>1 DEF Tick, vars, Times
<1> QED
  BY <1>2, RowsLetAlone DEF Tick, vars, history

-----------------------------------------------------------------------------
(* Ingestion: the firing, the search and the steps that end a call.          *)

\* No credit is due for a candidate that is not coalesced.
LEMMA NothingDue ==
  (bus.phase = "storing" => ~Coalesces) =>
    \A d \in Duties, k \in Keys : \A day : Mode[d] = "adaptive" => ToStore(d, k, day) = 0
<1>1. SUFFICES ASSUME bus.phase = "storing" => ~Coalesces,
                      NEW d \in Duties, NEW k \in Keys, NEW day, Mode[d] = "adaptive",
                      bus.phase = "storing", <<d, k, day>> = Account
               PROVE  FALSE
  BY DEF ToStore
<1>2. d = bus.duty /\ k = keyOf[Candidate]
  BY <1>1 DEF Account
<1> QED
  BY <1>1, <1>2, DutiesAssumption DEF Coalesces

LEMMA NothingDueNext ==
  (bus'.phase = "storing" => ~Coalesces') =>
    \A d \in Duties, k \in Keys : \A day : Mode[d] = "adaptive" => ToStore(d, k, day)' = 0
<1>1. ((bus.phase = "storing" => ~Coalesces) =>
        \A d \in Duties, k \in Keys : \A day : Mode[d] = "adaptive" => ToStore(d, k, day) = 0)'
  BY NothingDue, PTL
<1> QED
  BY <1>1

LEMMA InitInv == Init => BusInv
<1> SUFFICES ASSUME Init PROVE BusInv
  OBVIOUS
<1>1. /\ clock = 0 /\ rows = [i \in Ids |-> NoRow] /\ bus = Idle /\ mind = Awake
      /\ credits = [c \in Duties \X Keys \X Dates |-> 0]
      /\ sensed = 0 /\ faults = 0 /\ crashes = 0 /\ keyOf = [n \in Items |-> NoKey]
      /\ leased = {} /\ heard = {} /\ collided = {} /\ raced = {}
  BY DEF Init
<1>2. bus.phase = "idle" /\ bus.todo = <<>> /\ bus.at = 0 /\ mind.busy = FALSE
      /\ Len(bus.todo) = 0 /\ DOMAIN bus.todo = {}
  <2>1. Len(<<>>) = 0 /\ DOMAIN <<>> = {}
    OBVIOUS
  <2> QED
    BY <1>1, <2>1, IdleIs, AwakeIs
<1>3. NoRow \in Row /\ NoRow.status = "absent" /\ NoRow.payload = <<>>
  <2>1. <<>> \in Seq(Items)
    BY EmptySeq
  <2> QED
    BY <2>1, TimesAssumption DEF NoRow, Row, RowStatus, AnyKey
<1>4. Stored = {} /\ Pending = {} /\ \A i \in Ids : Contents(i) = {}
  BY <1>1, <1>3 DEF Stored, Pending, Contents
<1>5. TypeOK
  <2>1. 0 \in Times /\ 0 \in 0 .. MaxItems /\ 0 + 0 <= MaxAccidents
    BY TimesAssumption DEF Times
  <2>2. rows \in [Ids -> Row] /\ credits \in [Duties \X Keys \X Dates -> Nat]
    BY <1>1, <1>3
  <2>3. bus \in BusType /\ mind \in [id : Ids, busy : BOOLEAN, given : SUBSET Items]
    BY <1>1, IdleIs, AwakeIs
  <2> QED
    BY <1>1, <1>4, <2>1, <2>2, <2>3 DEF TypeOK, BusType
<1>6. CallOK
  BY <1>1, <1>2 DEF CallOK
<1>7. FoundOK /\ LeasedOK /\ NoneOpen
  BY <1>1, <1>2, <1>3 DEF FoundOK, LeasedOK, NoneOpen
<1>8. RowsOK /\ HistoryOK
  BY <1>1, <1>3, <1>4 DEF RowsOK, HistoryOK, AnyKey, Stored
<1>9. CarriedOnce /\ OneOpenRow
  BY <1>4 DEF CarriedOnce, OneOpenRow
<1>10. CreditsOK
  <2> SUFFICES ASSUME NEW d \in Duties, NEW k \in Keys, NEW day \in Dates
               PROVE  /\ Cardinality(Bought(d, k, day)) + ToStore(d, k, day) <= credits[<<d, k, day>>]
                      /\ credits[<<d, k, day>>] <= Cardinality(Bought(d, k, day))
                           + ToStore(d, k, day) + Mishaps + Cardinality(collided)
    BY DEF CreditsOK
  <2>1. Bought(d, k, day) = {} /\ Cardinality({}) = 0
    BY <1>4, FS_EmptySet DEF Bought
  <2>2. ToStore(d, k, day) = 0 /\ Mishaps = 0 /\ credits[<<d, k, day>>] = 0
    BY <1>1, <1>2 DEF ToStore, Mishaps
  <2> QED
    BY <1>1, <2>1, <2>2
<1>11. AccountedFor
  BY <1>1, <1>2, <1>3 DEF AccountedFor
<1> QED
  BY <1>5, <1>6, <1>7, <1>8, <1>9, <1>10, <1>11 DEF BusInv

\* Where the rows and the wake are as they were, so is all that is said of them alone.
LEMMA RowsAsTheyWere ==
  ASSUME BusInv, UNCHANGED <<rows, mind, leased, clock>>
  PROVE  /\ SameRows /\ CarriedOnce' /\ OneOpenRow' /\ LeasedOK'
         /\ Stored' = Stored /\ Pending' = Pending /\ Stored \subseteq Ids
         /\ \A i \in Ids : Contents(i)' = Contents(i)
<1>1. SameRows /\ FewerOpen
  BY DEF SameRows, FewerOpen, Pending
<1>2. CarriedOnce' /\ OneOpenRow'
  BY <1>1, CarriedStays, OpenStays DEF BusInv
<1>3. LeasedOK' /\ Pending' = Pending /\ Stored \subseteq Ids
  BY DEF BusInv, LeasedOK, Stored, Pending
<1> QED
  BY <1>1, <1>2, <1>3, SameRowsIs

\* The firing, numbered: what is sensed and the call that begins.
LEMMA FireIs ==
  ASSUME BusInv, NEW d \in Duties, Fire(d)
  PROVE  \E n \in 1 .. MaxBatch :
           /\ sensed' = sensed + n /\ sensed' \in 0 .. MaxItems
           /\ keyOf' \in [Items -> AnyKey] /\ \A c \in 1 .. sensed : keyOf'[c] = keyOf[c]
           /\ bus' \in BusType /\ bus'.phase \in {"finding", "storing"}
           /\ bus'.phase = "finding" <=> Coalesces'
           /\ bus'.at = clock /\ bus'.index = 1
           /\ Len(bus'.todo) = n /\ DOMAIN bus'.todo = 1 .. n
           /\ \A c \in 1 .. n : bus'.todo[c] = sensed + c
<1>1. PICK n \in 1 .. MaxBatch :
        /\ sensed + n <= MaxItems
        /\ \E k \in [1 .. n -> AnyKey] :
             keyOf' = [c \in Items |-> IF c \in sensed + 1 .. sensed + n
                                       THEN k[c - sensed] ELSE keyOf[c]]
        /\ bus' = Begin([Idle EXCEPT !.duty = d, !.at = clock,
                                     !.todo = [c \in 1 .. n |-> sensed + c]])
        /\ sensed' = sensed + n
  BY DEF Fire
<1>2. sensed \in Nat /\ MaxItems \in Nat /\ sensed <= MaxItems /\ clock \in Times
      /\ n \in Nat /\ n >= 1 /\ keyOf \in [Items -> AnyKey]
  BY TimesAssumption DEF BusInv, TypeOK, HistoryOK
<1>3. sensed' = sensed + n /\ sensed' \in 0 .. MaxItems
  BY <1>1, <1>2
<1>4. keyOf' \in [Items -> AnyKey] /\ \A c \in 1 .. sensed : keyOf'[c] = keyOf[c]
  <2>1. PICK k \in [1 .. n -> AnyKey] :
          keyOf' = [c \in Items |-> IF c \in sensed + 1 .. sensed + n
                                    THEN k[c - sensed] ELSE keyOf[c]]
    BY <1>1
  <2>2. \A c \in Items : c \in sensed + 1 .. sensed + n => c - sensed \in 1 .. n
    BY <1>2
  <2>3. keyOf' \in [Items -> AnyKey]
    BY <1>2, <2>1, <2>2
  <2>4. \A c \in 1 .. sensed : c \in Items /\ c \notin sensed + 1 .. sensed + n
    BY <1>2 DEF Items
  <2> QED
    BY <2>1, <2>3, <2>4
<1> DEFINE q == [c \in 1 .. n |-> sensed + c]
           b == [Idle EXCEPT !.duty = d, !.at = clock, !.todo = q]
<1>5. q \in Seq(Items) /\ Len(q) = n /\ DOMAIN q = 1 .. n /\ \A c \in 1 .. n : q[c] = sensed + c
  <2>1. sensed + n <= MaxItems
    BY <1>1
  <2>2. \A c \in 1 .. n : sensed + c \in Items
    BY <1>2, <2>1 DEF Items
  <2>3. q \in [1 .. n -> Items] /\ \A c \in 1 .. n : q[c] = sensed + c
    BY <2>2
  <2>4. ASSUME NEW S, NEW r \in [1 .. n -> S]
        PROVE  r \in Seq(S) /\ Len(r) = n /\ DOMAIN r = 1 .. n
    BY <1>2
  <2> QED
    BY <2>3, <2>4
<1> HIDE DEF q
<1>6. b \in BusType /\ b.todo = q /\ b.duty = d /\ b.at = clock /\ b.index = 1
  BY <1>2, <1>5, IdleIs DEF BusType
<1>7. bus' = Begin(b)
  BY <1>1 DEF q
<1> HIDE DEF b
<1>8. /\ bus' \in BusType /\ bus'.todo = q /\ bus'.at = clock /\ bus'.index = 1 /\ bus'.duty = d
      /\ bus'.phase = IF Mode[d] # "none" /\ keyOf'[Head(q)] # NoKey THEN "finding" ELSE "storing"
  BY <1>6, <1>7, BeginIs
<1>9. bus'.phase \in {"finding", "storing"} /\ (bus'.phase = "finding" <=> Coalesces')
  BY <1>8 DEF Coalesces, Candidate
<1> QED
  BY <1>3, <1>4, <1>5, <1>8, <1>9

LEMMA FireStep == ASSUME BusInv, NEW d \in Duties, Fire(d) PROVE BusInv'
<1> USE DEF BusInv
<1>1. PICK n \in 1 .. MaxBatch :
        /\ sensed' = sensed + n /\ sensed' \in 0 .. MaxItems
        /\ keyOf' \in [Items -> AnyKey] /\ \A c \in 1 .. sensed : keyOf'[c] = keyOf[c]
        /\ bus' \in BusType /\ bus'.phase \in {"finding", "storing"}
        /\ bus'.phase = "finding" <=> Coalesces'
        /\ bus'.at = clock /\ bus'.index = 1
        /\ Len(bus'.todo) = n /\ DOMAIN bus'.todo = 1 .. n
        /\ \A c \in 1 .. n : bus'.todo[c] = sensed + c
  BY FireIs
<1>2. /\ bus.phase = "idle"
      /\ UNCHANGED <<clock, rows, credits, mind, faults, crashes, leased, heard, collided, raced>>
  BY DEF Fire
<1>3. /\ SameRows /\ CarriedOnce' /\ OneOpenRow' /\ LeasedOK'
      /\ Stored' = Stored /\ Pending' = Pending /\ Stored \subseteq Ids
      /\ \A i \in Ids : Contents(i)' = Contents(i)
  BY <1>2, RowsAsTheyWere
<1>4. bus.todo = <<>> /\ Len(bus.todo) = 0 /\ sensed \in Nat /\ n \in Nat /\ n >= 1
      /\ MaxBatch \in Nat /\ n <= MaxBatch /\ clock \in Nat /\ MaxItems \in Nat /\ sensed <= MaxItems
  <2>1. Len(<<>>) = 0
    OBVIOUS
  <2> QED
    BY <1>2, <2>1, TimesAssumption DEF CallOK, TypeOK, Times
<1>5. sensed - Len(bus.todo) = sensed /\ sensed' - Len(bus'.todo) = sensed
  BY <1>1, <1>4
<1>6. TypeOK'
  <2>1. 1 .. sensed \subseteq 1 .. sensed'
    BY <1>1, <1>4
  <2>2. \A i \in Ids : Contents(i)' \subseteq 1 .. sensed'
    BY <1>3, <2>1 DEF TypeOK
  <2> QED
    BY <1>1, <1>2, <2>2 DEF TypeOK, BusType
<1>7. CallOK'
  <2>1. Len(bus'.todo) <= sensed' /\ bus'.index + Len(bus'.todo) <= MaxBatch + 1
        /\ clock <= clock
    BY <1>1, <1>4
  <2>2. \A c \in DOMAIN bus'.todo : bus'.todo[c] = sensed' - Len(bus'.todo) + c
    BY <1>1, <1>5
  <2>3. bus'.todo # <<>>
    <3>1. Len(<<>>) = 0
      OBVIOUS
    <3> QED
      BY <1>1, <1>4, <3>1
  <2> QED
    BY <1>1, <1>2, <2>1, <2>2, <2>3 DEF CallOK
<1>8. FoundOK'
  BY <1>1 DEF FoundOK
<1>9. RowsOK'
  <2>1. \A i \in Ids, c \in Items : c \in Contents(i) => c \in 1 .. sensed
    BY <1>5 DEF RowsOK
  <2> QED
    BY <1>1, <1>2, <1>3, <1>5, <2>1 DEF RowsOK
<1>10. HistoryOK'
  BY <1>1, <1>2, <1>5 DEF HistoryOK
<1>11. NoneOpen'
  BY <1>1 DEF NoneOpen
<1>12. CreditsOK'
  <2>1. \A d1 \in Duties, k \in Keys, day \in Dates :
          ToStore(d1, k, day) = 0 /\ (Mode[d1] = "adaptive" => ToStore(d1, k, day)' = 0)
    BY <1>1, <1>2, NothingDueNext DEF ToStore
  <2>2. Mishaps' = Mishaps /\ Mishaps \in Nat
    BY <1>2 DEF Mishaps, TypeOK
  <2> QED
    BY <1>2, <1>3, <1>6, <2>1, <2>2, SameRowsIs, CreditsStay
<1>13. AccountedFor'
  <2> SUFFICES ASSUME NoAccident
      PROVE /\ \A c \in 1 .. sensed : \E i \in Stored : c \in Contents(i)
            /\ \A i \in Ids : rows[i].status = "coalesced" =>
                 \A c \in Contents(i) : \E e \in c + 1 .. sensed' : keyOf'[e] = keyOf'[c]
    <3>1. mind.id \in Ids /\ Contents(mind.id)' = Contents(mind.id)
      BY <1>2 DEF TypeOK, Contents
    <3>2. /\ NoAccident' <=> NoAccident
          /\ UNCHANGED <<rows, mind, heard>>
      BY <1>2 DEF NoAccident
    <3> QED
      BY <1>3, <1>5, <3>1, <3>2 DEF AccountedFor
  <2>1. \A c \in 1 .. sensed : \E i \in Stored : c \in Contents(i)
    BY <1>5 DEF AccountedFor
  <2>2. ASSUME NEW i \in Ids, rows[i].status = "coalesced", NEW c \in Contents(i)
        PROVE  \E e \in c + 1 .. sensed' : keyOf'[e] = keyOf'[c]
    <3>1. c \in 1 .. sensed
      BY <1>5 DEF RowsOK
    <3>2. PICK e \in c + 1 .. sensed : keyOf[e] = keyOf[c]
      BY <2>2 DEF AccountedFor
    <3>3. e \in 1 .. sensed /\ e \in c + 1 .. sensed'
      BY <1>1, <1>4, <3>1, <3>2
    <3> QED
      BY <1>1, <3>1, <3>2, <3>3
  <2> QED
    BY <2>1, <2>2
<1> QED
  BY <1>3, <1>6, <1>7, <1>8, <1>9, <1>10, <1>11, <1>12, <1>13

\* A step of the call that keeps its candidate and writes no row.
LEMMA SameCandidate ==
  ASSUME BusInv, UNCHANGED <<clock, rows, mind, sensed, faults, crashes, history>>,
         bus.phase # "idle", bus'.phase # "idle",
         bus' \in BusType, bus'.todo = bus.todo, bus'.at = bus.at, bus'.duty = bus.duty,
         bus'.index = bus.index, credits' \in [Duties \X Keys \X Dates -> Nat]
  PROVE  /\ TypeOK' /\ RowsOK' /\ HistoryOK' /\ CarriedOnce' /\ LeasedOK' /\ OneOpenRow'
         /\ AccountedFor' /\ SameRows /\ Stored' = Stored /\ Joinable' = Joinable
         /\ Candidate' = Candidate /\ Coalesces' = Coalesces /\ Account' = Account
         /\ (CallOK' <=>
              /\ bus'.phase \in {"finding", "superseding", "folding", "spending"} => Coalesces
              /\ bus'.phase = "spending" => Mode[bus.duty] = "adaptive"
              /\ bus'.phase = "superseding" => Mode[bus.duty] = "latest")
<1> USE DEF BusInv, history
<1>1. /\ SameRows /\ CarriedOnce' /\ OneOpenRow' /\ LeasedOK'
      /\ Stored' = Stored /\ Pending' = Pending /\ Stored \subseteq Ids
      /\ \A i \in Ids : Contents(i)' = Contents(i)
  BY RowsAsTheyWere
<1>2. TypeOK'
  BY <1>1 DEF TypeOK, BusType
<1>3. Candidate' = Candidate /\ Coalesces' = Coalesces /\ Account' = Account
  BY DEF Candidate, Coalesces, Account
<1>4. Joinable' = Joinable
  BY <1>1, <1>3 DEF Joinable, Coalescable, WithinWindow
<1>5. RowsOK' /\ HistoryOK'
  BY <1>1 DEF RowsOK, HistoryOK
<1>6. AccountedFor'
  <2>1. mind.id \in Ids /\ Contents(mind.id)' = Contents(mind.id)
    BY DEF TypeOK, Contents
  <2>2. NoAccident' <=> NoAccident
    BY DEF NoAccident
  <2> QED
    BY <1>1, <2>1, <2>2 DEF AccountedFor
<1>7. CallOK' <=>
        /\ bus'.phase \in {"finding", "superseding", "folding", "spending"} => Coalesces
        /\ bus'.phase = "spending" => Mode[bus.duty] = "adaptive"
        /\ bus'.phase = "superseding" => Mode[bus.duty] = "latest"
  BY <1>3 DEF CallOK
<1> QED
  BY <1>1, <1>2, <1>3, <1>4, <1>5, <1>6, <1>7

LEMMA FindStep == ASSUME BusInv, Find PROVE BusInv'
<1> USE DEF BusInv
<1>1. /\ bus.phase = "finding"
      /\ UNCHANGED <<clock, rows, credits, mind, sensed, faults, crashes, history>>
  BY DEF Find
<1>2. bus \in BusType /\ credits' \in [Duties \X Keys \X Dates -> Nat] /\ rows \in [Ids -> Row]
  BY <1>1 DEF TypeOK, BusType
<1>3. Coalesces
  BY <1>1 DEF CallOK
<1>4. Mishaps' = Mishaps /\ Mishaps \in Nat
  BY <1>1 DEF Mishaps, TypeOK
<1>5. CASE /\ Joinable = {}
           /\ bus' = [bus EXCEPT !.phase = IF Mode[bus.duty] = "adaptive"
                                          THEN "spending" ELSE "storing"]
  <2>1. /\ bus' \in BusType /\ bus'.todo = bus.todo /\ bus'.at = bus.at
        /\ bus'.duty = bus.duty /\ bus'.index = bus.index
        /\ bus'.phase = IF Mode[bus.duty] = "adaptive" THEN "spending" ELSE "storing"
    BY <1>2, <1>5 DEF BusType, Phases
  <2>2. /\ TypeOK' /\ RowsOK' /\ HistoryOK' /\ CarriedOnce' /\ LeasedOK' /\ OneOpenRow'
        /\ AccountedFor' /\ SameRows /\ Joinable' = Joinable /\ Account' = Account /\ CallOK'
    BY <1>1, <1>2, <1>3, <2>1, SameCandidate
  <2>3. FoundOK' /\ NoneOpen'
    BY <1>5, <2>1, <2>2 DEF FoundOK, NoneOpen
  <2>4. CreditsOK'
    <3>1. \A d \in Duties, k \in Keys, day \in Dates : Mode[d] = "adaptive" =>
            ToStore(d, k, day) = 0 /\ ToStore(d, k, day)' = 0
      BY <1>1, <2>1, <2>2 DEF ToStore, Account
    <3> QED
      BY <1>1, <1>4, <2>2, <3>1, SameRowsIs, CreditsStay DEF history
  <2> QED
    BY <2>2, <2>3, <2>4
<1>6. ASSUME NEW s \in OldestFirst(Joinable), s # <<>>,
             bus' = IF Mode[bus.duty] = "latest"
                    THEN [bus EXCEPT !.phase = "superseding", !.found = s]
                    ELSE [bus EXCEPT !.phase = "folding", !.found = <<s[1]>>,
                                     !.base = rows[s[1]].payload]
      PROVE  BusInv'
  <2>1. /\ s \in Seq(Joinable) /\ \A i \in Joinable : \E n \in DOMAIN s : s[n] = i
        /\ Joinable \subseteq Ids
    BY FewJoinable, EachOnce
  <2>2. s \in Seq(Ids) /\ \A n \in DOMAIN s : s[n] \in Joinable
    BY <2>1
  <2>3. s[1] \in Joinable /\ Head(<<s[1]>>) = s[1] /\ <<s[1]>> \in Seq(Ids)
        /\ \A n \in DOMAIN <<s[1]>> : <<s[1]>>[n] = s[1]
    BY <1>6, <2>1, <2>2
  <2>4. rows[s[1]].payload \in Seq(Items)
    BY <1>2, <2>1, <2>3 DEF Row
  <2>5. /\ bus' \in BusType /\ bus'.todo = bus.todo /\ bus'.at = bus.at
        /\ bus'.duty = bus.duty /\ bus'.index = bus.index
        /\ bus'.phase = IF Mode[bus.duty] = "latest" THEN "superseding" ELSE "folding"
        /\ bus'.found = IF Mode[bus.duty] = "latest" THEN s ELSE <<s[1]>>
        /\ Mode[bus.duty] # "latest" => bus'.base = rows[s[1]].payload
    BY <1>2, <1>6, <2>2, <2>3, <2>4 DEF BusType, Phases
  <2>6. /\ TypeOK' /\ RowsOK' /\ HistoryOK' /\ CarriedOnce' /\ LeasedOK' /\ OneOpenRow'
        /\ AccountedFor' /\ SameRows /\ Joinable' = Joinable /\ Account' = Account /\ CallOK'
        /\ Candidate' = Candidate /\ Stored' = Stored
    BY <1>1, <1>2, <1>3, <2>5, SameCandidate
  <2>7. FoundOK'
    <3>1. \A i \in Joinable : rows[i].key = keyOf[Candidate] /\ i \in Stored
      BY FewJoinable DEF Pending, Stored
    <3>2. bus'.found # <<>> /\ \A n \in DOMAIN bus'.found : bus'.found[n] \in Joinable
      BY <1>6, <2>2, <2>3, <2>5
    <3> QED
      BY <1>1, <2>3, <2>5, <2>6, <3>1, <3>2 DEF FoundOK, history
  <2>8. NoneOpen'
    BY <2>1, <2>5, <2>6 DEF NoneOpen
  <2>9. CreditsOK'
    <3>1. \A d \in Duties, k \in Keys, day \in Dates :
            ToStore(d, k, day) = 0 /\ ToStore(d, k, day)' = 0
      BY <1>1, <2>5 DEF ToStore
    <3> QED
      BY <1>1, <1>4, <2>6, <3>1, SameRowsIs, CreditsStay DEF history
  <2> QED
    BY <2>6, <2>7, <2>8, <2>9
<1> QED
  BY <1>5, <1>6 DEF Find

\* The account of a candidate that is coalesced by its key is one of the accounts.
LEMMA AccountIs ==
  ASSUME BusInv, bus.phase # "idle", Coalesces
  PROVE  /\ bus.duty \in Duties /\ keyOf[Candidate] \in Keys /\ DateOf(bus.at) \in Dates
         /\ Account \in Duties \X Keys \X Dates
<1>1. bus \in BusType /\ keyOf \in [Items -> AnyKey] /\ Candidate \in Items
  BY CandidateIs DEF BusInv, TypeOK, HistoryOK, BusType
<1>2. keyOf[Candidate] \in Keys
  BY <1>1 DEF Coalesces, AnyKey
<1>3. DateOf(bus.at) \in Dates /\ bus.duty \in Duties
  BY <1>1 DEF Dates, BusType
<1> QED
  BY <1>2, <1>3 DEF Account

\* What is counted of an account.
LEMMA CountsAre ==
  ASSUME BusInv, NEW d \in Duties, NEW k \in Keys, NEW day \in Dates
  PROVE  /\ Cardinality(Bought(d, k, day)) \in Nat /\ Cardinality(collided) \in Nat
         /\ ToStore(d, k, day) \in {0, 1} /\ credits[<<d, k, day>>] \in Nat /\ Mishaps \in Nat
<1>1. Bought(d, k, day) \in SUBSET Ids /\ \A i \in Bought(d, k, day) : Duty(i) = d
  BY DEF Bought, Stored
<1>2. credits \in [Duties \X Keys \X Dates -> Nat] /\ <<d, k, day>> \in Duties \X Keys \X Dates
  BY DEF BusInv, TypeOK
<1>3. credits[<<d, k, day>>] \in Nat
  BY <1>2
<1>4. faults \in Nat /\ crashes \in Nat /\ Mishaps \in Nat
  BY DEF BusInv, TypeOK, Mishaps
<1> QED
  BY <1>1, <1>3, <1>4, FewRows, FewCollided DEF BusInv, ToStore

LEMMA SpendStep == ASSUME BusInv, Spend PROVE BusInv'
<1> USE DEF BusInv
<1>1. /\ bus.phase = "spending"
      /\ bus' = [bus EXCEPT !.phase = "storing", !.window = AdaptiveWindow(credits[Account])]
      /\ credits' = [credits EXCEPT ![Account] = @ + 1]
      /\ UNCHANGED <<clock, rows, mind, sensed, faults, crashes, history>>
  BY DEF Spend
<1>2. bus \in BusType /\ credits \in [Duties \X Keys \X Dates -> Nat]
  BY DEF TypeOK, BusType
<1>3. Coalesces /\ Mode[bus.duty] = "adaptive"
  BY <1>1 DEF CallOK
<1>4. Account \in Duties \X Keys \X Dates
  BY <1>1, <1>3, AccountIs
<1>5. AdaptiveWindow(credits[Account]) \in Nat
  BY <1>2, <1>4, AdaptiveWindowType
<1>6. /\ bus' \in BusType /\ bus'.todo = bus.todo /\ bus'.at = bus.at
      /\ bus'.duty = bus.duty /\ bus'.index = bus.index /\ bus'.phase = "storing"
  BY <1>1, <1>2, <1>5 DEF BusType, Phases
<1>7. credits' \in [Duties \X Keys \X Dates -> Nat]
  BY <1>1, <1>2, <1>4
<1>8. /\ TypeOK' /\ RowsOK' /\ HistoryOK' /\ CarriedOnce' /\ LeasedOK' /\ OneOpenRow'
      /\ AccountedFor' /\ SameRows /\ Joinable' = Joinable /\ Account' = Account /\ CallOK'
  BY <1>1, <1>3, <1>6, <1>7, SameCandidate
<1>9. FoundOK' /\ NoneOpen'
  BY <1>1, <1>3, <1>6, <1>8 DEF FoundOK, NoneOpen, history
<1>10. CreditsOK'
  <2>1. \A d, k, day : Bought(d, k, day)' = Bought(d, k, day)
    BY <1>8, SameRowsIs
  <2>2. Mishaps' = Mishaps /\ collided' = collided
    BY <1>1 DEF Mishaps, history
  <2> SUFFICES ASSUME NEW d \in Duties, NEW k \in Keys, NEW day \in Dates, Mode[d] = "adaptive"
               PROVE  /\ Cardinality(Bought(d, k, day)) + ToStore(d, k, day)' <= credits'[<<d, k, day>>]
                      /\ credits'[<<d, k, day>>] <= Cardinality(Bought(d, k, day)) + ToStore(d, k, day)'
                                                 + Mishaps + Cardinality(collided)
    BY <2>1, <2>2 DEF CreditsOK
  <2>3. /\ Cardinality(Bought(d, k, day)) + ToStore(d, k, day) <= credits[<<d, k, day>>]
        /\ credits[<<d, k, day>>] <= Cardinality(Bought(d, k, day)) + ToStore(d, k, day)
                                   + Mishaps + Cardinality(collided)
    BY DEF CreditsOK
  <2>4. ToStore(d, k, day) = 0
    BY <1>1 DEF ToStore
  <2>5. CASE <<d, k, day>> = Account
    <3>1. ToStore(d, k, day)' = 1 /\ credits'[<<d, k, day>>] = credits[<<d, k, day>>] + 1
      BY <1>1, <1>2, <1>4, <1>6, <1>8, <2>5 DEF ToStore
    <3> QED
      BY <2>3, <2>4, <3>1, CountsAre
  <2>6. CASE <<d, k, day>> # Account
    <3>1. ToStore(d, k, day)' = 0 /\ credits'[<<d, k, day>>] = credits[<<d, k, day>>]
      BY <1>1, <1>2, <1>8, <2>6 DEF ToStore
    <3> QED
      BY <2>3, <2>4, <3>1, CountsAre
  <2> QED
    BY <2>5, <2>6
<1> QED
  BY <1>8, <1>9, <1>10

\* A call that ends early leaves its firing unfinished, and that is a mishap.
LEMMA CallEnds ==
  ASSUME BusInv, TypeOK', SameRows, bus' = Idle, UNCHANGED <<clock, credits, sensed, history>>,
         Mishaps + 1 <= Mishaps', ~NoAccident', FewerOpen, LeasedOK'
  PROVE  BusInv'
<1> USE DEF BusInv, history
<1>1. bus'.phase = "idle" /\ bus'.todo = <<>> /\ bus'.at = 0 /\ Len(bus'.todo) = 0
      /\ DOMAIN bus'.todo = {}
  <2>1. Len(<<>>) = 0 /\ DOMAIN <<>> = {}
    OBVIOUS
  <2> QED
    BY <2>1, IdleIs
<1>2. clock \in Nat /\ bus.at \in Nat /\ sensed \in Nat /\ Len(bus.todo) \in Nat
      /\ bus.at <= clock
  <2>1. bus.todo \in Seq(Items)
    BY DEF TypeOK
  <2> QED
    BY <2>1, TimesAssumption DEF TypeOK, Times, CallOK
<1>3. /\ Stored' = Stored /\ \A i \in Ids : Contents(i)' = Contents(i)
      /\ Stored \subseteq Ids
  BY SameRowsIs DEF Stored
<1>4. CallOK'
  BY <1>1, <1>2 DEF CallOK
<1>5. FoundOK' /\ NoneOpen' /\ AccountedFor'
  BY <1>1 DEF FoundOK, NoneOpen, AccountedFor
<1>6. 1 .. sensed - Len(bus.todo) \subseteq 1 .. sensed' - Len(bus'.todo)
  BY <1>1, <1>2
<1>7. RowsOK'
  <2>1. \A i \in Stored : ReceivedAt(i) <= clock
    <3>1. \A i \in Stored : ReceivedAt(i) \in Nat
      BY <1>3 DEF Ids, Times, ReceivedAt
    <3> QED
      BY <1>2, <3>1 DEF RowsOK
  <2> QED
    BY <1>1, <1>3, <1>6, <2>1 DEF RowsOK, SameRows
<1>8. HistoryOK'
  BY <1>6 DEF HistoryOK
<1>9. CreditsOK'
  <2>1. \A d \in Duties, k \in Keys, day \in Dates : ToStore(d, k, day)' = 0
    BY <1>1 DEF ToStore
  <2> QED
    BY <2>1, SameRowsIs, CreditsStay
<1> QED
  BY <1>4, <1>5, <1>7, <1>8, <1>9, CarriedStays, OpenStays

LEMMA IngestFailsStep == ASSUME BusInv, IngestFails PROVE BusInv'
<1> USE DEF BusInv
<1>1. /\ faults + crashes < MaxAccidents /\ faults' = faults + 1 /\ bus' = Idle
      /\ UNCHANGED <<clock, rows, credits, mind, sensed, crashes, history>>
  BY DEF IngestFails
<1>2. faults \in Nat /\ crashes \in Nat /\ MaxAccidents \in Nat
  BY TimesAssumption DEF TypeOK
<1>3. faults' \in Nat /\ faults' # 0 /\ faults' + crashes' <= MaxAccidents
      /\ Mishaps + 1 <= Mishaps'
  BY <1>1, <1>2 DEF Mishaps
<1>4. SameRows /\ FewerOpen /\ LeasedOK'
  BY <1>1 DEF SameRows, FewerOpen, Pending, LeasedOK, Stored, history
<1>5. TypeOK'
  BY <1>1, <1>2, <1>3, <1>4, SameRowsIs, IdleIs DEF TypeOK, BusType
<1> QED
  BY <1>1, <1>3, <1>4, <1>5, CallEnds DEF NoAccident

LEMMA CrashStep == ASSUME BusInv, Crash PROVE BusInv'
<1> USE DEF BusInv
<1>1. /\ faults + crashes < MaxAccidents /\ crashes' = crashes + 1 /\ bus' = Idle /\ mind' = Awake
      /\ rows' = [i \in Ids |-> IF rows[i].status = "dispatched"
                                THEN [rows[i] EXCEPT !.status = "pending"] ELSE rows[i]]
      /\ UNCHANGED <<clock, credits, sensed, faults, history>>
  BY DEF Crash
<1>2. faults \in Nat /\ crashes \in Nat /\ MaxAccidents \in Nat /\ rows \in [Ids -> Row]
  BY TimesAssumption DEF TypeOK
<1>3. crashes' \in Nat /\ crashes' # 0 /\ faults' + crashes' <= MaxAccidents
      /\ Mishaps + 1 <= Mishaps'
  BY <1>1, <1>2 DEF Mishaps
<1>4. \A i \in Ids :
        /\ rows'[i] \in Row /\ rows'[i].payload = rows[i].payload /\ rows'[i].key = rows[i].key
        /\ rows'[i].popAfter = rows[i].popAfter
        /\ rows'[i].status = IF rows[i].status = "dispatched" THEN "pending" ELSE rows[i].status
  BY <1>1, <1>2 DEF Row, RowStatus
<1>5. rows' \in [Ids -> Row]
  BY <1>1, <1>4
<1>6. SameRows
  BY <1>4 DEF SameRows
<1>7. FewerOpen
  <2>1. \A i \in Ids : rows[i].status = "dispatched" => i \in leased
    BY DEF LeasedOK
  <2> QED
    BY <1>1, <1>4, <2>1 DEF FewerOpen, Pending, history
<1>8. LeasedOK'
  BY <1>1, <1>4, AwakeIs DEF LeasedOK, history
<1>9. TypeOK'
  BY <1>1, <1>2, <1>3, <1>5, <1>6, SameRowsIs, IdleIs, AwakeIs DEF TypeOK, BusType
<1> QED
  BY <1>1, <1>3, <1>6, <1>7, <1>8, <1>9, CallEnds DEF NoAccident

\* The candidate at hand comes after those dealt with.
LEMMA Follows ==
  ASSUME NEW n \in Nat, NEW m \in Nat, NEW c \in 1 .. n - m, n - m + 1 \in 1 .. n
  PROVE  n - m + 1 \in c + 1 .. n
OBVIOUS

\* Latest: one of the rows found is superseded, and the search has one row fewer.
LEMMA SupersedeStep == ASSUME BusInv, Supersede PROVE BusInv'
<1> USE DEF BusInv
<1> DEFINE i == Head(bus.found)
<1>1. /\ bus.phase = "superseding"
      /\ rows' = [rows EXCEPT ![i].status = "coalesced"]
      /\ raced' = IF rows[i].status = "pending" THEN raced ELSE raced \cup Contents(i)
      /\ bus' = IF Tail(bus.found) = <<>> THEN [bus EXCEPT !.phase = "storing"]
                ELSE [bus EXCEPT !.found = Tail(@)]
      /\ UNCHANGED <<clock, credits, mind, sensed, faults, crashes,
                     keyOf, leased, heard, collided>>
  BY DEF Supersede, Raced
<1>2. /\ bus \in BusType /\ rows \in [Ids -> Row] /\ bus.found \in Seq(Ids) /\ bus.found # <<>>
      /\ \A n \in DOMAIN bus.found :
           rows[bus.found[n]].key = keyOf[Candidate] /\ bus.found[n] \in Stored
      /\ Mode[bus.duty] = "latest" /\ Coalesces
  BY <1>1 DEF TypeOK, BusType, FoundOK, CallOK
<1>3. /\ i = bus.found[1] /\ i \in Ids /\ i \in Stored /\ rows[i].key = keyOf[Candidate]
      /\ Tail(bus.found) \in Seq(Ids) /\ Len(bus.found) \in Nat /\ Len(bus.found) >= 1
      /\ DOMAIN bus.found = 1 .. Len(bus.found)
      /\ DOMAIN Tail(bus.found) = 1 .. Len(bus.found) - 1
      /\ \A n \in 1 .. Len(bus.found) - 1 : Tail(bus.found)[n] = bus.found[n + 1]
  <2>1. 1 \in DOMAIN bus.found /\ i = bus.found[1] /\ i \in Ids
    BY <1>2
  <2>2. i \in Stored /\ rows[i].key = keyOf[Candidate]
    BY <1>2, <2>1
  <2> HIDE DEF i
  <2> QED
    BY <1>2, <2>1, <2>2
<1> HIDE DEF i
<1>4. /\ rows' \in [Ids -> Row] /\ rows'[i].status = "coalesced"
      /\ rows'[i].payload = rows[i].payload /\ rows'[i].key = rows[i].key
      /\ \A j \in Ids : j # i => rows'[j] = rows[j]
  BY <1>1, <1>2, <1>3 DEF Row, RowStatus
<1>5. SameRows
  BY <1>3, <1>4, RowWritten DEF RowStatus
<1>6. Stored' = Stored /\ Stored \subseteq Ids /\ \A j \in Ids : Contents(j)' = Contents(j)
  BY <1>5, SameRowsIs DEF Stored
<1>7. /\ bus' \in BusType /\ bus'.todo = bus.todo /\ bus'.at = bus.at
      /\ bus'.duty = bus.duty /\ bus'.index = bus.index /\ bus'.base = bus.base
      /\ bus'.phase = IF Tail(bus.found) = <<>> THEN "storing" ELSE "superseding"
      /\ bus'.phase = "superseding" => bus'.found = Tail(bus.found) /\ Tail(bus.found) # <<>>
  BY <1>1, <1>2, <1>3 DEF BusType, Phases
<1>8. Candidate' = Candidate /\ Coalesces' /\ Account' = Account
  BY <1>1, <1>2, <1>7 DEF Candidate, Coalesces, Account
<1>9. TypeOK'
  BY <1>1, <1>4, <1>6, <1>7 DEF TypeOK, BusType
<1>10. CallOK'
  BY <1>1, <1>2, <1>7, <1>8 DEF CallOK
<1>11. FoundOK'
  <2>1. CASE bus'.phase = "superseding"
    <3>1. \A n \in DOMAIN bus'.found :
            rows[bus'.found[n]].key = keyOf[Candidate] /\ bus'.found[n] \in Stored
      <4> TAKE n \in DOMAIN bus'.found
      <4>1. n \in 1 .. Len(bus.found) - 1 /\ bus'.found[n] = bus.found[n + 1]
        BY <1>3, <1>7, <2>1
      <4>2. n + 1 \in DOMAIN bus.found
        BY <1>3, <4>1
      <4> QED
        BY <1>2, <4>1, <4>2
    <3> QED
      BY <1>1, <1>5, <1>6, <1>7, <1>8, <2>1, <3>1 DEF FoundOK, SameRows
  <2> QED
    BY <1>7, <2>1 DEF FoundOK
<1>12. RowsOK'
  BY <1>1, <1>5, <1>6, <1>7 DEF RowsOK, SameRows
<1>13. HistoryOK' /\ LeasedOK'
  BY <1>1, <1>4, <1>6, <1>7 DEF HistoryOK, LeasedOK
<1>14. FewerOpen
  BY <1>1, <1>4 DEF FewerOpen, Pending
<1>15. NoneOpen'
  <2>1. Joinable' \ leased' \subseteq Joinable \ leased /\ i \notin Joinable'
    BY <1>1, <1>4, <1>7, <1>8, <1>14
       DEF Joinable, Coalescable, FewerOpen, WithinWindow, Pending
  <2>2. ASSUME NEW j \in Joinable' \ leased' PROVE \E n \in DOMAIN Tail(bus.found) : Tail(bus.found)[n] = j
    <3>1. PICK n \in DOMAIN bus.found : bus.found[n] = j
      BY <1>1, <2>1, <2>2 DEF NoneOpen
    <3>2. n # 1 /\ n \in 1 .. Len(bus.found)
      BY <1>3, <2>1, <2>2, <3>1
    <3>3. n - 1 \in DOMAIN Tail(bus.found) /\ Tail(bus.found)[n - 1] = bus.found[n]
      BY <1>3, <3>2
    <3> QED
      BY <3>1, <3>3
  <2>3. DOMAIN <<>> = {}
    OBVIOUS
  <2>4. CASE Tail(bus.found) = <<>>
    <3>1. Joinable' \subseteq leased'
      BY <2>2, <2>3, <2>4
    <3> QED
      BY <1>7, <2>4, <3>1 DEF NoneOpen
  <2>5. CASE Tail(bus.found) # <<>>
    BY <1>7, <2>2, <2>5 DEF NoneOpen
  <2> QED
    BY <2>4, <2>5
<1>16. CreditsOK'
  <2>1. \A d \in Duties, k \in Keys, day \in Dates : Mode[d] = "adaptive" =>
          ToStore(d, k, day) = 0 /\ ToStore(d, k, day)' = 0
    BY <1>1, <1>2, <1>8 DEF ToStore, Account
  <2>2. Mishaps' = Mishaps /\ Mishaps \in Nat
    BY <1>1 DEF Mishaps, TypeOK
  <2> QED
    BY <1>1, <1>5, <1>9, <2>1, <2>2, SameRowsIs, CreditsStay
<1>17. AccountedFor'
  <2>1. Contents(i) # {}
    BY <1>3 DEF RowsOK
  <2>2. NoAccident' => NoAccident /\ rows[i].status = "pending"
    BY <1>1, <2>1 DEF NoAccident
  <2>3. mind.id \in Ids
    BY DEF TypeOK
  <2> SUFFICES ASSUME NoAccident, rows[i].status = "pending"
      PROVE /\ \A c \in 1 .. sensed - Len(bus.todo) : \E j \in Stored : c \in Contents(j)
            /\ \A j \in Ids : rows'[j].status = "dispatched" => mind.busy /\ mind.id = j
            /\ mind.busy => rows'[mind.id].status = "dispatched" /\ mind.given = Contents(mind.id)
            /\ \A j \in Ids : rows'[j].status = "settled" => Contents(j) \subseteq heard
            /\ \A j \in Ids : rows'[j].status = "coalesced" =>
                 \A c \in Contents(j) : \E e \in c + 1 .. sensed : keyOf[e] = keyOf[c]
    <3>1. Contents(mind.id)' = Contents(mind.id)
      BY <1>1, <1>5, <2>3 DEF Contents, SameRows
    <3>2. UNCHANGED <<mind, sensed, keyOf, heard>> /\ bus'.todo = bus.todo
      BY <1>1, <1>7
    <3> QED
      BY <1>6, <2>2, <3>1, <3>2 DEF AccountedFor
  <2>4. ASSUME NEW c \in Contents(i) PROVE \E e \in c + 1 .. sensed : keyOf[e] = keyOf[c]
    <3>1. c \in 1 .. sensed - Len(bus.todo) /\ keyOf[c] = rows[i].key
      <4>1. Contents(i) \subseteq Items
        BY <1>2, <1>3 DEF Contents, Row
      <4> QED
        BY <1>3, <2>4, <4>1 DEF RowsOK
    <3>2. Candidate \in c + 1 .. sensed
      <4>1. /\ Len(bus.todo) \in Nat /\ sensed \in Nat /\ Candidate = sensed - Len(bus.todo) + 1
            /\ Candidate \in 1 .. sensed
        BY <1>1, CandidateIs
      <4> QED
        BY <3>1, <4>1, Follows
    <3> QED
      BY <1>3, <3>1, <3>2
  <2>5. mind.busy => mind.id # i
    BY <2>3 DEF AccountedFor
  <2> QED
    BY <1>1, <1>4, <2>3, <2>4, <2>5 DEF AccountedFor
<1> QED
  BY <1>9, <1>10, <1>11, <1>12, <1>13, <1>14, <1>15, <1>16, <1>17, <1>5, CarriedStays, OpenStays

-----------------------------------------------------------------------------
(* Ingestion: the candidate's fold and its row.                             *)

\* With its last step a candidate is one of those dealt with.
LEMMA AfterCandidate ==
  ASSUME BusInv, bus.phase # "idle", NextCandidate, UNCHANGED <<sensed, clock>>
  PROVE  /\ CallOK' /\ FoundOK' /\ NoneOpen' /\ keyOf' = keyOf /\ bus' \in BusType
         /\ 1 .. sensed - Len(bus.todo) \subseteq 1 .. sensed' - Len(bus'.todo)
         /\ Candidate \in 1 .. sensed' - Len(bus'.todo)
         /\ Candidate \notin 1 .. sensed - Len(bus.todo)
         /\ \A c \in 1 .. sensed' - Len(bus'.todo) :
              c \in 1 .. sensed - Len(bus.todo) \/ c = Candidate
         /\ bus.at <= (IF bus'.phase = "idle" THEN clock' ELSE bus'.at)
         /\ \A d \in Duties, k \in Keys : \A day : Mode[d] = "adaptive" => ToStore(d, k, day)' = 0
<1> USE DEF BusInv
<1>1. CallOK' /\ CallMovesOn /\ keyOf' = keyOf /\ (bus'.phase = "storing" => ~Coalesces')
  BY NextCandidateIs
<1>2. FoundOK' /\ NoneOpen'
  BY <1>1 DEF CallMovesOn, FoundOK, NoneOpen
<1>3. /\ Len(bus.todo) \in Nat /\ sensed \in Nat /\ Candidate = sensed - Len(bus.todo) + 1
      /\ Candidate \in 1 .. sensed /\ Len(bus'.todo) = Len(bus.todo) - 1 /\ sensed' = sensed
  BY <1>1, CandidateIs DEF CallMovesOn
<1> DEFINE l == Len(bus.todo)
           m == Len(bus'.todo)
<1>4. l \in Nat /\ m = l - 1 /\ sensed - l + 1 \in 1 .. sensed
  BY <1>3
<1> HIDE DEF l, m
<1>5. sensed - m = sensed - l + 1 /\ sensed - l \in Nat
  BY <1>3, <1>4
<1> DEFINE q == sensed - l
<1>6. q \in Nat /\ sensed - m = q + 1
  BY <1>5
<1>7. 1 .. q \subseteq 1 .. q + 1 /\ q + 1 \in 1 .. q + 1 /\ q + 1 \notin 1 .. q
      /\ \A c \in 1 .. q + 1 : c \in 1 .. q \/ c = q + 1
  <2> HIDE DEF q
  <2> QED
    BY <1>6
<1>8. bus.at <= (IF bus'.phase = "idle" THEN clock' ELSE bus'.at)
  <2>1. bus.at \in Nat
    BY TimesAssumption DEF TypeOK, Times
  <2> QED
    BY <1>1, <2>1 DEF CallMovesOn, CallOK
<1>9. \A d \in Duties, k \in Keys : \A day : Mode[d] = "adaptive" => ToStore(d, k, day)' = 0
  BY <1>1, NothingDueNext
<1> QED
  BY <1>1, <1>2, <1>3, <1>6, <1>7, <1>8, <1>9 DEF CallMovesOn, l, m

\* What a sequence holds once one more is at its end.
ItemsOf(q) == {q[n] : n \in DOMAIN q}

LEMMA Appended ==
  ASSUME NEW S, NEW q \in Seq(S), NEW c \in S
  PROVE  /\ Append(q, c) \in Seq(S) /\ Len(Append(q, c)) = Len(q) + 1
         /\ ItemsOf(Append(q, c)) = ItemsOf(q) \cup {c}
<1>1. /\ Append(q, c) \in Seq(S) /\ Len(Append(q, c)) = Len(q) + 1 /\ Len(q) \in Nat
      /\ DOMAIN Append(q, c) = 1 .. Len(q) + 1 /\ DOMAIN q = 1 .. Len(q)
      /\ Append(q, c)[Len(q) + 1] = c
      /\ \A n \in 1 .. Len(q) : Append(q, c)[n] = q[n]
  OBVIOUS
<1>2. ASSUME NEW n \in DOMAIN Append(q, c)
      PROVE  Append(q, c)[n] \in {q[k] : k \in DOMAIN q} \cup {c}
  <2>1. n \in 1 .. Len(q) \/ n = Len(q) + 1
    BY <1>1
  <2> QED
    BY <1>1, <2>1
<1>3. ASSUME NEW n \in DOMAIN q
      PROVE  q[n] \in {Append(q, c)[k] : k \in DOMAIN Append(q, c)}
  <2>1. n \in DOMAIN Append(q, c) /\ Append(q, c)[n] = q[n]
    BY <1>1
  <2> QED
    BY <2>1
<1>4. c \in {Append(q, c)[k] : k \in DOMAIN Append(q, c)}
  <2>1. Len(q) + 1 \in DOMAIN Append(q, c)
    BY <1>1
  <2> QED
    BY <1>1, <2>1
<1> QED
  BY <1>1, <1>2, <1>3, <1>4 DEF ItemsOf

\* What a fold writes: the row keeps all but its payload, which has the candidate at its end.
LEMMA FoldIs ==
  ASSUME BusInv, Fold, NEW i, i = Head(bus.found)
  PROVE  /\ i \in Ids /\ i \in Stored /\ rows[i].key = keyOf[Candidate]
         /\ rows' \in [Ids -> Row] /\ \A j \in Ids : j # i => rows'[j] = rows[j]
         /\ rows'[i].status = rows[i].status /\ rows'[i].key = rows[i].key
         /\ rows'[i].popAfter = rows[i].popAfter
         /\ rows'[i].payload = Append(rows[i].payload, Candidate)
         /\ Contents(i)' = Contents(i) \cup {Candidate}
         /\ Len(rows'[i].payload) = Len(rows[i].payload) + 1
         /\ \A j \in Ids : j # i => Contents(j)' = Contents(j)
<1> USE DEF BusInv
<1>1. /\ bus.phase = "folding"
      /\ rows' = [rows EXCEPT ![i].payload = Append(bus.base, Candidate)]
  BY DEF Fold, MergeBatch
<1>2. /\ rows \in [Ids -> Row] /\ bus.found \in Seq(Ids) /\ bus.found # <<>> /\ Candidate \in Items
      /\ bus.base = rows[i].payload
  BY <1>1, CandidateIs DEF TypeOK, FoundOK
<1>3. i \in Ids /\ i \in Stored /\ rows[i].key = keyOf[Candidate]
  <2>1. 1 \in DOMAIN bus.found /\ i = bus.found[1] /\ i \in Ids
    BY <1>2
  <2> QED
    BY <1>1, <2>1 DEF FoundOK
<1>4. rows[i].payload \in Seq(Items)
  BY <1>2, <1>3 DEF Row
<1>5. /\ Append(rows[i].payload, Candidate) \in Seq(Items)
      /\ Len(Append(rows[i].payload, Candidate)) = Len(rows[i].payload) + 1
      /\ ItemsOf(Append(rows[i].payload, Candidate)) = ItemsOf(rows[i].payload) \cup {Candidate}
  BY <1>2, <1>4, Appended
<1>6. /\ rows' \in [Ids -> Row] /\ \A j \in Ids : j # i => rows'[j] = rows[j]
      /\ rows'[i].status = rows[i].status /\ rows'[i].key = rows[i].key
      /\ rows'[i].popAfter = rows[i].popAfter
      /\ rows'[i].payload = Append(rows[i].payload, Candidate)
  BY <1>1, <1>2, <1>3, <1>5 DEF Row
<1>7. Contents(i)' = Contents(i) \cup {Candidate}
  <2>1. Contents(i) = ItemsOf(rows[i].payload) /\ Contents(i)' = ItemsOf(rows'[i].payload)
    BY DEF Contents, ItemsOf
  <2> QED
    BY <1>5, <1>6, <2>1
<1>8. \A j \in Ids : j # i => Contents(j)' = Contents(j)
  BY <1>6 DEF Contents
<1> QED
  BY <1>3, <1>5, <1>6, <1>7, <1>8

LEMMA FoldStep == ASSUME BusInv, Fold PROVE BusInv'
<1> USE DEF BusInv
<1>0. PICK i : i = Head(bus.found)
  OBVIOUS
<1>1. /\ bus.phase = "folding" /\ NextCandidate
      /\ raced' = IF rows[i].status = "pending" THEN raced ELSE raced \cup {Candidate}
      /\ UNCHANGED <<clock, credits, mind, sensed, faults, crashes, leased, heard, collided>>
  BY <1>0 DEF Fold, Raced
<1>2. /\ i \in Ids /\ i \in Stored /\ rows[i].key = keyOf[Candidate]
      /\ rows' \in [Ids -> Row] /\ \A j \in Ids : j # i => rows'[j] = rows[j]
      /\ rows'[i].status = rows[i].status /\ rows'[i].key = rows[i].key
      /\ rows'[i].popAfter = rows[i].popAfter
      /\ Contents(i)' = Contents(i) \cup {Candidate}
      /\ Len(rows'[i].payload) = Len(rows[i].payload) + 1
      /\ \A j \in Ids : j # i => Contents(j)' = Contents(j)
  BY <1>0, FoldIs
<1>3. /\ CallOK' /\ FoundOK' /\ NoneOpen' /\ keyOf' = keyOf /\ bus' \in BusType
      /\ 1 .. sensed - Len(bus.todo) \subseteq 1 .. sensed' - Len(bus'.todo)
      /\ Candidate \in 1 .. sensed' - Len(bus'.todo)
      /\ Candidate \notin 1 .. sensed - Len(bus.todo)
      /\ \A c \in 1 .. sensed' - Len(bus'.todo) :
           c \in 1 .. sensed - Len(bus.todo) \/ c = Candidate
      /\ bus.at <= (IF bus'.phase = "idle" THEN clock' ELSE bus'.at)
      /\ \A d \in Duties, k \in Keys : \A day : Mode[d] = "adaptive" => ToStore(d, k, day)' = 0
  BY <1>1, AfterCandidate
<1>4. Candidate \in 1 .. sensed
  BY <1>1, CandidateIs
<1>5. Stored' = Stored /\ Stored \subseteq Ids /\ Pending' = Pending
  <2>1. \A j \in Ids : rows'[j].status = rows[j].status
    BY <1>2
  <2> QED
    BY <2>1 DEF Stored, Pending
<1>6. \A j \in Ids : rows'[j].key = rows[j].key /\ rows'[j].status = rows[j].status
                     /\ rows'[j].popAfter = rows[j].popAfter
  BY <1>2
<1>7. TypeOK'
  <2>1. \A j \in Ids : Contents(j)' \subseteq 1 .. sensed
    BY <1>2, <1>4 DEF TypeOK
  <2> QED
    BY <1>1, <1>2, <1>3, <2>1 DEF TypeOK, BusType
<1>8. RowsOK'
  <2>1. \A j \in Stored : ReceivedAt(j) <= (IF bus'.phase = "idle" THEN clock' ELSE bus'.at)
    <3>1. \A j \in Stored : ReceivedAt(j) \in Nat /\ ReceivedAt(j) <= bus.at
      BY <1>1, <1>5 DEF Ids, Times, ReceivedAt, RowsOK
    <3>2. bus.at \in Nat /\ (IF bus'.phase = "idle" THEN clock' ELSE bus'.at) \in Nat
      BY <1>7, TimesAssumption DEF TypeOK, Times
    <3> QED
      BY <1>3, <3>1, <3>2
  <2>2. \A j \in Stored : Contents(j)' # {}
    BY <1>2, <1>5 DEF RowsOK
  <2>3. \A j \in Ids \ Stored : rows'[j].payload = <<>>
    BY <1>2 DEF RowsOK
  <2>4. \A j \in Ids : Contents(j)' \subseteq 1 .. sensed' - Len(bus'.todo)
    BY <1>2, <1>3 DEF RowsOK
  <2>5. \A j \in Ids, c \in Items : c \in Contents(j)' => keyOf[c] = rows[j].key
    <3> TAKE j \in Ids, c \in Items
    <3>1. CASE c \in Contents(j)
      BY <3>1 DEF RowsOK
    <3>2. CASE c \notin Contents(j)
      <4>1. c \in Contents(j)' => j = i /\ c = Candidate
        BY <1>2, <3>2
      <4> QED
        BY <1>2, <4>1
    <3> QED
      BY <3>1, <3>2
  <2> QED
    BY <1>3, <1>5, <1>6, <2>1, <2>2, <2>3, <2>4, <2>5 DEF RowsOK
<1>9. HistoryOK'
  BY <1>1, <1>3 DEF HistoryOK
<1>10. LeasedOK'
  BY <1>1, <1>5, <1>6 DEF LeasedOK
<1>11. FewerOpen
  BY <1>1, <1>5, <1>6 DEF FewerOpen, Pending
<1>12. CarriedOnce'
  <2>1. \A j \in Stored : Candidate \notin Contents(j)
    BY <1>3, <1>5 DEF RowsOK
  <2>2. \A j, k \in Stored : j # k => Contents(j)' \cap Contents(k)' = {}
    <3> SUFFICES ASSUME NEW j \in Stored, NEW k \in Stored, j # k
                 PROVE  Contents(j)' \cap Contents(k)' = {}
      OBVIOUS
    <3>1. Contents(j) \cap Contents(k) = {}
      BY DEF CarriedOnce
    <3>2. Contents(j)' = (IF j = i THEN Contents(j) \cup {Candidate} ELSE Contents(j))
          /\ Contents(k)' = (IF k = i THEN Contents(k) \cup {Candidate} ELSE Contents(k))
      BY <1>2, <1>5
    <3> QED
      BY <2>1, <3>1, <3>2
  <2>3. Len(rows'[i].payload) = Cardinality(Contents(i)')
    <3>1. IsFiniteSet(Contents(i))
      <4>1. IsFiniteSet(1 .. sensed)
        <5>1. sensed \in Nat
          BY TimesAssumption DEF TypeOK
        <5> QED
          BY <5>1, FS_Interval
      <4> QED
        BY <1>2, <4>1, FS_Subset DEF TypeOK
    <3>2. Cardinality(Contents(i) \cup {Candidate}) = Cardinality(Contents(i)) + 1
      BY <1>2, <2>1, <3>1, FS_AddElement
    <3>3. Len(rows[i].payload) = Cardinality(Contents(i))
      BY <1>2 DEF CarriedOnce
    <3> QED
      BY <1>2, <3>2, <3>3
  <2>4. \A j \in Stored : Len(rows'[j].payload) = Cardinality(Contents(j)')
    <3> TAKE j \in Stored
    <3>1. CASE j = i
      BY <2>3, <3>1 DEF Contents
    <3>2. CASE j # i
      BY <1>2, <1>5, <3>2 DEF CarriedOnce
    <3> QED
      BY <3>1, <3>2
  <2> QED
    BY <1>5, <2>2, <2>4 DEF CarriedOnce
<1>13. CreditsOK'
  <2>1. \A d, k, day : Bought(d, k, day)' = Bought(d, k, day)
    BY <1>5, <1>6 DEF Bought
  <2>2. Mishaps' = Mishaps /\ Mishaps \in Nat
    BY <1>1 DEF Mishaps, TypeOK
  <2>3. \A d, k, day : ToStore(d, k, day) = 0
    BY <1>1 DEF ToStore
  <2> QED
    BY <1>1, <1>3, <1>7, <2>1, <2>2, <2>3, CreditsStay
<1>14. AccountedFor'
  <2>1. NoAccident' => NoAccident /\ rows[i].status = "pending"
    BY <1>1 DEF NoAccident
  <2>2. mind.id \in Ids
    BY DEF TypeOK
  <2> SUFFICES ASSUME NoAccident, rows[i].status = "pending"
      PROVE /\ \A c \in 1 .. sensed' - Len(bus'.todo) : \E j \in Stored : c \in Contents(j)'
            /\ \A j \in Ids : rows[j].status = "dispatched" => mind.busy /\ mind.id = j
            /\ mind.busy => rows[mind.id].status = "dispatched" /\ mind.given = Contents(mind.id)
                            /\ mind.id # i
            /\ \A j \in Ids : rows[j].status = "settled" => Contents(j) \subseteq heard /\ j # i
            /\ \A j \in Ids : rows[j].status = "coalesced" => j # i /\
                 \A c \in Contents(j) : \E e \in c + 1 .. sensed : keyOf[e] = keyOf[c]
    <3>1. mind.id # i => Contents(mind.id)' = Contents(mind.id)
      BY <1>1, <1>2, <2>2 DEF Contents
    <3> QED
      BY <1>1, <1>2, <1>3, <1>5, <1>6, <2>1, <2>2, <3>1 DEF AccountedFor
  <2>3. \A c \in 1 .. sensed' - Len(bus'.todo) : \E j \in Stored : c \in Contents(j)'
    <3> TAKE c \in 1 .. sensed' - Len(bus'.todo)
    <3>1. CASE c = Candidate
      BY <1>2, <3>1
    <3>2. CASE c \in 1 .. sensed - Len(bus.todo)
      <4>1. PICK j \in Stored : c \in Contents(j)
        BY <3>2 DEF AccountedFor
      <4>2. c \in Contents(j)'
        BY <1>2, <1>5, <4>1
      <4> QED
        BY <4>2
    <3> QED
      BY <1>3, <3>1, <3>2
  <2> QED
    BY <2>3 DEF AccountedFor
<1> QED
  BY <1>3, <1>7, <1>8, <1>9, <1>10, <1>11, <1>12, <1>13, <1>14, OpenStays

\* An id that is taken: the candidate is dropped.
LEMMA CollideStep ==
  ASSUME BusInv, Enqueue, rows[NewId].status # "absent" PROVE BusInv'
<1> USE DEF BusInv
<1>1. /\ bus.phase = "storing" /\ NextCandidate /\ collided' = collided \cup {Candidate}
      /\ UNCHANGED <<clock, credits, mind, sensed, faults, crashes, leased, heard, raced, rows>>
  BY DEF Enqueue
<1>2. /\ CallOK' /\ FoundOK' /\ NoneOpen' /\ keyOf' = keyOf /\ bus' \in BusType
      /\ 1 .. sensed - Len(bus.todo) \subseteq 1 .. sensed' - Len(bus'.todo)
      /\ Candidate \in 1 .. sensed' - Len(bus'.todo)
      /\ Candidate \notin 1 .. sensed - Len(bus.todo)
      /\ bus.at <= (IF bus'.phase = "idle" THEN clock' ELSE bus'.at)
      /\ \A d \in Duties, k \in Keys : \A day : Mode[d] = "adaptive" => ToStore(d, k, day)' = 0
  BY <1>1, AfterCandidate
<1>3. /\ SameRows /\ CarriedOnce' /\ OneOpenRow' /\ LeasedOK'
      /\ Stored' = Stored /\ Pending' = Pending /\ Stored \subseteq Ids
      /\ \A i \in Ids : Contents(i)' = Contents(i)
  BY <1>1, RowsAsTheyWere
<1>4. TypeOK'
  BY <1>1, <1>2, <1>3 DEF TypeOK, BusType
<1>5. RowsOK'
  <2>1. \A i \in Stored : ReceivedAt(i) <= (IF bus'.phase = "idle" THEN clock' ELSE bus'.at)
    <3>1. \A i \in Stored : ReceivedAt(i) \in Nat /\ ReceivedAt(i) <= bus.at
      BY <1>1, <1>3 DEF Ids, Times, ReceivedAt, RowsOK
    <3>2. bus.at \in Nat /\ (IF bus'.phase = "idle" THEN clock' ELSE bus'.at) \in Nat
      BY <1>4, TimesAssumption DEF TypeOK, Times
    <3> QED
      BY <1>2, <3>1, <3>2
  <2> QED
    BY <1>1, <1>2, <1>3, <2>1 DEF RowsOK
<1>6. HistoryOK'
  BY <1>1, <1>2 DEF HistoryOK
<1>7. CreditsOK'
  <2>1. \A d, k, day : Bought(d, k, day)' = Bought(d, k, day)
    BY <1>3, SameRowsIs
  <2>2. Mishaps' = Mishaps
    BY <1>1 DEF Mishaps
  <2>3. Cardinality(collided') = Cardinality(collided) + 1
    <3>1. Candidate \notin collided
      BY <1>2 DEF HistoryOK
    <3> QED
      BY <1>1, <3>1, FewCollided, FS_AddElement
  <2> SUFFICES ASSUME NEW d \in Duties, NEW k \in Keys, NEW day \in Dates, Mode[d] = "adaptive"
               PROVE  /\ Cardinality(Bought(d, k, day)) + 0 <= credits[<<d, k, day>>]
                      /\ credits[<<d, k, day>>] <= Cardinality(Bought(d, k, day)) + 0
                                                 + Mishaps + (Cardinality(collided) + 1)
    BY <1>1, <1>2, <2>1, <2>2, <2>3 DEF CreditsOK
  <2>4. /\ Cardinality(Bought(d, k, day)) + ToStore(d, k, day) <= credits[<<d, k, day>>]
        /\ credits[<<d, k, day>>] <= Cardinality(Bought(d, k, day)) + ToStore(d, k, day)
                                   + Mishaps + Cardinality(collided)
    BY DEF CreditsOK
  <2> QED
    BY <2>4, CountsAre
<1>8. AccountedFor'
  BY <1>1 DEF AccountedFor, NoAccident
<1> QED
  BY <1>2, <1>3, <1>4, <1>5, <1>6, <1>7, <1>8

\* The row that a candidate gets, and no other, is written.
LEMMA StoreIs ==
  ASSUME BusInv, Enqueue, rows[NewId].status = "absent", NEW i, i = NewId, NEW x, x = Candidate
  PROVE  /\ i \in Ids /\ i \notin Stored /\ Duty(i) = bus.duty /\ ReceivedAt(i) = bus.at
         /\ x \in Items /\ rows' \in [Ids -> Row] /\ \A j \in Ids : j # i => rows'[j] = rows[j]
         /\ rows'[i].status = "pending" /\ rows'[i].key = keyOf[x] /\ Contents(i)' = {x}
         /\ Len(rows'[i].payload) = 1
         /\ \A j \in Ids : j # i => Contents(j)' = Contents(j)
         /\ Stored' = Stored \cup {i} /\ Stored \subseteq Ids /\ Pending' = Pending \cup {i}
<1> USE DEF BusInv
<1> DEFINE r == [status |-> "pending", key |-> keyOf[x], payload |-> <<x>>,
                 popAfter |-> PopAfter, attempts |-> 0]
<1>1. bus.phase = "storing" /\ rows' = [rows EXCEPT ![i] = r]
  BY DEF Enqueue
<1>2. /\ rows \in [Ids -> Row] /\ i \in Ids /\ x \in Items
      /\ Duty(i) = bus.duty /\ ReceivedAt(i) = bus.at
  BY <1>1, CandidateIs DEF TypeOK
<1>3. PopAfter \in Nat
  BY TimesAssumption, PopAfterType DEF TypeOK, Times
<1>4. keyOf[x] \in AnyKey
  BY <1>2 DEF HistoryOK
<1>5. <<x>> \in Seq(Items) /\ Len(<<x>>) = 1 /\ DOMAIN <<x>> = {1} /\ <<x>>[1] = x
  BY <1>2
<1>6. r \in Row /\ r.status = "pending" /\ r.key = keyOf[x] /\ r.payload = <<x>>
  BY <1>3, <1>4, <1>5, TimesAssumption DEF Row, RowStatus
<1> HIDE DEF r
<1>7. rows' \in [Ids -> Row] /\ rows'[i] = r /\ \A j \in Ids : j # i => rows'[j] = rows[j]
  BY <1>1, <1>2, <1>6
<1>8. Contents(i)' = {x}
  BY <1>5, <1>6, <1>7 DEF Contents
<1>9. \A j \in Ids : j # i => Contents(j)' = Contents(j)
  BY <1>7 DEF Contents
<1>10. Stored' = Stored \cup {i} /\ Pending' = Pending \cup {i} /\ Stored \subseteq Ids /\ i \notin Stored
  BY <1>2, <1>6, <1>7 DEF Stored, Pending
<1> QED
  BY <1>2, <1>5, <1>6, <1>7, <1>8, <1>9, <1>10

LEMMA StoreStep ==
  ASSUME BusInv, Enqueue, rows[NewId].status = "absent" PROVE BusInv'
<1> USE DEF BusInv
<1>0. PICK i, x : i = NewId /\ x = Candidate
  OBVIOUS
<1>1. /\ bus.phase = "storing" /\ NextCandidate
      /\ UNCHANGED <<clock, credits, mind, sensed, faults, crashes, leased, heard, collided, raced>>
  BY DEF Enqueue
<1>2. /\ i \in Ids /\ i \notin Stored /\ Duty(i) = bus.duty /\ ReceivedAt(i) = bus.at
      /\ x \in Items /\ rows' \in [Ids -> Row] /\ \A j \in Ids : j # i => rows'[j] = rows[j]
      /\ rows'[i].status = "pending" /\ rows'[i].key = keyOf[x] /\ Contents(i)' = {x}
      /\ Len(rows'[i].payload) = 1
      /\ \A j \in Ids : j # i => Contents(j)' = Contents(j)
      /\ Stored' = Stored \cup {i} /\ Stored \subseteq Ids /\ Pending' = Pending \cup {i}
  BY <1>0, StoreIs
<1>3. /\ CallOK' /\ FoundOK' /\ NoneOpen' /\ keyOf' = keyOf /\ bus' \in BusType
      /\ 1 .. sensed - Len(bus.todo) \subseteq 1 .. sensed' - Len(bus'.todo)
      /\ x \in 1 .. sensed' - Len(bus'.todo) /\ x \notin 1 .. sensed - Len(bus.todo)
      /\ \A c \in 1 .. sensed' - Len(bus'.todo) : c \in 1 .. sensed - Len(bus.todo) \/ c = x
      /\ bus.at <= (IF bus'.phase = "idle" THEN clock' ELSE bus'.at)
      /\ \A d \in Duties, k \in Keys : \A day : Mode[d] = "adaptive" => ToStore(d, k, day)' = 0
  BY <1>0, <1>1, AfterCandidate
<1>4. x \in 1 .. sensed
  BY <1>0, <1>1, CandidateIs
<1>5. TypeOK'
  <2>1. \A j \in Ids : Contents(j)' \subseteq 1 .. sensed
    BY <1>2, <1>4 DEF TypeOK
  <2> QED
    BY <1>1, <1>2, <1>3, <2>1 DEF TypeOK, BusType
<1>6. \A j \in Stored : ReceivedAt(j) \in Nat /\ ReceivedAt(j) <= bus.at
  BY <1>1, <1>2 DEF Ids, Times, ReceivedAt, RowsOK
<1>7. RowsOK'
  <2>1. \A j \in Stored' : ReceivedAt(j) <= (IF bus'.phase = "idle" THEN clock' ELSE bus'.at)
    <3>2. bus.at \in Nat /\ (IF bus'.phase = "idle" THEN clock' ELSE bus'.at) \in Nat
      BY <1>5, TimesAssumption DEF TypeOK, Times
    <3> QED
      BY <1>2, <1>3, <1>6, <3>2
  <2>2. \A j \in Stored' : Contents(j)' # {}
    BY <1>2 DEF RowsOK
  <2>3. \A j \in Ids \ Stored' : rows'[j].payload = <<>>
    BY <1>2 DEF RowsOK
  <2>4. \A j \in Ids : Contents(j)' \subseteq 1 .. sensed' - Len(bus'.todo)
    <3> TAKE j \in Ids
    <3>1. CASE j = i
      BY <1>2, <1>3, <3>1 DEF Contents
    <3>2. CASE j # i
      BY <1>2, <1>3, <3>2 DEF RowsOK
    <3> QED
      BY <3>1, <3>2
  <2>5. \A j \in Ids, c \in Items : c \in Contents(j)' => keyOf[c] = rows'[j].key
    <3> TAKE j \in Ids, c \in Items
    <3>1. CASE j = i
      <4>1. c \in Contents(i)' => c = x
        BY <1>2
      <4> QED
        BY <1>2, <3>1, <4>1 DEF Contents
    <3>2. CASE j # i
      BY <1>2, <3>2 DEF RowsOK
    <3> QED
      BY <3>1, <3>2
  <2> QED
    BY <1>3, <2>1, <2>2, <2>3, <2>4, <2>5 DEF RowsOK
<1>8. HistoryOK'
  BY <1>1, <1>3 DEF HistoryOK
<1>9. LeasedOK'
  BY <1>1, <1>2 DEF LeasedOK
<1>10. CarriedOnce'
  <2>1. \A j \in Stored : x \notin Contents(j)
    BY <1>2, <1>3 DEF RowsOK
  <2>2. \A j, k \in Stored' : j # k => Contents(j)' \cap Contents(k)' = {}
    <3> SUFFICES ASSUME NEW j \in Stored', NEW k \in Stored', j # k
                 PROVE  Contents(j)' \cap Contents(k)' = {}
      OBVIOUS
    <3>1. CASE j = i
      <4>1. k \in Stored /\ Contents(k)' = Contents(k) /\ Contents(j)' = {x}
        BY <1>2, <3>1 DEF Contents
      <4> QED
        BY <2>1, <4>1
    <3>2. CASE k = i
      <4>1. j \in Stored /\ Contents(j)' = Contents(j) /\ Contents(k)' = {x}
        BY <1>2, <3>2 DEF Contents
      <4> QED
        BY <2>1, <4>1
    <3>3. CASE j # i /\ k # i
      <4>1. j \in Stored /\ k \in Stored /\ Contents(j)' = Contents(j) /\ Contents(k)' = Contents(k)
        BY <1>2, <3>3
      <4> QED
        BY <4>1 DEF CarriedOnce
    <3> QED
      BY <3>1, <3>2, <3>3
  <2>3. \A j \in Stored' : Len(rows'[j].payload) = Cardinality(Contents(j)')
    <3> TAKE j \in Stored'
    <3>1. CASE j = i
      <4>1. Cardinality({x}) = 1
        BY FS_Singleton
      <4>2. Contents(j)' = {x}
        BY <1>2, <3>1 DEF Contents
      <4> QED
        BY <1>2, <3>1, <4>1, <4>2
    <3>2. CASE j # i
      BY <1>2, <3>2 DEF CarriedOnce
    <3> QED
      BY <3>1, <3>2
  <2> QED
    BY <2>2, <2>3 DEF CarriedOnce
<1>11. OneOpenRow'
  <2>1. \A j \in Ids : j # i => rows'[j] = rows[j]
    BY <1>2
  <2>2. \A j \in Pending \ leased : j \in Ids /\ j \in Stored /\ j # i
    BY <1>2 DEF Pending, Stored
  <2>3. ASSUME NEW j \in Pending \ leased, Duty(j) = bus.duty, rows[j].key = keyOf[x], keyOf[x] # NoKey,
               Mode[bus.duty] # "none"
        PROVE  IF Mode[bus.duty] = "adaptive" THEN rows[j].popAfter <= bus.at /\ ReceivedAt(j) <= bus.at
               ELSE bus.at - ReceivedAt(j) > Window
    <3>1. Coalesces
      BY <1>0, <2>3 DEF Coalesces
    <3>2. j \notin Joinable /\ j \in Coalescable
      BY <1>0, <1>1, <2>3, <3>1 DEF NoneOpen, Coalescable
    <3>3. rows[j].popAfter \in Nat /\ bus.at \in Nat /\ ReceivedAt(j) \in Nat /\ Window \in Nat
          /\ ReceivedAt(j) <= bus.at
      <4>1. rows[j] \in Row
        BY <2>2, <2>3 DEF TypeOK
      <4> QED
        BY <1>6, <2>2, <2>3, <4>1, TimesAssumption DEF Row, TypeOK, Times
    <3>4. CASE Mode[bus.duty] = "adaptive"
      BY <3>2, <3>3, <3>4 DEF Joinable
    <3>5. CASE Mode[bus.duty] # "adaptive"
      BY <3>2, <3>3, <3>5 DEF Joinable, WithinWindow
    <3> QED
      BY <3>4, <3>5
  <2> SUFFICES ASSUME NEW j \in Pending' \ leased', NEW k \in Pending' \ leased',
                      j # k, Duty(j) = Duty(k), rows'[j].key = rows'[k].key, rows'[j].key # NoKey
               PROVE  CASE Mode[Duty(j)] = "none" -> TRUE
                        [] Mode[Duty(j)] = "adaptive" -> Closed(j, k)' \/ Closed(k, j)'
                        [] OTHER -> Apart(j, k) \/ Apart(k, j)
    BY DEF OneOpenRow, Apart, Closed
  <2>4. CASE k = i
    <3>1. j \in Pending \ leased /\ rows'[j] = rows[j] /\ Duty(j) = bus.duty /\ rows[j].key = keyOf[x]
          /\ keyOf[x] # NoKey
      BY <1>1, <1>2, <2>1, <2>2, <2>4
    <3> QED
      BY <1>2, <2>3, <2>4, <3>1 DEF Closed, Apart
  <2>5. CASE j = i
    <3>1. k \in Pending \ leased /\ rows'[k] = rows[k] /\ Duty(k) = bus.duty /\ rows[k].key = keyOf[x]
          /\ keyOf[x] # NoKey
      BY <1>1, <1>2, <2>1, <2>2, <2>5
    <3> QED
      BY <1>2, <2>3, <2>5, <3>1 DEF Closed, Apart
  <2>6. CASE j # i /\ k # i
    <3>1. j \in Pending \ leased /\ k \in Pending \ leased /\ rows'[j] = rows[j] /\ rows'[k] = rows[k]
      BY <1>1, <1>2, <2>1, <2>2, <2>6
    <3> QED
      BY <3>1 DEF OneOpenRow, Closed, Apart
  <2> QED
    BY <2>4, <2>5, <2>6
<1>13. CreditsOK'
  <2>1. Mishaps' = Mishaps
    BY <1>1 DEF Mishaps
  <2> SUFFICES ASSUME NEW d \in Duties, NEW k \in Keys, NEW day \in Dates, Mode[d] = "adaptive"
               PROVE  /\ Cardinality(Bought(d, k, day)') + 0 <= credits[<<d, k, day>>]
                      /\ credits[<<d, k, day>>] <= Cardinality(Bought(d, k, day)') + 0
                                                 + Mishaps + Cardinality(collided)
    BY <1>1, <1>3, <2>1 DEF CreditsOK
  <2>2. /\ Cardinality(Bought(d, k, day)) + ToStore(d, k, day) <= credits[<<d, k, day>>]
        /\ credits[<<d, k, day>>] <= Cardinality(Bought(d, k, day)) + ToStore(d, k, day)
                                   + Mishaps + Cardinality(collided)
    BY DEF CreditsOK
  <2>3. Cardinality(Bought(d, k, day)') = Cardinality(Bought(d, k, day)) + ToStore(d, k, day)
    <3>1. IsFiniteSet(Bought(d, k, day)) /\ i \notin Bought(d, k, day)
          /\ Cardinality(Bought(d, k, day)) \in Nat
      <4>1. Bought(d, k, day) \in SUBSET Ids /\ \A j \in Bought(d, k, day) : Duty(j) = d
        BY DEF Bought, Stored
      <4>2. i \notin Bought(d, k, day)
        BY <1>2 DEF Bought
      <4> QED
        BY <4>1, <4>2, FewRows
    <3>2. \A j \in Stored : j # i /\ rows'[j] = rows[j]
      BY <1>2
    <3>3. CASE <<d, k, day>> = Account
      <4>1. Bought(d, k, day)' = Bought(d, k, day) \cup {i} /\ ToStore(d, k, day) = 1
        BY <1>0, <1>1, <1>2, <3>2, <3>3 DEF Account, Bought, ToStore
      <4> QED
        BY <3>1, <4>1, FS_AddElement
    <3>4. CASE <<d, k, day>> # Account
      <4>1. Bought(d, k, day)' = Bought(d, k, day) /\ ToStore(d, k, day) = 0
        BY <1>0, <1>1, <1>2, <3>2, <3>4 DEF Account, Bought, ToStore
      <4> QED
        BY <3>1, <4>1
    <3> QED
      BY <3>3, <3>4
  <2>4. /\ Cardinality(Bought(d, k, day)) \in Nat /\ ToStore(d, k, day) \in {0, 1}
        /\ credits[<<d, k, day>>] \in Nat /\ Mishaps \in Nat /\ Cardinality(collided) \in Nat
    BY CountsAre
  <2> QED
    BY <2>2, <2>3, <2>4
<1>14. AccountedFor'
  <2>1. NoAccident' <=> NoAccident
    BY <1>1 DEF NoAccident
  <2>2. mind.id \in Ids
    BY DEF TypeOK
  <2> SUFFICES ASSUME NoAccident
      PROVE /\ \A c \in 1 .. sensed' - Len(bus'.todo) : \E j \in Stored' : c \in Contents(j)'
            /\ \A j \in Ids : rows'[j].status = "dispatched" => mind.busy /\ mind.id = j
            /\ mind.busy => rows'[mind.id].status = "dispatched" /\ mind.given = Contents(mind.id)
                            /\ mind.id # i
            /\ \A j \in Ids : rows'[j].status = "settled" => Contents(j) \subseteq heard /\ j # i
            /\ \A j \in Ids : rows'[j].status = "coalesced" => j # i /\
                 \A c \in Contents(j) : \E e \in c + 1 .. sensed : keyOf[e] = keyOf[c]
    <3>1. mind.id # i => Contents(mind.id)' = Contents(mind.id)
      BY <1>1, <1>2, <2>2 DEF Contents
    <3> QED
      BY <1>1, <1>2, <1>3, <2>1, <2>2, <3>1 DEF AccountedFor
  <2>3. \A c \in 1 .. sensed' - Len(bus'.todo) : \E j \in Stored' : c \in Contents(j)'
    <3> TAKE c \in 1 .. sensed' - Len(bus'.todo)
    <3>1. CASE c = x
      BY <1>2, <3>1
    <3>2. CASE c \in 1 .. sensed - Len(bus.todo)
      <4>1. PICK j \in Stored : c \in Contents(j)
        BY <3>2 DEF AccountedFor
      <4>2. c \in Contents(j)' /\ j \in Stored'
        BY <1>2, <4>1
      <4> QED
        BY <4>2
    <3> QED
      BY <1>3, <3>1, <3>2
  <2>4. mind.busy => mind.id # i
    BY <1>2 DEF LeasedOK
  <2>5. \A j \in Ids : j # i => rows'[j] = rows[j]
    BY <1>2
  <2> QED
    BY <1>2, <2>2, <2>3, <2>4, <2>5 DEF AccountedFor
<1> QED
  BY <1>3, <1>5, <1>7, <1>8, <1>9, <1>10, <1>11, <1>13, <1>14

-----------------------------------------------------------------------------
(* The theorems.                                                            *)

LEMMA NextInv == BusInv /\ [Next]_vars => BusInv'
<1> SUFFICES ASSUME BusInv, [Next]_vars PROVE BusInv'
  OBVIOUS
<1>1. ASSUME NEW d \in Duties, Fire(d) PROVE BusInv'
  BY <1>1, FireStep
<1>2. CASE Find
  BY <1>2, FindStep
<1>3. CASE Supersede
  BY <1>3, SupersedeStep
<1>4. CASE Fold
  BY <1>4, FoldStep
<1>5. CASE Spend
  BY <1>5, SpendStep
<1>6. CASE Enqueue
  BY <1>6, CollideStep, StoreStep
<1>7. CASE IngestFails
  BY <1>7, IngestFailsStep
<1>8. CASE Settle
  BY <1>8, SettleStep
<1>9. CASE Retry
  BY <1>9, RetryStep
<1>10. ASSUME NEW i \in Ids, Pop(i) PROVE BusInv'
  BY <1>10, PopStep
<1>11. CASE Crash
  BY <1>11, CrashStep
<1>12. CASE Tick \/ UNCHANGED vars
  BY <1>12, TickStep
<1> QED
  BY <1>1, <1>2, <1>3, <1>4, <1>5, <1>6, <1>7, <1>8, <1>9, <1>10, <1>11, <1>12 DEF Next, Ingest, Loop

LEMMA InvHolds == Spec => []BusInv
BY InitInv, NextInv, PTL DEF Spec

\* TypeOK: the queue's rows, the call and the wake keep their types; no payload holds
\* anything but sensed candidates, no row is re-scheduled past MAX_TIMEOUT_RETRIES.
THEOREM TypeCorrect == Spec => []TypeOK
<1>1. BusInv => TypeOK
  BY DEF BusInv
<1> QED
  BY <1>1, InvHolds, PTL

\* CarriedOnce: a candidate is carried by one row and stands in it once, whatever the
\* loop, a failure or a crash does between find_coalescable and the write.
THEOREM StandsOnce == Spec => []CarriedOnce
<1>1. BusInv => CarriedOnce
  BY DEF BusInv
<1> QED
  BY <1>1, InvHolds, PTL

\* OneOpenRow: coalescing leaves one open row for each duty and key.
THEOREM OneIsOpen == Spec => []OneOpenRow
<1>1. BusInv => OneOpenRow
  BY DEF BusInv
<1> QED
  BY <1>1, InvHolds, PTL

\* CreditsCountWakes: the credits cursor of a day counts the rows a key got that day.
THEOREM CreditsDoCount == Spec => []CreditsCountWakes
<1>1. BusInv => CreditsCountWakes
  <2> SUFFICES ASSUME BusInv, NEW d \in Duties, NEW k \in Keys, NEW day \in Dates,
                      Mode[d] = "adaptive"
               PROVE  /\ Cardinality(Bought(d, k, day)) <= credits[<<d, k, day>>]
                      /\ credits[<<d, k, day>>] <= Cardinality(Bought(d, k, day)) + faults + crashes
                                                 + Cardinality(collided) + Unstored
    BY DEF CreditsCountWakes, Bought
  <2>1. /\ Cardinality(Bought(d, k, day)) + ToStore(d, k, day) <= credits[<<d, k, day>>]
        /\ credits[<<d, k, day>>] <= Cardinality(Bought(d, k, day)) + ToStore(d, k, day)
                                   + Mishaps + Cardinality(collided)
    BY DEF BusInv, CreditsOK
  <2>2. /\ Cardinality(Bought(d, k, day)) \in Nat /\ ToStore(d, k, day) \in {0, 1}
        /\ credits[<<d, k, day>>] \in Nat /\ Cardinality(collided) \in Nat
    BY CountsAre
  <2>3. ToStore(d, k, day) <= Unstored /\ Unstored \in {0, 1}
    BY DEF ToStore, Unstored
  <2>4. faults \in Nat /\ crashes \in Nat /\ Mishaps = faults + crashes
    BY DEF BusInv, TypeOK, Mishaps
  <2> QED
    BY <2>1, <2>2, <2>3, <2>4
<1> QED
  BY <1>1, InvHolds, PTL

LEMMA AmongTheLast ==
  ASSUME NEW n \in Nat, NEW m \in Nat, NEW c \in 1 .. n, c \notin 1 .. n - m
  PROVE  c - (n - m) \in 1 .. m /\ n - m + (c - (n - m)) = c
OBVIOUS

\* LostOnlyByAccident: a candidate that was dealt with waits, is with the mind, was heard
\* or was superseded by a later one, unless its id was taken, its row was no longer pending
\* when the bus wrote it, a statement failed or the daemon crashed.
THEOREM LostByAccident == Spec => []LostOnlyByAccident
<1>1. BusInv => LostOnlyByAccident
  <2> SUFFICES ASSUME BusInv, NoAccident, NEW c \in (1 .. sensed) \ Left PROVE Kept(c)
    BY DEF LostOnlyByAccident, NoAccident
  <2> USE DEF BusInv
  <2>1. sensed \in Nat /\ bus.todo \in Seq(Items) /\ Len(bus.todo) \in Nat
        /\ DOMAIN bus.todo = 1 .. Len(bus.todo)
    BY TimesAssumption DEF TypeOK
  <2>2. c \in 1 .. sensed - Len(bus.todo)
    <3> SUFFICES ASSUME c \notin 1 .. sensed - Len(bus.todo) PROVE FALSE
      OBVIOUS
    <3> DEFINE n == c - (sensed - Len(bus.todo))
    <3>1. n \in 1 .. Len(bus.todo) /\ sensed - Len(bus.todo) + n = c
      BY <2>1, AmongTheLast
    <3>2. n \in DOMAIN bus.todo
      BY <2>1, <3>1
    <3> HIDE DEF n
    <3>3. bus.todo[n] = c
      BY <3>1, <3>2 DEF CallOK
    <3> QED
      BY <3>2, <3>3 DEF Left
  <2>3. PICK i \in Stored : c \in Contents(i)
    BY <2>2 DEF AccountedFor
  <2>4. i \in Ids /\ rows[i].status \in {"pending", "coalesced", "dispatched", "settled"}
    BY <2>3 DEF TypeOK, Stored, Row, RowStatus
  <2>5. CASE rows[i].status = "pending"
    BY <2>3, <2>5 DEF Kept
  <2>6. CASE rows[i].status = "coalesced"
    BY <2>3, <2>4, <2>6 DEF Kept, AccountedFor
  <2>7. CASE rows[i].status = "dispatched"
    BY <2>3, <2>4, <2>7 DEF Kept, AccountedFor
  <2>8. CASE rows[i].status = "settled"
    BY <2>3, <2>4, <2>8 DEF Kept, AccountedFor
  <2> QED
    BY <2>4, <2>5, <2>6, <2>7, <2>8
<1> QED
  BY <1>1, InvHolds, PTL

\* What is said of a payload's growth, for one row.
Grows(old, new) == Len(new) >= Len(old) /\ SubSeq(new, 1, Len(old)) = old

LEMMA SameGrows == ASSUME NEW S, NEW q \in Seq(S) PROVE Grows(q, q)
<1>1. Len(q) \in Nat /\ DOMAIN q = 1 .. Len(q) /\ q \in [1 .. Len(q) -> S]
  OBVIOUS
<1>2. SubSeq(q, 1, Len(q)) = q
  BY <1>1
<1> QED
  BY <1>1, <1>2 DEF Grows

LEMMA AppendGrows == ASSUME NEW S, NEW q \in Seq(S), NEW c \in S PROVE Grows(q, Append(q, c))
<1>1. Len(q) \in Nat /\ Len(Append(q, c)) = Len(q) + 1
  OBVIOUS
<1>2. SubSeq(Append(q, c), 1, Len(q)) = q
  OBVIOUS
<1> QED
  BY <1>1, <1>2 DEF Grows

\* PayloadsOnlyGrow: whatever the loop does between the fold's read and its write, no
\* candidate already in a row is dropped from it or moved.
THEOREM FoldsOnlyAppend == Spec => PayloadsOnlyGrow
<1>1. BusInv /\ [Next]_vars => [\A i \in Ids : Grows(rows[i].payload, rows'[i].payload)]_vars
  <2> SUFFICES ASSUME BusInv, Next, NEW i \in Ids PROVE Grows(rows[i].payload, rows'[i].payload)
    OBVIOUS
  <2>1. rows \in [Ids -> Row] /\ rows[i].payload \in Seq(Items)
    BY DEF BusInv, TypeOK, Row
  <2>2. rows'[i].payload = rows[i].payload => Grows(rows[i].payload, rows'[i].payload)
    BY <2>1, SameGrows
  <2>3. CASE Fold
    <3>1. PICK r : r = Head(bus.found)
      OBVIOUS
    <3>2. rows'[r].payload = Append(rows[r].payload, Candidate) /\ (i # r => rows'[i] = rows[i])
      BY <2>3, <3>1, FoldIs
    <3>3. Candidate \in Items
      BY <2>3, CandidateIs DEF BusInv, Fold
    <3> QED
      BY <2>1, <2>2, <3>2, <3>3, AppendGrows
  <2>4. CASE Enqueue
    <3>1. CASE rows[NewId].status = "absent" /\ i = NewId
      <4>1. rows[i].payload = <<>>
        BY <3>1 DEF BusInv, RowsOK, Stored
      <4>2. rows'[i].payload = <<Candidate>> /\ Candidate \in Items
        BY <2>1, <2>4, <3>1, CandidateIs DEF BusInv, Enqueue
      <4>3. Append(<<>>, Candidate) = <<Candidate>> /\ <<>> \in Seq(Items)
        BY EmptySeq, <4>2
      <4> QED
        BY <4>1, <4>2, <4>3, AppendGrows
    <3>2. CASE ~(rows[NewId].status = "absent" /\ i = NewId)
      BY <2>1, <2>2, <2>4, <3>2 DEF Enqueue
    <3> QED
      BY <3>1, <3>2
  <2>5. ASSUME ~Fold, ~Enqueue PROVE rows'[i].payload = rows[i].payload
    <3>1. CASE \E j \in Ids : Pop(j)
      BY <2>1, <3>1 DEF Pop, Row
    <3>2. CASE Settle \/ Retry
      <4>1. SameRows
        <5>1. PICK r : r = mind.id
          OBVIOUS
        <5>2. r \in Ids /\ rows[r] \in Row /\ rows[r].status # "absent"
          BY <2>1, <3>2, <5>1 DEF BusInv, LeasedOK, Settle, Retry, Stored, TypeOK
        <5>3. /\ \A j \in Ids : j # r => rows'[j] = rows[j]
              /\ rows'[r].payload = rows[r].payload /\ rows'[r].key = rows[r].key
              /\ rows'[r].status \in {"settled", "pending"}
          <6>1. CASE Settle
            <7>1. rows' = [rows EXCEPT ![r].status = "settled"]
              BY <5>1, <6>1 DEF Settle
            <7> QED
              BY <2>1, <5>2, <7>1 DEF Row
          <6>2. CASE Retry
            <7>1. rows' = [rows EXCEPT ![r].status = "pending", ![r].attempts = @ + 1,
                                       ![r].popAfter = clock + RetryDelay]
              BY <5>1, <6>2 DEF Retry
            <7> QED
              BY <2>1, <5>2, <7>1 DEF Row
          <6> QED
            BY <3>2, <6>1, <6>2
        <5> QED
          BY <5>2, <5>3 DEF SameRows
      <4> QED
        BY <4>1 DEF SameRows
    <3>3. CASE Supersede
      BY <2>1, <3>3 DEF Supersede, Row
    <3>5. CASE Crash
      <4>1. rows'[i] = IF rows[i].status = "dispatched"
                       THEN [rows[i] EXCEPT !.status = "pending"] ELSE rows[i]
        BY <3>5 DEF Crash
      <4> QED
        BY <2>1, <4>1 DEF Row
    <3>4. CASE (\E d \in Duties : Fire(d)) \/ Find \/ Spend \/ IngestFails \/ Tick
      BY <3>4 DEF Fire, Find, Spend, IngestFails, Tick
    <3> QED
      BY <2>5, <3>1, <3>2, <3>3, <3>4, <3>5 DEF Next, Ingest, Loop
  <2> QED
    BY <2>2, <2>3, <2>4, <2>5
<1>2. [\A i \in Ids : Grows(rows[i].payload, rows'[i].payload)]_vars
        <=> [\A i \in Ids :
               LET old == rows[i].payload
                   new == rows'[i].payload
               IN Len(new) >= Len(old) /\ SubSeq(new, 1, Len(old)) = old]_vars
  BY DEF Grows
<1> QED
  BY <1>1, <1>2, InvHolds, PTL DEF Spec, PayloadsOnlyGrow
=============================================================================
