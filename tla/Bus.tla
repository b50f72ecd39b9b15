--------------------------------- MODULE Bus ---------------------------------
(***************************************************************************)
(* The stimulus bus: Bus::ingest turns the candidates of one duty firing     *)
(* into rows, coalescing them by the duty's policy, while the consciousness  *)
(* loop leases, settles and re-schedules the same rows.                      *)
(*                                                                          *)
(* Ingestion is one consumer, so firings do not overlap, but every queue     *)
(* call is its own await: the loop, the clock, a failure or a crash can come *)
(* between any two of them. Trust tiers are in module Cycle, the order and   *)
(* the shedding of rows in ConsciousnessLoop.                                *)
(***************************************************************************)
EXTENDS Integers, Sequences, FiniteSets

CONSTANTS
  Duties,        \* duty-stimuli; a duty's candidates have the duty's type
  Keys,          \* dedup keys: a chat, a mailbox
  NoKey,         \* a candidate without a dedup_key
  Mode,          \* coalesce of each duty: none, latest, batch, adaptive
  Window,        \* window_sec
  InitialWindow, DailyCredits, MaxWindow, \* AdaptiveCoalesce
  Day,           \* seconds of a day
  Opening, Closing, \* dispatch_window of each duty, in seconds since midnight
  RetryDelay,    \* backoff of a re-scheduled row
  MaxTime,       \* bound: the last second
  MaxItems,      \* bound: candidates sensed
  MaxBatch,      \* bound: candidates of one firing
  MaxRetries,    \* MAX_TIMEOUT_RETRIES
  MaxAccidents   \* bound: crashes and failed queue statements of the bus

Modes == {"none", "latest", "batch", "adaptive"}

ASSUME DutiesAssumption ==
  /\ Duties # {} /\ Mode \in [Duties -> Modes]
  /\ NoKey \notin Keys

ASSUME TimesAssumption ==
  /\ Window \in Nat /\ RetryDelay \in Nat
  /\ InitialWindow \in Nat /\ DailyCredits \in Nat /\ MaxWindow \in Nat
  /\ Day \in Nat \ {0}
  /\ Opening \in [Duties -> 0 .. Day - 1] /\ Closing \in [Duties -> 0 .. Day - 1]
  /\ MaxTime \in Nat /\ MaxItems \in Nat /\ MaxBatch \in Nat \ {0}
  /\ MaxRetries \in Nat /\ MaxAccidents \in Nat

VARIABLES
  clock,    \* seconds
  rows,     \* the queue
  credits,  \* the credits cursor of each duty, key and date
  bus,      \* the ingest call in progress
  mind,     \* the wake in progress: the row and the payload it was given
  sensed,   \* candidates sensed so far; a candidate is named by its number
  faults, crashes, \* what the environment has done
  keyOf,    \* history: the dedup key of each candidate sensed
  leased,   \* history: ids that were ever popped
  heard,    \* history: candidates a settled wake was given
  collided, \* history: candidates whose row was ignored, its id being taken
  raced     \* history: candidates written to a row that was no longer pending

history == <<keyOf, leased, heard, collided, raced>>
vars == <<clock, rows, credits, bus, mind, sensed, faults, crashes,
          keyOf, leased, heard, collided, raced>>

Times == 0 .. MaxTime
DateOf(t) == t \div Day
Dates == {DateOf(t) : t \in Times}
Items == 1 .. MaxItems
Ids == Duties \X Times \X (1 .. MaxBatch)   \* format!("{duty}-{received_at}-{i}")
Duty(i) == i[1]
ReceivedAt(i) == i[2]
AnyKey == Keys \cup {NoKey}
RowStatus == {"absent", "pending", "coalesced", "dispatched", "settled"}

\* `payload` is the row's items, oldest first; pop_after 0 is NULL.
Row == [status : RowStatus, key : AnyKey, payload : Seq(Items),
        popAfter : Nat, attempts : 0 .. MaxRetries]
NoRow == [status |-> "absent", key |-> NoKey, payload |-> <<>>,
          popAfter |-> 0, attempts |-> 0]

\* One ingest call: the firing's duty and received_at, the candidates left, the
\* index of the first of them, and the rows found to coalesce it with.
Phases == {"idle", "finding", "superseding", "folding", "spending", "storing"}
Idle == [phase |-> "idle", duty |-> CHOOSE d \in Duties : TRUE, at |-> 0,
         todo |-> <<>>, index |-> 1, found |-> <<>>, base |-> <<>>, window |-> 0]
Awake == [id |-> CHOOSE i \in Ids : TRUE, busy |-> FALSE, given |-> {}]

Contents(i) == {rows[i].payload[n] : n \in DOMAIN rows[i].payload}
Pending == {i \in Ids : rows[i].status = "pending"}
Stored == {i \in Ids : rows[i].status # "absent"}
Candidate == Head(bus.todo)
Left == {bus.todo[n] : n \in DOMAIN bus.todo}
NewId == <<bus.duty, bus.at, bus.index>>

\* Every variable keeps its type: no payload holds anything but sensed candidates,
\* no row is re-scheduled past the cap.
TypeOK ==
  /\ clock \in Times
  /\ rows \in [Ids -> Row]
  /\ \A i \in Ids : Contents(i) \subseteq 1 .. sensed
  /\ credits \in [Duties \X Keys \X Dates -> Nat]
  /\ bus \in [phase : Phases, duty : Duties, at : Times, todo : Seq(Items),
              index : 1 .. MaxBatch, found : Seq(Ids), base : Seq(Items), window : Nat]
  /\ mind \in [id : Ids, busy : BOOLEAN, given : SUBSET Items]
  /\ sensed \in 0 .. MaxItems
  /\ faults \in Nat /\ crashes \in Nat /\ faults + crashes <= MaxAccidents

Init ==
  /\ clock = 0
  /\ rows = [i \in Ids |-> NoRow]
  /\ credits = [c \in Duties \X Keys \X Dates |-> 0]
  /\ bus = Idle
  /\ mind = Awake
  /\ sensed = 0 /\ faults = 0 /\ crashes = 0
  /\ keyOf = [n \in Items |-> NoKey]
  /\ leased = {} /\ heard = {} /\ collided = {} /\ raced = {}

-----------------------------------------------------------------------------
(* The two schedules of a duty: its daily hours and its daily credits.      *)

\* contains: the hours are half open and may cross midnight; a duty that opens
\* when it closes has none (parse refuses them) and is always open.
InHours(d, sinceMidnight) ==
  IF Opening[d] <= Closing[d]
  THEN Opening[d] <= sinceMidnight /\ sinceMidnight < Closing[d]
  ELSE Opening[d] <= sinceMidnight \/ sinceMidnight < Closing[d]
HasHours(d) == Opening[d] # Closing[d]

\* next_open: a time within the hours is its own opening.
NextOpen(d, at) ==
  LET startToday == at - (at % Day) + Opening[d]
  IN IF ~HasHours(d) \/ InHours(d, at % Day) THEN at
     ELSE IF startToday > at THEN startToday ELSE startToday + Day

\* The initial window, ten times longer for each halving.
Widened[n \in 0 .. DailyCredits] ==
  IF n = 0 THEN InitialWindow ELSE 10 * Widened[n - 1]

\* AdaptiveCoalesce::window_sec: the window widens each time the credits left have
\* halved, up to the cap; the cap when none is left.
AdaptiveWindow(spent) ==
  LET remaining == DailyCredits - spent
      halvings == Cardinality({k \in 1 .. DailyCredits : remaining * 2^k <= DailyCredits})
      window == Widened[halvings]
  IN IF remaining <= 0 \/ window > MaxWindow THEN MaxWindow ELSE window

-----------------------------------------------------------------------------
(* Ingestion: one operator per await of Bus::ingest.                        *)

\* Only a policy and a key to coalesce by make ingest look for rows.
Begin(b) ==
  [b EXCEPT !.phase = IF Mode[b.duty] # "none" /\ keyOf'[Head(b.todo)] # NoKey
                      THEN "finding" ELSE "storing"]

\* A duty fires: received_at is stamped, the sensor yields its candidates.
Fire(d) ==
  /\ bus.phase = "idle"
  /\ \E n \in 1 .. MaxBatch :
       /\ sensed + n <= MaxItems
       /\ \E k \in [1 .. n -> AnyKey] :
            keyOf' = [c \in Items |-> IF c \in sensed + 1 .. sensed + n
                                      THEN k[c - sensed] ELSE keyOf[c]]
       /\ bus' = Begin([Idle EXCEPT !.duty = d, !.at = clock,
                                    !.todo = [c \in 1 .. n |-> sensed + c]])
       /\ sensed' = sensed + n
  /\ UNCHANGED <<clock, rows, credits, mind, faults, crashes,
                 leased, heard, collided, raced>>

\* The candidate is done: on to the next one.
NextCandidate ==
  /\ UNCHANGED keyOf
  /\ bus' = IF Tail(bus.todo) = <<>> THEN Idle
            ELSE Begin([bus EXCEPT !.todo = Tail(@), !.index = @ + 1,
                                   !.found = <<>>, !.base = <<>>, !.window = 0])

\* Mutant: the window is half open.
WithinWindowExclusive(i) == bus.at - ReceivedAt(i) < Window

\* within_window's bound, for a batch or latest duty.
WithinWindow(i) == bus.at - ReceivedAt(i) <= Window

\* Pending rows of the same type and dedup key.
Coalescable ==
  {i \in Pending : Duty(i) = bus.duty /\ rows[i].key = keyOf[Candidate]}

\* The rows to supersede, or the open accumulators: an adaptive row is open until
\* its own pop_after.
Joinable ==
  IF Mode[bus.duty] = "adaptive"
  THEN {i \in Coalescable : bus.at < rows[i].popAfter}
  ELSE {i \in Coalescable : WithinWindow(i)}

OldestFirst(S) ==
  {s \in [1 .. Cardinality(S) -> S] :
     \A m, n \in 1 .. Cardinality(S) :
       m < n => s[m] # s[n] /\ ReceivedAt(s[m]) <= ReceivedAt(s[n])}

\* find_coalescable: the snapshot everything after it relies on.
Find ==
  /\ bus.phase = "finding"
  /\ \/ /\ Joinable = {}
        /\ bus' = [bus EXCEPT !.phase = IF Mode[bus.duty] = "adaptive"
                                       THEN "spending" ELSE "storing"]
     \/ \E s \in OldestFirst(Joinable) :
          /\ s # <<>>
          /\ bus' = IF Mode[bus.duty] = "latest"
                    THEN [bus EXCEPT !.phase = "superseding", !.found = s]
                    ELSE [bus EXCEPT !.phase = "folding", !.found = <<s[1]>>,
                                     !.base = rows[s[1]].payload]
  /\ UNCHANGED <<clock, rows, credits, mind, sensed, faults, crashes, history>>

\* A write by id to a row that may no longer be pending; cs would then be lost.
Raced(i, cs) == raced' = IF rows[i].status = "pending" THEN raced ELSE raced \cup cs

\* Mutant: the superseding candidate is taken for folded.
SupersedeAndSkip ==
  /\ bus.phase = "superseding"
  /\ rows' = [rows EXCEPT ![Head(bus.found)].status = "coalesced"]
  /\ Raced(Head(bus.found), Contents(Head(bus.found)))
  /\ NextCandidate
  /\ UNCHANGED <<clock, credits, mind, sensed, faults, crashes,
                 leased, heard, collided>>

\* latest: each row found is marked Coalesced, whatever it has become since.
Supersede ==
  /\ bus.phase = "superseding"
  /\ rows' = [rows EXCEPT ![Head(bus.found)].status = "coalesced"]
  /\ Raced(Head(bus.found), Contents(Head(bus.found)))
  /\ bus' = IF Tail(bus.found) = <<>> THEN [bus EXCEPT !.phase = "storing"]
            ELSE [bus EXCEPT !.found = Tail(@)]
  /\ UNCHANGED <<clock, credits, mind, sensed, faults, crashes,
                 keyOf, leased, heard, collided>>

\* Mutant: the merge keeps the first item and the newest, not the history.
MergeBatchEnds(base, c) == IF base = <<>> THEN <<c>> ELSE <<Head(base), c>>

\* merge_batch: the items so far, then the new one.
MergeBatch(base, c) == Append(base, c)

\* Mutant: a folded candidate also gets a row of its own.
FoldAndStore ==
  /\ bus.phase = "folding"
  /\ rows' = [rows EXCEPT ![Head(bus.found)].payload = MergeBatch(bus.base, Candidate)]
  /\ Raced(Head(bus.found), {Candidate})
  /\ bus' = [bus EXCEPT !.phase = "storing"]
  /\ UNCHANGED <<clock, credits, mind, sensed, faults, crashes,
                 keyOf, leased, heard, collided>>

\* batch: the merged payload replaces the accumulator's, whatever it has become.
Fold ==
  /\ bus.phase = "folding"
  /\ rows' = [rows EXCEPT ![Head(bus.found)].payload = MergeBatch(bus.base, Candidate)]
  /\ Raced(Head(bus.found), {Candidate})
  /\ NextCandidate
  /\ UNCHANGED <<clock, credits, mind, sensed, faults, crashes,
                 leased, heard, collided>>

\* Mutant: the budget of the day on which the credit is spent.
AccountOfToday == <<bus.duty, keyOf[Candidate], DateOf(clock)>>

\* adaptive_credit_key: the budget is the date's, of the day received_at falls on.
Account == <<bus.duty, keyOf[Candidate], DateOf(bus.at)>>

\* The credits cursor is read and advanced: this new row will cost one wake.
Spend ==
  /\ bus.phase = "spending"
  /\ bus' = [bus EXCEPT !.phase = "storing",
                        !.window = AdaptiveWindow(credits[Account])]
  /\ credits' = [credits EXCEPT ![Account] = @ + 1]
  /\ UNCHANGED <<clock, rows, mind, sensed, faults, crashes, history>>

\* pop_after: the later of the debounce and the dispatch window's opening.
Debounce ==
  CASE Mode[bus.duty] = "batch" -> Window
    [] Mode[bus.duty] = "adaptive" ->
         IF keyOf[Candidate] = NoKey THEN InitialWindow ELSE bus.window
    [] OTHER -> 0
PopAfter ==
  LET debounce == IF Debounce > 0 THEN bus.at + Debounce ELSE 0
      opens == IF NextOpen(bus.duty, bus.at) > bus.at
               THEN NextOpen(bus.duty, bus.at) ELSE 0
  IN IF debounce > opens THEN debounce ELSE opens

\* enqueue: INSERT OR IGNORE.
Enqueue ==
  /\ bus.phase = "storing"
  /\ IF rows[NewId].status = "absent"
     THEN /\ rows' = [rows EXCEPT ![NewId] =
                        [status |-> "pending", key |-> keyOf[Candidate],
                         payload |-> <<Candidate>>, popAfter |-> PopAfter,
                         attempts |-> 0]]
          /\ UNCHANGED collided
     ELSE /\ collided' = collided \cup {Candidate}
          /\ UNCHANGED rows
  /\ NextCandidate
  /\ UNCHANGED <<clock, credits, mind, sensed, faults, crashes,
                 leased, heard, raced>>

\* A statement fails: `?` leaves ingest, and the rest of the firing with it.
IngestFails ==
  /\ bus.phase # "idle" /\ faults + crashes < MaxAccidents
  /\ faults' = faults + 1
  /\ bus' = Idle
  /\ UNCHANGED <<clock, rows, credits, mind, sensed, crashes, history>>

Ingest ==
  \/ \E d \in Duties : Fire(d)
  \/ Find \/ Supersede \/ Fold \/ Spend \/ Enqueue \/ IngestFails

-----------------------------------------------------------------------------
(* The consciousness loop, as far as the bus can tell.                      *)

\* next(): the wake is given the payload as it is now. Which poppable row comes
\* first (priority, then received_at) is ConsciousnessLoop's; here any may.
Pop(i) ==
  /\ ~mind.busy
  /\ rows[i].status = "pending" /\ rows[i].popAfter <= clock
  /\ rows' = [rows EXCEPT ![i].status = "dispatched"]
  /\ mind' = [id |-> i, busy |-> TRUE, given |-> Contents(i)]
  /\ leased' = leased \cup {i}
  /\ UNCHANGED <<clock, credits, bus, sensed, faults, crashes,
                 keyOf, heard, collided, raced>>

\* update_status to a terminal status (Done or Failed), whatever the row has become.
Settle ==
  /\ mind.busy
  /\ rows' = [rows EXCEPT ![mind.id].status = "settled"]
  /\ heard' = heard \cup mind.given
  /\ mind' = Awake
  /\ UNCHANGED <<clock, credits, bus, sensed, faults, crashes,
                 keyOf, leased, collided, raced>>

\* Mutant: no cap on the retries.
RetryUncapped ==
  /\ mind.busy
  /\ rows' = [rows EXCEPT ![mind.id].status = "pending",
                          ![mind.id].attempts = @ + 1,
                          ![mind.id].popAfter = clock + RetryDelay]
  /\ mind' = Awake
  /\ UNCHANGED <<clock, credits, bus, sensed, faults, crashes, history>>

\* reschedule: the same row, pending again behind its backoff.
Retry ==
  /\ mind.busy
  /\ rows[mind.id].attempts < MaxRetries
  /\ rows' = [rows EXCEPT ![mind.id].status = "pending",
                          ![mind.id].attempts = @ + 1,
                          ![mind.id].popAfter = clock + RetryDelay]
  /\ mind' = Awake
  /\ UNCHANGED <<clock, credits, bus, sensed, faults, crashes, history>>

Loop == Settle \/ Retry \/ \E i \in Ids : Pop(i)

-----------------------------------------------------------------------------
\* A crash and the reboot after it: the ingest call and the wake are gone, the
\* leased row is reclaimed.
Crash ==
  /\ faults + crashes < MaxAccidents
  /\ crashes' = crashes + 1
  /\ bus' = Idle /\ mind' = Awake
  /\ rows' = [i \in Ids |-> IF rows[i].status = "dispatched"
                            THEN [rows[i] EXCEPT !.status = "pending"] ELSE rows[i]]
  /\ UNCHANGED <<clock, credits, sensed, faults, history>>

Tick ==
  /\ clock < MaxTime
  /\ clock' = clock + 1
  /\ UNCHANGED <<rows, credits, bus, mind, sensed, faults, crashes, history>>

Next == Ingest \/ Loop \/ Crash \/ Tick
Spec == Init /\ [][Next]_vars

-----------------------------------------------------------------------------
(* Properties.                                                              *)

\* A candidate is carried by one row and stands in it once: coalescing never makes
\* the mind hear the same thing in two wakes.
CarriedOnce ==
  /\ \A i, j \in Stored : i # j => Contents(i) \cap Contents(j) = {}
  /\ \A i \in Stored : Len(rows[i].payload) = Cardinality(Contents(i))

\* A fold only appends: whatever the loop does between the read and the write, no
\* candidate already in a row is dropped from it or moved.
PayloadsOnlyGrow ==
  [][\A i \in Ids :
       LET old == rows[i].payload
           new == rows'[i].payload
       IN Len(new) >= Len(old) /\ SubSeq(new, 1, Len(old)) = old]_vars

\* Coalescing leaves one open row for each key: two rows never popped yet are apart
\* by more than the window, or one adaptive row was closed when the other came.
Closed(i, j) == rows[i].popAfter <= ReceivedAt(j) /\ ReceivedAt(i) <= ReceivedAt(j)
Apart(i, j) == ReceivedAt(j) - ReceivedAt(i) > Window
OneOpenRow ==
  \A i, j \in Pending \ leased :
    /\ i # j /\ Duty(i) = Duty(j)
    /\ rows[i].key = rows[j].key /\ rows[i].key # NoKey
    => CASE Mode[Duty(i)] = "none" -> TRUE
         [] Mode[Duty(i)] = "adaptive" -> Closed(i, j) \/ Closed(j, i)
         [] OTHER -> Apart(i, j) \/ Apart(j, i)

\* The budget counts wakes: a key has spent on a day a credit for every row it got
\* that day, and no other except for those a failure, a crash or a taken id lost.
Unstored == IF bus.phase = "storing" THEN 1 ELSE 0
CreditsCountWakes ==
  \A d \in Duties, k \in Keys, day \in Dates :
    LET wakes == Cardinality({i \in Stored : /\ Duty(i) = d /\ rows[i].key = k
                                             /\ DateOf(ReceivedAt(i)) = day})
        spent == credits[<<d, k, day>>]
    IN Mode[d] = "adaptive" =>
         /\ wakes <= spent
         /\ spent <= wakes + faults + crashes + Cardinality(collided) + Unstored

\* The candidate is where the mind will hear it, has heard it, or was superseded
\* by a later one.
Kept(c) ==
  \/ c \in heard
  \/ c \in mind.given
  \/ \E i \in Stored :
       c \in Contents(i)
         /\ \/ rows[i].status = "pending"
            \/ /\ rows[i].status = "coalesced"
               /\ \E e \in c + 1 .. sensed : keyOf[e] = keyOf[c]

\* A candidate is lost in no other way than by an id that was taken, a write that
\* came after its row was popped, a failed statement or a crash.
LostOnlyByAccident ==
  collided = {} /\ raced = {} /\ faults = 0 /\ crashes = 0
    => \A c \in (1 .. sensed) \ Left : Kept(c)

\* "`None` → always a fresh wake": without failures every candidate of a duty that
\* does not coalesce gets a row.
AlwaysAFreshWake ==
  faults = 0 /\ crashes = 0 =>
    \A c \in (1 .. sensed) \ Left : c \in heard \cup mind.given
      \/ \E i \in Ids : c \in Contents(i)
=============================================================================
