---------------------------- MODULE IngestProofs ----------------------------
(***************************************************************************)
(* Proofs about Ingest, for every set of definitions, lattice, capacity and   *)
(* number of items and posts: reloads settle, the wheel sleeps through no      *)
(* reload and misses no time, an item is stored once and none is passed over, *)
(* and what was sensed is trusted no more than what it was sensed with.      *)
(***************************************************************************)
EXTENDS Ingest, LatticeLemmas, FiniteSetTheorems, SequenceTheorems

-----------------------------------------------------------------------------
(* The trust of what is sensed.                                             *)

\* The configured tiers, and what sources are labelled with.
LEMMA TrustTypes ==
  /\ \A v : ScriptTrust(v) \in Configured
  /\ \A s : SecretTrust(s) \in Configured
  /\ \A p : WebhookTrust(p) \in Configured
<1>1. \A f : Range(f) \subseteq Configured => \A x \in DOMAIN f : f[x] \in Configured
  BY DEF Range
<1> QED
  BY <1>1, IngestAssumption DEF ScriptTrust, SecretTrust, WebhookTrust

\* The seed of a sensor's candidates is a configured tier, and ranks no higher than what
\* the script was signed for nor than any secret.
LEMMA SeedIsLower ==
  ASSUME NEW d \in Definitions, HasSensor(d), NEW read
  PROVE  /\ Seed(d, read) \in Configured
         /\ Rank(Seed(d, read)) <= Rank(ScriptTrust(read))
         /\ \A n \in DOMAIN d.secrets : Rank(Seed(d, read)) <= Rank(SecretTrust(d.secrets[n]))
<1> DEFINE k == Len(d.secrets)
           Solves(f, m) == f = [n \in 0 .. m |->
              IF n = 0 THEN ScriptTrust(read) ELSE Meet(f[n - 1], SecretTrust(d.secrets[n]))]
           met == CHOOSE f : Solves(f, k)
           T == {m \in Nat : \E f : Solves(f, m)}
<1>1. k \in Nat /\ DOMAIN d.secrets = 1 .. k
  BY DutiesAssumption DEF Definition
<1>2. 0 \in T
  <2>1. Solves([n \in 0 .. 0 |-> ScriptTrust(read)], 0)
    OBVIOUS
  <2> QED
    BY <2>1
<1>3. ASSUME NEW m \in T PROVE m + 1 \in T
  <2>1. PICK f : Solves(f, m)
    OBVIOUS
  <2> DEFINE g == [n \in 0 .. m + 1 |-> IF n <= m THEN f[n]
                                         ELSE Meet(f[m], SecretTrust(d.secrets[m + 1]))]
  <2>2. Solves(g, m + 1)
    <3>1. ASSUME NEW n \in 0 .. m + 1
          PROVE  g[n] = IF n = 0 THEN ScriptTrust(read)
                        ELSE Meet(g[n - 1], SecretTrust(d.secrets[n]))
      <4>1. CASE n = m + 1
        BY <4>1
      <4>2. CASE n <= m
        <5>1. n \in 0 .. m
          BY <4>2
        <5>2. f[n] = IF n = 0 THEN ScriptTrust(read)
                     ELSE Meet(f[n - 1], SecretTrust(d.secrets[n]))
          BY <2>1, <5>1
        <5> QED
          BY <4>2, <5>2
      <4> QED
        BY <4>1, <4>2
    <3> QED
      BY <3>1
  <2> HIDE DEF g, Solves
  <2> QED
    BY <2>2
<1>4. T = Nat
  <2> HIDE DEF T
  <2>1. T \subseteq Nat
    BY DEF T
  <2> QED
    BY <1>2, <1>3, <2>1, SetInduction
<1>5. Solves(met, k)
  <2>1. \E f : Solves(f, k)
    BY <1>1, <1>4
  <2> HIDE DEF Solves
  <2> QED
    BY <2>1
<1>6. Seed(d, read) = met[k]
  BY DEF Seed
<1> HIDE DEF met
<1> DEFINE Lower(m) == /\ met[m] \in Configured
                       /\ Rank(met[m]) <= Rank(ScriptTrust(read))
                       /\ \A n \in 1 .. m : Rank(met[m]) <= Rank(SecretTrust(d.secrets[n]))
           U == {m \in Nat : m <= k => Lower(m)}
<1>7. 0 \in U
  <2>1. met[0] = ScriptTrust(read)
    BY <1>1, <1>5
  <2> QED
    BY <2>1, TrustTypes, RankType
<1>8. ASSUME NEW m \in U PROVE m + 1 \in U
  <2> SUFFICES ASSUME m + 1 <= k PROVE Lower(m + 1)
    OBVIOUS
  <2> DEFINE s == SecretTrust(d.secrets[m + 1])
  <2>1. met[m + 1] = Meet(met[m], s)
    BY <1>1, <1>5
  <2>2. met[m + 1] \in {met[m], s} /\ Rank(met[m + 1]) <= Rank(met[m]) /\ Rank(met[m + 1]) <= Rank(s)
    BY <2>1, MeetIsLower
  <2>3. Lower(m)
    BY <1>1
  <2>4. s \in Configured
    BY TrustTypes
  <2>5. \A n \in 1 .. m + 1 : n \in 1 .. m \/ n = m + 1
    OBVIOUS
  <2> HIDE DEF s
  <2>6. \A a, b, c \in Nat : a <= b /\ b <= c => a <= c
    OBVIOUS
  <2>7. Rank(met[m + 1]) <= Rank(ScriptTrust(read))
    BY <2>2, <2>3, <2>6, RankType
  <2>8. ASSUME NEW n \in 1 .. m + 1 PROVE Rank(met[m + 1]) <= Rank(SecretTrust(d.secrets[n]))
    BY <2>2, <2>3, <2>5, <2>6, RankType DEF s
  <2> QED
    BY <2>2, <2>3, <2>4, <2>7, <2>8
<1>9. U = Nat
  <2> HIDE DEF U
  <2>1. U \subseteq Nat
    BY DEF U
  <2> QED
    BY <1>7, <1>8, <2>1, SetInduction
<1> QED
  BY <1>1, <1>6, <1>9

-----------------------------------------------------------------------------
(* The duties and the wheel, by what a step of Ingest does to them.         *)

\* What a step does to the duties: an operation of theirs, the wheel taking its
\* wake-up, or nothing.
DutiesNext ==
  \/ EditStimuli \/ EditScript \/ Watch \/ DutiesBoot
  \/ \E r \in reloads : Reload(r)
  \/ permit' = FALSE /\ UNCHANGED <<disk, script, registry, schedule, routes, reloads,
                                    watched, overtaken>>
  \/ UNCHANGED dutyVars

LEMMA NextDuties == ASSUME [Next]_vars PROVE DutiesNext
BY DEF Next, vars, wheelVars, Wheel, CopySchedule, Notified, Wake, SendFired, WheelTick,
       RoutePost, AcceptPost, Consume, TakeGone, Take, MaterializeSecret, SecretFails, Sense,
       AdvanceCursor, ReadScript, StoreItem, StoreOther, CallFails, outside, NewItem, Crash,
       DutiesNext, dutyVars

\* Accidents are counted.
CountOK == accidents \in 0 .. MaxAccidents

LEMMA NextCount == ASSUME CountOK, [Next]_vars PROVE CountOK'
<1>1. Accident \/ UNCHANGED accidents
  BY DEF Next, vars, wheelVars, Wheel, CopySchedule, Notified, Wake, SendFired,
       WheelTick, RoutePost, AcceptPost, Consume, TakeGone, Take, MaterializeSecret, SecretFails,
       Sense, AdvanceCursor, ReadScript, StoreItem, StoreOther, CallFails, outside, NewItem,
       Crash, EditStimuli, EditScript
<1> QED
  BY <1>1, AccidentsAssumption DEF CountOK, Accident

\* A reload that goes on.
ReloadRecord == [task : 1 .. MaxAccidents, at : Reloading, read : Directories \cup {{}}]

\* What a reload has read, and what it is yet to bring about, as long as the directory
\* was not changed behind its back.
Settling ==
  ~overtaken =>
    /\ \A r \in reloads : r.at # "load" => r.read = disk
    /\ registry = disk \/ \E r \in reloads : r.at \in {"load", "swap"}
    /\ schedule = CronRoutes(disk) \/ \E r \in reloads : r.at \in {"load", "swap", "reschedule"}
    /\ routes = WebhookRoutes(disk) \/ reloads # {}

DutiesInv == DutiesTypeOK /\ CountOK /\ Settling

LEMMA DutiesInitial == ASSUME Init PROVE DutiesInv
<1>1. Shipped \in Directories /\ Shipped \subseteq Definitions
  BY DutiesAssumption
<1>2. DutiesTypeOK
  BY <1>1 DEF Init, DutiesInit, DutiesTypeOK, CronRoutes, WebhookRoutes, Scripts
<1>3. CountOK
  BY AccidentsAssumption DEF Init, CountOK
<1>4. Settling
  BY DEF Init, DutiesInit, Settling
<1> QED
  BY <1>2, <1>3, <1>4 DEF DutiesInv

\* One reload goes on: the others stay as they are.
LEMMA GoesType ==
  ASSUME DutiesInv, NEW r \in reloads, NEW at \in Reloading \ {"load"}, NEW read \in Directories,
         Goes(r, at, read)
  PROVE  /\ reloads' \subseteq ReloadRecord
         /\ \A q \in reloads' : q.at # "load" => q.read \in Directories
         /\ \A q \in reloads' : q \in reloads \/ (q.at = at /\ q.read = read)
         /\ \E q \in reloads' : q.at = at
         /\ \A q \in reloads : q = r \/ q \in reloads'
<1> DEFINE new == [r EXCEPT !.at = at, !.read = read]
<1>1. r \in ReloadRecord
  BY DEF DutiesInv, DutiesTypeOK, ReloadRecord
<1>2. new \in ReloadRecord /\ new.at = at /\ new.read = read
  BY <1>1 DEF ReloadRecord
<1>3. reloads' = (reloads \ {r}) \cup {new}
  BY DEF Goes
<1> HIDE DEF new
<1>4. reloads \subseteq ReloadRecord /\ \A q \in reloads : q.at # "load" => q.read \in Directories
  BY DEF DutiesInv, DutiesTypeOK, ReloadRecord
<1>5. \A q \in reloads' : q \in reloads \/ q = new
  BY <1>3
<1>6. reloads' \subseteq ReloadRecord
  BY <1>2, <1>3, <1>4
<1>7. \A q \in reloads' : q.at # "load" => q.read \in Directories
  BY <1>2, <1>4, <1>5
<1>8. \A q \in reloads' : q \in reloads \/ (q.at = at /\ q.read = read)
  BY <1>2, <1>5
<1>9. new \in reloads' /\ \A q \in reloads : q = r \/ q \in reloads'
  BY <1>3
<1>10. \E q \in reloads' : q.at = at
  BY <1>2, <1>9
<1> QED
  BY <1>6, <1>7, <1>8, <1>9, <1>10 DEF ReloadRecord

LEMMA DutiesStep == ASSUME DutiesInv, [Next]_vars PROVE DutiesInv'
<1> USE DEF DutiesInv
<1>0. CountOK' /\ DutiesNext
  BY NextCount, NextDuties
<1>1. \A d \in Directories : CronRoutes(d) \subseteq Definitions /\ WebhookRoutes(d) \subseteq Definitions
  BY DutiesAssumption DEF CronRoutes, WebhookRoutes
<1>2. ASSUME Accident, Noticed
      PROVE  /\ reloads' \subseteq ReloadRecord
             /\ \A q \in reloads' : q.at # "load" => q \in reloads
             /\ watched => \E q \in reloads' : q.at = "load"
             /\ reloads \subseteq reloads'
  <2> DEFINE new == [task |-> accidents', at |-> "load", read |-> {}]
  <2>1. accidents' \in 1 .. MaxAccidents
    BY <1>2, AccidentsAssumption DEF CountOK, Accident
  <2>2. new \in ReloadRecord /\ new.at = "load"
    BY <2>1 DEF ReloadRecord, Reloading
  <2>3. reloads' = IF watched THEN reloads \cup {new} ELSE reloads
    BY <1>2 DEF Noticed
  <2>4. reloads \subseteq ReloadRecord
    BY DEF DutiesTypeOK, ReloadRecord
  <2> HIDE DEF new
  <2> QED
    BY <2>2, <2>3, <2>4
<1>3. CASE EditStimuli
  <2>1. disk' \in Directories /\ Noticed /\ Accident
    BY <1>3 DEF EditStimuli
  <2>2. DutiesTypeOK'
    BY <1>2, <1>3, <2>1 DEF EditStimuli, DutiesTypeOK, ReloadRecord
  <2>3. ~overtaken' => reloads = {} /\ watched
    BY <1>3 DEF EditStimuli
  <2>4. Settling'
    BY <1>2, <1>3, <2>1, <2>3 DEF EditStimuli, Settling
  <2> QED
    BY <1>0, <2>2, <2>4
<1>4. CASE EditScript
  <2>1. script' \in Scripts /\ Noticed /\ Accident
    BY <1>4 DEF EditScript
  <2>2. DutiesTypeOK'
    BY <1>2, <1>4, <2>1 DEF EditScript, DutiesTypeOK, ReloadRecord
  <2>4. Settling'
    BY <1>2, <1>4, <2>1 DEF EditScript, Settling
  <2> QED
    BY <1>0, <2>2, <2>4
<1>5. CASE Watch
  BY <1>0, <1>5 DEF Watch, DutiesTypeOK, Settling
<1>6. CASE DutiesBoot
  BY <1>0, <1>1, <1>6 DEF DutiesBoot, Loaded, DutiesTypeOK, Settling
<1>7. ASSUME NEW r \in reloads, Reload(r) PROVE DutiesInv'
  <2>1. r \in ReloadRecord /\ (r.at # "load" => r.read \in Directories)
    BY DEF DutiesTypeOK, ReloadRecord
  <2>2. CASE ReloadLoads(r)
    <3>1. Goes(r, "swap", disk) /\ disk \in Directories /\ "swap" \in Reloading \ {"load"}
      BY <2>2 DEF ReloadLoads, DutiesTypeOK, Reloading
    <3> QED
      BY <1>0, <1>1, <2>2, <3>1, GoesType DEF ReloadLoads, DutiesTypeOK, Settling, ReloadRecord
  <2>3. CASE ReloadSwaps(r)
    <3>1. Goes(r, "reschedule", r.read) /\ r.read \in Directories /\ "reschedule" \in Reloading \ {"load"}
      BY <2>1, <2>3 DEF ReloadSwaps, DutiesTypeOK, Reloading
    <3> QED
      BY <1>0, <1>1, <2>3, <3>1, GoesType DEF ReloadSwaps, DutiesTypeOK, Settling, ReloadRecord
  <2>4. CASE Reschedule(r)
    <3>1. Goes(r, "notify", r.read) /\ r.read \in Directories /\ "notify" \in Reloading \ {"load"}
      BY <2>1, <2>4 DEF Reschedule, DutiesTypeOK, Reloading
    <3> QED
      BY <1>0, <1>1, <2>4, <3>1, GoesType DEF Reschedule, DutiesTypeOK, Settling, ReloadRecord
  <2>5. CASE NotifyWheel(r)
    <3>1. Goes(r, "route", r.read) /\ r.read \in Directories /\ "route" \in Reloading \ {"load"}
      BY <2>1, <2>5 DEF NotifyWheel, DutiesTypeOK, Reloading
    <3> QED
      BY <1>0, <1>1, <2>5, <3>1, GoesType DEF NotifyWheel, DutiesTypeOK, Settling, ReloadRecord
  <2>6. CASE SetRoutes(r)
    BY <1>0, <1>1, <2>1, <2>6 DEF SetRoutes, DutiesTypeOK, Settling
  <2> QED
    BY <1>7, <2>2, <2>3, <2>4, <2>5, <2>6 DEF Reload
<1>8. CASE UNCHANGED <<disk, script, registry, schedule, routes, reloads, watched, overtaken>>
           /\ permit' \in BOOLEAN
  BY <1>0, <1>8 DEF DutiesTypeOK, Settling
<1> QED
  BY <1>0, <1>3, <1>4, <1>5, <1>6, <1>7, <1>8 DEF DutiesNext, dutyVars, DutiesTypeOK

\* Reloads settle (ReloadsSettle): the registry, the wheel's schedule and the listener's
\* routes agree with the directory once every reload is through.
THEOREM ReloadsDoSettle == Spec => []ReloadsSettle
<1>1. DutiesInv => ReloadsSettle
  BY DEF DutiesInv, Settling, ReloadsSettle
<1> QED
  BY <1>1, DutiesInitial, DutiesStep, PTL DEF Spec

-----------------------------------------------------------------------------
(* The wheel.                                                               *)

\* What the channel carries.
Trigger == [id : Ids, post : Nat]

\* What a step of Ingest does to the wheel: a step of its own, a trigger of the listener
\* that is put into the channel, one that the consumer takes out, or nothing.
Posted ==
  /\ Len(channel) < Capacity
  /\ \E m \in Trigger : channel' = Append(channel, m)
  /\ UNCHANGED <<clock, wheel, fires, excused>>
Taken ==
  /\ channel # <<>> /\ channel' = Tail(channel)
  /\ UNCHANGED <<clock, wheel, fires, excused>>
WheelNext ==
  CopySchedule \/ Notified \/ Wake \/ SendFired \/ WheelTick \/ WheelBoot
    \/ Posted \/ Taken \/ UNCHANGED wheelVars

\* The types of the consumer's own variables.
ConsumerTypeOK ==
  /\ world \in 0 .. MaxItems
  /\ cursor \in [Ids -> 0 .. MaxItems]
  /\ ingest \in [at : Stages, duty : Definitions, post : 0 .. MaxPosts, todo : Seq(STRING),
                 sensed : SUBSET Items, ran : Scripts, read : Scripts]
  /\ \A n \in DOMAIN channel : channel[n].post <= MaxPosts
  /\ posts \in [Posts -> [at : {"none", "routed", "accepted"}, id : Ids]]
  /\ rows \in [Ids \X Items -> [times : Nat, tier : Configured]]
  /\ kept \subseteq Posts
  /\ hit \subseteq ({"item"} \X Ids \X Items) \cup ({"post"} \X Posts)

LEMMA NextWheel == ASSUME ConsumerTypeOK, [Next]_vars PROVE WheelNext
<1>1. ASSUME NEW p \in Posts, AcceptPost(p) PROVE Posted
  <2>1. [id |-> posts[p].id, post |-> p] \in Trigger
    BY IngestAssumption DEF ConsumerTypeOK, Trigger, Posts
  <2> QED
    BY <1>1, <2>1 DEF AcceptPost, Posted
<1>2. ASSUME Consume PROVE Taken \/ UNCHANGED wheelVars
  BY <1>2
  DEF Consume, TakeGone, Take, MaterializeSecret, SecretFails, Sense, AdvanceCursor, ReadScript,
      StoreItem, StoreOther, CallFails, outside, Taken, wheelVars
<1> QED
  BY <1>1, <1>2 DEF Next, vars, WheelNext, Wheel, RoutePost, NewItem, Crash, wheelVars

\* The wheel's invariant: what it copied are the duties of one directory; when it sleeps no
\* time of theirs has passed but the present second's, and none that is to come was fired;
\* when it does not, every time that has passed since the copy was fired or is excused.
Unslept ==
  wheel.at = "sleep" =>
    /\ \A f \in DOMAIN fires : f[2] > wheel.now => fires[f] = 0
    /\ \A d \in wheel.copy : \A t \in d.times : ~(wheel.now < t /\ t < clock)
OncePerTime == \A f \in DOMAIN fires : fires[f] <= 1 /\ (f[2] > clock => fires[f] = 0)
Answered == wheel.at # "sleep" => \A p \in Passed : fires[p] = 1 \/ p \in excused

WheelInv ==
  /\ WheelTypeOK
  /\ UniqueIds(schedule) /\ UniqueIds(wheel.copy)
  /\ WheelIsCurrent
  /\ OncePerTime /\ Unslept /\ Answered

\* The definitions of one directory have ids of their own, and so do those of it that
\* the wheel is given.
LEMMA OneDirectory ==
  ASSUME NEW d \in Directories
  PROVE  CronRoutes(d) \subseteq Definitions /\ UniqueIds(CronRoutes(d))
BY DutiesAssumption DEF CronRoutes, UniqueIds

\* The times that have passed are times of copied duties.
LEMMA PassedTimes ==
  ASSUME WheelTypeOK
  PROVE  /\ Passed \subseteq Ids \X Times
         /\ \A p : p \in Passed <=>
              \E d \in wheel.copy : \E t \in d.times :
                p = <<d.id, t>> /\ wheel.now < t /\ t <= clock
<1>1. \A p : p \in Passed <=>
        \E d \in wheel.copy : \E t \in d.times : p = <<d.id, t>> /\ wheel.now < t /\ t <= clock
  BY DEF Passed
<1>2. wheel.copy \subseteq Definitions /\ clock \in 0 .. MaxTime /\ wheel.now \in 0 .. MaxTime
  BY DEF WheelTypeOK, Times
<1>3. \A d \in Definitions : d.times \subseteq Nat /\ d.id \in Ids
  BY DutiesAssumption DEF Definition, Ids
<1>4. \A d \in wheel.copy : \A t \in d.times : wheel.now < t /\ t <= clock => t \in 0 .. MaxTime
  BY <1>2, <1>3, WheelAssumption
<1> HIDE DEF Passed
<1> QED
  BY <1>1, <1>2, <1>3, <1>4 DEF Times

\* A duty with a time to come has a next one.
LEMMA NextComes ==
  ASSUME NEW d \in Definitions, NEW after \in Nat, NEW t \in d.times, t > after
  PROVE  \E u \in NextFire(d, after) : u <= t
<1>1. Following(d, after) \in SUBSET Nat /\ t \in Following(d, after)
  BY DutiesAssumption DEF Definition, Following
<1>2. PICK u \in Following(d, after) : \A n \in Following(d, after) : u <= n
  BY <1>1, LeastNatural
<1> QED
  BY <1>1, <1>2 DEF NextFire

\* Of duties with ids of their own, at most one has a given id.
LEMMA OneHasIt ==
  ASSUME NEW S, UniqueIds(S), NEW id, NEW due \in SUBSET S, \A d \in due : d.id = id
  PROVE  /\ Cardinality(due) \in {0, 1}
         /\ due = {} => Cardinality(due) = 0
         /\ due # {} => Cardinality(due) = 1
<1>1. CASE due = {}
  BY <1>1, FS_EmptySet
<1>2. CASE due # {}
  <2>1. PICK d : d \in due
    BY <1>2
  <2>2. due = {d}
    BY <2>1 DEF UniqueIds
  <2>3. Cardinality({d}) = 1
    BY FS_Singleton
  <2> QED
    BY <1>2, <2>2, <2>3
<1> QED
  BY <1>1, <1>2

LEMMA WheelInitial == ASSUME Init PROVE WheelInv
<1>1. 0 \in Times
  BY WheelAssumption DEF Times
<1>2. WheelTypeOK
  <2>1. <<>> \in Seq([id : Ids, post : Nat]) /\ Len(<<>>) = 0
    BY EmptySeq
  <2> QED
    BY <1>1, <2>1, WheelAssumption DEF Init, WheelInit, NewWheel, WheelTypeOK
<1>3. UniqueIds(schedule) /\ UniqueIds(wheel.copy)
  BY OneDirectory, DutiesAssumption DEF Init, DutiesInit, WheelInit, NewWheel, UniqueIds
<1>4. WheelIsCurrent /\ Unslept /\ OncePerTime
  BY DEF Init, WheelInit, NewWheel, WheelIsCurrent, Unslept, OncePerTime
<1>5. Answered
  BY <1>2, PassedTimes DEF Init, WheelInit, NewWheel, Answered
<1> QED
  BY <1>2, <1>3, <1>4, <1>5 DEF WheelInv

\* The schedule is that of one directory, whatever a reload read.
LEMMA ScheduleUnique ==
  ASSUME DutiesInv, UniqueIds(schedule), DutiesNext PROVE UniqueIds(schedule')
<1>1. ASSUME NEW r \in reloads, Reload(r) PROVE UniqueIds(schedule')
  <2>1. r.at # "load" => r.read \in Directories
    BY DEF DutiesInv, DutiesTypeOK
  <2> QED
    BY <1>1, <2>1, OneDirectory
    DEF Reload, ReloadLoads, ReloadSwaps, Reschedule, NotifyWheel, SetRoutes
<1> QED
  BY <1>1, OneDirectory
  DEF DutiesNext, EditStimuli, EditScript, Watch, DutiesBoot, Loaded, DutiesInv, DutiesTypeOK,
      dutyVars

\* What a step that leaves the wheel, the clock and what was fired alone leaves of the
\* invariant.
LEMMA WheelStays ==
  ASSUME WheelInv, UNCHANGED <<clock, wheel, fires, excused>>, channel' \in Seq(Trigger),
         Len(channel') <= Capacity, UniqueIds(schedule'), WheelIsCurrent'
  PROVE  WheelInv'
<1>1. WheelTypeOK'
  BY DEF WheelInv, WheelTypeOK, Trigger
<1>2. Passed' = Passed
  BY DEF Passed
<1>3. (Unslept /\ OncePerTime /\ Answered)'
  BY <1>2 DEF WheelInv, Unslept, OncePerTime, Answered
<1> QED
  BY <1>1, <1>3 DEF WheelInv

\* The wheel's own wake-up survives every reload.
LEMMA CurrentStep ==
  ASSUME DutiesInv, WheelInv, DutiesNext, wheel' = wheel, permit => permit'
  PROVE  WheelIsCurrent'
<1> SUFFICES ASSUME wheel.at = "sleep", wheel.copy # schedule'
             PROVE  permit' \/ \E r \in reloads' : r.at = "notify"
  BY DEF WheelIsCurrent
<1>1. CASE schedule' = schedule
  <2>1. permit \/ \E r \in reloads : r.at = "notify"
    BY <1>1 DEF WheelInv, WheelIsCurrent
  <2>2. ASSUME NEW q \in reloads, q.at = "notify", q \notin reloads' PROVE permit'
    <3>1. ASSUME NEW r \in reloads, Reload(r) PROVE permit'
      <4>1. Goes(r, "swap", disk) \/ Goes(r, "reschedule", r.read) \/ Goes(r, "notify", r.read)
              \/ Goes(r, "route", r.read) \/ reloads' = reloads \ {r}
        BY <3>1 DEF Reload, ReloadLoads, ReloadSwaps, Reschedule, NotifyWheel, SetRoutes
      <4>2. q = r
        BY <2>2, <4>1 DEF Goes
      <4> QED
        BY <2>2, <3>1, <4>2
        DEF Reload, ReloadLoads, ReloadSwaps, Reschedule, NotifyWheel, SetRoutes
    <3>2. CASE DutiesBoot
      BY <3>2 DEF DutiesBoot
    <3> QED
      BY <2>2, <3>1, <3>2 DEF DutiesNext, EditStimuli, EditScript, Watch, Noticed, dutyVars
  <2> QED
    BY <2>1, <2>2
<1>2. CASE schedule' # schedule
  <2>1. CASE DutiesBoot
    BY <2>1 DEF DutiesBoot
  <2>2. ASSUME NEW r \in reloads, Reschedule(r) PROVE \E q \in reloads' : q.at = "notify"
    <3>1. r.read \in Directories /\ "notify" \in Reloading \ {"load"} /\ Goes(r, "notify", r.read)
      BY <2>2 DEF Reschedule, DutiesInv, DutiesTypeOK, Reloading
    <3> QED
      BY <3>1, GoesType
  <2> QED
    BY <1>2, <2>1, <2>2
    DEF DutiesNext, EditStimuli, EditScript, Watch, Reload, ReloadLoads, ReloadSwaps,
        NotifyWheel, SetRoutes, dutyVars
<1> QED
  BY <1>1, <1>2

\* Only the wheel takes its wake-up.
LEMMA NextPermit == ASSUME [Next]_vars, permit PROVE Notified \/ permit'
BY DEF Next, vars, wheelVars, Wheel, CopySchedule, Wake, SendFired, WheelTick, RoutePost,
       AcceptPost, Consume, TakeGone, Take, MaterializeSecret, SecretFails, Sense, AdvanceCursor,
       ReadScript, StoreItem, StoreOther, CallFails, outside, NewItem, Crash, dutyVars,
       EditStimuli, EditScript, Watch, DutiesBoot, Reload, ReloadLoads, ReloadSwaps, Reschedule,
       NotifyWheel, SetRoutes

LEMMA WheelStep ==
  ASSUME DutiesInv, WheelInv, ConsumerTypeOK, [Next]_vars PROVE WheelInv'
<1>0. DutiesNext /\ WheelNext /\ UniqueIds(schedule')
  BY NextDuties, NextWheel, ScheduleUnique DEF WheelInv
<1>1. /\ clock \in 0 .. MaxTime /\ wheel.now \in 0 .. MaxTime /\ MaxTime \in Nat /\ Capacity \in Nat
      /\ wheel.copy \subseteq Definitions /\ schedule \subseteq Definitions
      /\ channel \in Seq(Trigger) /\ Len(channel) \in Nat /\ Len(channel) <= Capacity
  BY WheelAssumption DEF WheelInv, WheelTypeOK, Times, DutiesInv, DutiesTypeOK, Trigger
<1>11. wheel' = wheel => (permit => permit')
  <2>1. Notified => wheel' # wheel
    BY DEF Notified, WheelInv, WheelTypeOK
  <2> QED
    BY <2>1, NextPermit
<1>2. CASE CopySchedule
  <2>1. wheel' = [at |-> "sleep", now |-> clock, copy |-> schedule, due |-> {}]
        /\ UNCHANGED <<dutyVars, clock, channel, fires, excused>>
    BY <1>2 DEF CopySchedule
  <2>2. WheelTypeOK'
    BY <1>1, <2>1 DEF WheelInv, WheelTypeOK
  <2>3. UniqueIds(wheel.copy')
    BY <1>0, <2>1 DEF dutyVars
  <2>4. WheelIsCurrent'
    BY <2>1 DEF WheelIsCurrent, dutyVars
  <2>5. Unslept' /\ OncePerTime'
    <3>1. \A d \in schedule : \A t \in d.times : ~(clock < t /\ t < clock)
      <4>1. \A d \in schedule : d.times \subseteq Nat
        BY <1>1, DutiesAssumption DEF Definition
      <4> QED
        BY <1>1, <4>1
    <3> QED
      BY <2>1, <3>1 DEF WheelInv, Unslept, OncePerTime
  <2>6. Answered'
    BY <2>1 DEF Answered
  <2> QED
    BY <1>0, <2>2, <2>3, <2>4, <2>5, <2>6 DEF WheelInv
<1>3. CASE Notified
  <2>1. wheel.at = "sleep" /\ wheel' = [wheel EXCEPT !.at = "copy"] /\ excused' = excused \cup Passed
        /\ UNCHANGED <<schedule, clock, channel, fires>>
    BY <1>3 DEF Notified
  <2>2. wheel'.at = "copy" /\ wheel'.now = wheel.now /\ wheel'.copy = wheel.copy
    BY <2>1 DEF WheelInv, WheelTypeOK
  <2>3. WheelTypeOK'
    BY <2>1, PassedTimes DEF WheelInv, WheelTypeOK
  <2>4. Passed' = Passed
    BY <2>1, <2>2 DEF Passed
  <2>5. (WheelIsCurrent /\ Unslept /\ OncePerTime /\ Answered)'
    BY <2>1, <2>2, <2>4 DEF WheelInv, WheelIsCurrent, Unslept, OncePerTime, Answered
  <2> QED
    BY <1>0, <2>2, <2>3, <2>5 DEF WheelInv
<1>4. CASE Wake
  <2> DEFINE D == {d \in wheel.copy : Due(d, clock)}
             Of(f) == {d \in D : f[1] = d.id /\ f[2] \in NextFire(d, wheel.now)}
  <2>1. wheel.at = "sleep" /\ wheel' = [wheel EXCEPT !.at = "send", !.due = {d.id : d \in D}]
        /\ fires' = [f \in DOMAIN fires |-> fires[f] + Cardinality(Of(f))]
        /\ UNCHANGED <<dutyVars, clock, channel, excused>>
    BY <1>4 DEF Wake
  <2>2. wheel'.at = "send" /\ wheel'.now = wheel.now /\ wheel'.copy = wheel.copy
    BY <2>1 DEF WheelInv, WheelTypeOK
  <2>3. \A f : Cardinality(Of(f)) \in {0, 1} /\ (Of(f) = {} => Cardinality(Of(f)) = 0)
               /\ (Of(f) # {} => Cardinality(Of(f)) = 1)
    <3> TAKE f
    <3>1. Of(f) \in SUBSET wheel.copy /\ (\A d \in Of(f) : d.id = f[1]) /\ UniqueIds(wheel.copy)
      BY DEF WheelInv
    <3> HIDE DEF Of
    <3> QED
      BY <3>1, OneHasIt
  <2>4. DOMAIN fires = Ids \X Times /\ \A f \in DOMAIN fires : fires[f] \in Nat
    BY DEF WheelInv, WheelTypeOK
  <2> HIDE DEF Of
  <2>5. fires' \in [Ids \X Times -> Nat]
    BY <2>1, <2>3, <2>4
  <2>6. {d.id : d \in D} \subseteq Ids
    BY <1>1 DEF Ids
  <2>7. WheelTypeOK'
    <3> HIDE DEF D
    <3>1. wheel' \in [at : {"copy", "sleep", "send"}, now : Times, copy : SUBSET Definitions,
                      due : SUBSET Ids]
      BY <2>1, <2>6 DEF WheelInv, WheelTypeOK
    <3> QED
      BY <2>1, <2>5, <3>1 DEF WheelInv, WheelTypeOK
  \* What is fired now has come this second, and was not fired yet.
  <2>8. ASSUME NEW f \in DOMAIN fires, Of(f) # {}
        PROVE  f[2] \in Nat /\ f[2] <= clock /\ fires[f] = 0
    <3>1. PICK d \in wheel.copy : Due(d, clock) /\ f[2] \in NextFire(d, wheel.now)
      BY <2>8 DEF Of
    <3>2. d.times \subseteq Nat
      BY <1>1, DutiesAssumption DEF Definition
    <3>3. f[2] \in d.times /\ f[2] > wheel.now
      BY <3>1 DEF NextFire, Following
    <3>4. PICK t \in NextFire(d, wheel.now) : t <= clock
      BY <3>1 DEF Due
    <3>5. t \in Nat /\ f[2] <= t
      BY <3>1, <3>2, <3>4 DEF NextFire, Following
    <3>6. f[2] <= clock
      BY <1>1, <3>2, <3>3, <3>4, <3>5
    <3> QED
      BY <2>1, <3>2, <3>3, <3>6 DEF WheelInv, Unslept
  <2>9. ASSUME NEW f \in DOMAIN fires PROVE fires'[f] <= 1 /\ (f[2] > clock => fires'[f] = 0)
    <3>1. fires'[f] = fires[f] + Cardinality(Of(f)) /\ fires[f] \in Nat /\ fires[f] <= 1
          /\ (f[2] > clock => fires[f] = 0)
      BY <2>1, <2>4 DEF WheelInv, OncePerTime
    <3>2. CASE Of(f) = {}
      BY <2>3, <3>1, <3>2
    <3>3. CASE Of(f) # {}
      BY <1>1, <2>3, <2>8, <3>1, <3>3
    <3> QED
      BY <3>2, <3>3
  <2>10. ASSUME NEW p \in Passed PROVE fires'[p] = 1
    <3>0. PICK d \in wheel.copy :
            \E t \in d.times : p = <<d.id, t>> /\ wheel.now < t /\ t <= clock
      BY PassedTimes DEF WheelInv
    <3>1. PICK t \in d.times : p = <<d.id, t>> /\ wheel.now < t /\ t <= clock
      BY <3>0
    <3>2. d \in Definitions /\ d.times \subseteq Nat
      BY <1>1, DutiesAssumption DEF Definition
    <3>3. t = clock
      BY <1>1, <2>1, <3>1, <3>2 DEF WheelInv, Unslept
    <3>4. \A u \in Following(d, wheel.now) : t <= u
      BY <1>1, <2>1, <3>1, <3>2, <3>3 DEF WheelInv, Unslept, Following
    <3>5. t \in NextFire(d, wheel.now)
      BY <3>1, <3>4 DEF NextFire, Following
    <3>6. d \in Of(p)
      BY <3>1, <3>5 DEF Of, Due
    <3>7. p \in DOMAIN fires
      BY <2>4, PassedTimes DEF WheelInv
    <3> QED
      BY <2>1, <2>3, <2>8, <3>6, <3>7
  <2>11. Passed' = Passed
    BY <2>1, <2>2 DEF Passed
  <2>12. (WheelIsCurrent /\ Unslept /\ OncePerTime /\ Answered)'
    BY <2>1, <2>2, <2>9, <2>10, <2>11 DEF WheelIsCurrent, Unslept, OncePerTime, Answered
  <2> QED
    BY <1>0, <2>2, <2>7, <2>12 DEF WheelInv
<1>5. CASE SendFired
  <2>1. PICK id \in wheel.due :
          /\ channel' = Append(channel, [id |-> id, post |-> 0])
          /\ wheel' = [wheel EXCEPT !.due = @ \ {id},
                                    !.at = IF wheel.due = {id} THEN "copy" ELSE @]
    BY <1>5 DEF SendFired
  <2>2. wheel.at = "send" /\ Len(channel) < Capacity /\ UNCHANGED <<dutyVars, clock, fires, excused>>
    BY <1>5 DEF SendFired
  <2>3. wheel'.at \in {"send", "copy"} /\ wheel'.now = wheel.now /\ wheel'.copy = wheel.copy
        /\ wheel' \in [at : {"copy", "sleep", "send"}, now : Times, copy : SUBSET Definitions,
                       due : SUBSET Ids]
    BY <2>1, <2>2 DEF WheelInv, WheelTypeOK
  <2>4. [id |-> id, post |-> 0] \in Trigger
    BY DEF Trigger, WheelInv, WheelTypeOK
  <2>5. channel' \in Seq(Trigger) /\ Len(channel') <= Capacity
    BY <1>1, <2>1, <2>2, <2>4
  <2>6. WheelTypeOK'
    BY <2>2, <2>3, <2>5 DEF WheelInv, WheelTypeOK, Trigger
  <2>7. Passed' = Passed
    BY <2>2, <2>3 DEF Passed
  <2>8. (WheelIsCurrent /\ Unslept /\ OncePerTime /\ Answered)'
    BY <2>2, <2>3, <2>7 DEF WheelInv, WheelIsCurrent, Unslept, OncePerTime, Answered
  <2> QED
    BY <1>0, <2>3, <2>6, <2>8 DEF WheelInv
<1>6. CASE WheelTick
  <2>1. /\ clock < MaxTime /\ clock' = clock + 1
        /\ wheel.at = "sleep" => \A d \in wheel.copy : ~Due(d, clock)
        /\ excused' = excused \cup
             (IF wheel.at = "sleep" THEN {} ELSE {d.id : d \in wheel.copy} \X {clock'})
        /\ UNCHANGED <<dutyVars, wheel, channel, fires>>
    BY <1>6 DEF WheelTick
  <2>2. {d.id : d \in wheel.copy} \subseteq Ids /\ clock' \in Times
    BY <1>1, <2>1 DEF Ids, Times
  <2>3. WheelTypeOK'
    <3>1. excused' \subseteq Ids \X Times
      BY <2>1, <2>2 DEF WheelInv, WheelTypeOK
    <3> QED
      BY <2>1, <2>2, <3>1 DEF WheelInv, WheelTypeOK
  <2>4. OncePerTime'
    <3>1. ASSUME NEW f \in DOMAIN fires PROVE f[2] > clock + 1 => f[2] > clock
      BY <1>1 DEF WheelInv, WheelTypeOK, Times
    <3> QED
      BY <2>1, <3>1 DEF WheelInv, OncePerTime
  <2>5. Unslept'
    <3>1. ASSUME wheel.at = "sleep", NEW d \in wheel.copy, NEW t \in d.times,
                 wheel.now < t, t < clock + 1
          PROVE  FALSE
      <4>1. t \in Nat /\ d \in Definitions
        BY <1>1, DutiesAssumption DEF Definition
      <4>2. PICK u \in NextFire(d, wheel.now) : u <= t
        BY <1>1, <3>1, <4>1, NextComes
      <4>3. u \in Nat
        BY <4>1, <4>2, DutiesAssumption DEF NextFire, Following, Definition
      <4>4. u <= clock
        BY <1>1, <3>1, <4>1, <4>2, <4>3
      <4> QED
        BY <2>1, <3>1, <4>4 DEF Due
    <3> QED
      BY <2>1, <3>1 DEF WheelInv, Unslept
  <2>6. Answered'
    <3> SUFFICES ASSUME wheel.at # "sleep", NEW p \in Passed' PROVE fires[p] = 1 \/ p \in excused'
      BY <2>1 DEF Answered
    <3>0. PICK d \in wheel.copy :
            \E t \in d.times : p = <<d.id, t>> /\ wheel.now < t /\ t <= clock + 1
      BY <2>1 DEF Passed
    <3>1. PICK t \in d.times : p = <<d.id, t>> /\ wheel.now < t /\ t <= clock + 1
      BY <3>0
    <3>2. t \in Nat
      BY <1>1, DutiesAssumption DEF Definition
    <3>3. CASE t = clock + 1
      BY <2>1, <3>1, <3>3
    <3>4. CASE t <= clock
      <4>1. p \in Passed
        BY <3>1, <3>4, PassedTimes DEF WheelInv
      <4> QED
        BY <2>1, <4>1 DEF WheelInv, Answered
    <3> QED
      BY <1>1, <3>1, <3>2, <3>3, <3>4
  <2>7. WheelIsCurrent'
    BY <2>1 DEF WheelInv, WheelIsCurrent, dutyVars
  <2> QED
    BY <1>0, <2>1, <2>3, <2>4, <2>5, <2>6, <2>7 DEF WheelInv
<1>7. CASE WheelBoot
  <2>1. wheel' = [at |-> "copy", now |-> clock, copy |-> {}, due |-> {}] /\ channel' = <<>>
        /\ UNCHANGED <<clock, fires, excused>>
    BY <1>7 DEF WheelBoot, NewWheel
  <2>2. <<>> \in Seq(Trigger) /\ Len(<<>>) = 0
    BY EmptySeq
  <2>3. WheelTypeOK'
    BY <1>1, <2>1, <2>2 DEF WheelInv, WheelTypeOK, Trigger
  <2>4. Passed' = {}
    BY <2>1 DEF Passed
  <2>5. (WheelIsCurrent /\ Unslept /\ OncePerTime /\ Answered)'
    BY <2>1, <2>4 DEF WheelInv, WheelIsCurrent, Unslept, OncePerTime, Answered
  <2> QED
    BY <1>0, <2>1, <2>3, <2>5 DEF WheelInv, UniqueIds
<1>8. CASE Posted
  <2>1. channel' \in Seq(Trigger) /\ Len(channel') <= Capacity
    BY <1>1, <1>8 DEF Posted
  <2> QED
    BY <1>0, <1>8, <1>11, <2>1, CurrentStep, WheelStays DEF Posted
<1>9. CASE Taken
  <2>1. channel' \in Seq(Trigger) /\ Len(channel') <= Capacity
    <3>1. Tail(channel) \in Seq(Trigger) /\ Len(Tail(channel)) = Len(channel) - 1
      BY <1>1, <1>9 DEF Taken
    <3> QED
      BY <1>1, <1>9, <3>1 DEF Taken
  <2> QED
    BY <1>0, <1>9, <1>11, <2>1, CurrentStep, WheelStays DEF Taken
<1>10. CASE UNCHANGED wheelVars
  BY <1>0, <1>1, <1>10, <1>11, CurrentStep, WheelStays DEF wheelVars
<1> QED
  BY <1>0, <1>2, <1>3, <1>4, <1>5, <1>6, <1>7, <1>8, <1>9, <1>10 DEF WheelNext

-----------------------------------------------------------------------------
(* The consumer.                                                            *)

\* The watermark that the call in progress reads with.
Since == IF ingest.duty.cursor THEN cursor[ingest.duty.id] ELSE 0

\* What the call in progress holds, by where it is: only a sensor senses; the items are
\* those right behind the watermark it found, then those behind the one it set; none of
\* them was stored.
Sensing ==
  /\ ingest.at = "idle" => ingest.post = 0
  /\ ingest.at \in {"idle", "secrets"} => ingest.sensed = {}
  /\ ingest.at \in {"secrets", "advance"} => HasSensor(ingest.duty)
  /\ ingest.sensed # {} => HasSensor(ingest.duty)
  /\ ingest.at = "advance" => \E m \in 0 .. MaxItems : ingest.sensed = Since + 1 .. m
  /\ ingest.at \in {"seed", "store"} /\ Watermarked(ingest.duty.id) =>
       \A n \in ingest.sensed :
         n <= cursor[ingest.duty.id] /\ rows[<<ingest.duty.id, n>>].times = 0

\* What was stored is behind the watermark, and was stored once.
Marked ==
  \A d \in Ids, n \in Items : Watermarked(d) =>
    /\ rows[<<d, n>>].times <= 1
    /\ rows[<<d, n>>].times > 0 => n <= cursor[d]

ConsumerInv == ConsumerTypeOK /\ Sensing /\ Marked /\ NothingUnheard

\* What can be hit.
Hits == ({"item"} \X Ids \X Items) \cup ({"post"} \X Posts)

\* The watermark of a run of items is its last; the least of a set of items is one.
LEMMA LastOfRun ==
  ASSUME NEW a \in Nat, NEW m \in Nat, a .. m # {} PROVE Watermark(a .. m) = m
<1>1. m \in a .. m /\ \A y \in a .. m : m >= y
  OBVIOUS
<1>2. \A x \in a .. m : (\A y \in a .. m : x >= y) => x = m
  OBVIOUS
<1>3. (CHOOSE x \in a .. m : \A y \in a .. m : x >= y) = m
  BY <1>1, <1>2, Zenon
<1> QED
  BY <1>3 DEF Watermark, Max

LEMMA LeastSensed == ASSUME NEW S \in SUBSET Nat, S # {} PROVE Min(S) \in S
<1>1. PICK m \in S : \A n \in S : m <= n
  BY LeastNatural
<1> QED
  BY <1>1 DEF Min

\* The call in progress holds its post, and the items it has advanced past.
HeldOK ==
  /\ Held \subseteq Hits
  /\ \A d, n : Item(d, n) \in Held <=>
       ingest.at \in {"seed", "store"} /\ d = ingest.duty.id /\ n \in ingest.sensed
  /\ \A p \in Posts : Post(p) \in Held <=> p = ingest.post

LEMMA HeldIs == ConsumerTypeOK => HeldOK
<1> SUFFICES ASSUME ConsumerTypeOK PROVE HeldOK
  OBVIOUS
<1>1. /\ ingest.post \in 0 .. MaxPosts /\ ingest.duty \in Definitions /\ ingest.sensed \subseteq Items
      /\ MaxPosts \in Nat
  BY IngestAssumption DEF ConsumerTypeOK
<1>2. ingest.duty.id \in Ids
  BY <1>1 DEF Ids
<1>3. {ingest.post} \ {0} \subseteq Posts
  BY <1>1 DEF Posts
<1>4. \A d, n, e, k : Item(d, n) = Item(e, k) => d = e /\ n = k
  BY DEF Item
<1>5. \A d, n, p : Item(d, n) # Post(p)
  BY DEF Item, Post
<1>6. \A p, q : Post(p) = Post(q) => p = q
  BY DEF Post
<1>7. \A p \in Posts : p # 0
  BY DEF Posts
<1>8. \A d \in Ids, n \in Items : Item(d, n) \in Hits
  BY DEF Item, Hits
<1>9. \A p \in Posts : Post(p) \in Hits
  BY DEF Post, Hits
<1>10. Held \subseteq Hits
  BY <1>1, <1>2, <1>3, <1>8, <1>9 DEF Held
<1>11. \A d, n : Item(d, n) \in Held <=>
         ingest.at \in {"seed", "store"} /\ d = ingest.duty.id /\ n \in ingest.sensed
  BY <1>4, <1>5 DEF Held
<1>12. \A p \in Posts : Post(p) \in Held <=> p = ingest.post
  BY <1>5, <1>6, <1>7 DEF Held
<1> QED
  BY <1>10, <1>11, <1>12 DEF HeldOK

LEMMA HeldIsNext == ConsumerTypeOK' => HeldOK'
BY HeldIs, PTL

\* The consumer between two calls.
LEMMA WaitingIs ==
  /\ Waiting \in [at : Stages, duty : Definitions, post : 0 .. MaxPosts, todo : Seq(STRING),
                  sensed : SUBSET Items, ran : Scripts, read : Scripts]
  /\ Waiting.at = "idle" /\ Waiting.post = 0 /\ Waiting.sensed = {}
<1>1. (CHOOSE d \in Definitions : TRUE) \in Definitions
  BY DutiesAssumption
<1>2. <<>> \in Seq(STRING)
  BY EmptySeq
<1>3. 0 \in 0 .. MaxPosts
  BY IngestAssumption
<1> QED
  BY <1>1, <1>2, <1>3 DEF Waiting, Stages, Scripts

LEMMA ConsumerInitial == ASSUME Init PROVE ConsumerInv
<1>1. Ids # {} /\ (CHOOSE d \in Ids : TRUE) \in Ids
  BY DutiesAssumption DEF Ids
<1>2. ConsumerTypeOK
  <2>1. 0 \in 0 .. MaxItems
    BY IngestAssumption
  <2>2. posts \in [Posts -> [at : {"none", "routed", "accepted"}, id : Ids]]
    BY <1>1 DEF Init
  <2>3. rows \in [Ids \X Items -> [times : Nat, tier : Configured]]
    BY IngestAssumption DEF Init, NoRow
  <2>4. cursor \in [Ids -> 0 .. MaxItems]
    BY <2>1 DEF Init
  <2>5. \A n \in DOMAIN channel : channel[n].post <= MaxPosts
    BY DEF Init, WheelInit
  <2> QED
    BY <2>1, <2>2, <2>3, <2>4, <2>5, WaitingIs DEF Init, ConsumerTypeOK
<1>3. Sensing
  BY WaitingIs DEF Init, Sensing
<1>4. Marked
  BY DEF Init, Marked, NoRow
<1>5. NothingUnheard
  <2>1. ASSUME NEW d \in Ids, NEW n \in Items PROVE ~(n <= cursor[d])
    BY <2>1 DEF Init, Items
  <2>2. \A p \in Posts : posts[p].at # "accepted"
    BY DEF Init
  <2> QED
    BY <2>1, <2>2 DEF NothingUnheard
<1> QED
  BY <1>2, <1>3, <1>4, <1>5 DEF ConsumerInv

\* Where a post of the channel goes when a trigger is put into it or taken out.
LEMMA Appended ==
  ASSUME channel \in Seq(Trigger), NEW m \in Trigger, channel' = Append(channel, m)
  PROVE  /\ \A n \in DOMAIN channel : n \in DOMAIN channel' /\ channel'[n] = channel[n]
         /\ \A n \in DOMAIN channel' : channel'[n] = m \/ n \in DOMAIN channel
         /\ \E n \in DOMAIN channel' : channel'[n] = m
<1>1. Len(channel) \in Nat /\ DOMAIN channel = 1 .. Len(channel)
  OBVIOUS
<1>2. DOMAIN channel' = 1 .. Len(channel) + 1
  OBVIOUS
<1>3. channel'[Len(channel) + 1] = m /\ \A n \in 1 .. Len(channel) : channel'[n] = channel[n]
  OBVIOUS
<1> QED
  BY <1>1, <1>2, <1>3

LEMMA Shortened ==
  ASSUME channel \in Seq(Trigger), channel # <<>>, channel' = Tail(channel)
  PROVE  /\ \A n \in DOMAIN channel :
              channel[n] = Head(channel) \/ \E k \in DOMAIN channel' : channel'[k] = channel[n]
         /\ \A n \in DOMAIN channel' : \E k \in DOMAIN channel : channel'[n] = channel[k]
         /\ Head(channel) \in Trigger
         /\ \E k \in DOMAIN channel : Head(channel) = channel[k]
<1>1. Len(channel) \in Nat /\ Len(channel) >= 1 /\ DOMAIN channel = 1 .. Len(channel)
  OBVIOUS
<1>2. DOMAIN channel' = 1 .. Len(channel) - 1 /\ Head(channel) = channel[1]
  OBVIOUS
<1>3. \A n \in 1 .. Len(channel) - 1 : channel'[n] = channel[n + 1]
  OBVIOUS
<1>4. ASSUME NEW n \in DOMAIN channel, n # 1
      PROVE  \E k \in DOMAIN channel' : channel'[k] = channel[n]
  <2>1. n - 1 \in DOMAIN channel' /\ channel'[n - 1] = channel[n]
    BY <1>1, <1>2, <1>3, <1>4
  <2> QED
    BY <2>1
<1>5. ASSUME NEW n \in DOMAIN channel' PROVE \E k \in DOMAIN channel : channel'[n] = channel[k]
  <2>1. n + 1 \in DOMAIN channel /\ channel'[n] = channel[n + 1]
    BY <1>1, <1>2, <1>3
  <2> QED
    BY <2>1
<1> QED
  BY <1>1, <1>2, <1>4, <1>5

\* A step that leaves the call, the watermarks and what was stored alone keeps the
\* invariant, if it loses no post on its way.
LEMMA ConsumerStays ==
  ASSUME ConsumerInv, UNCHANGED <<cursor, ingest, rows, kept, hit>>, world' \in 0 .. MaxItems,
         posts' \in [Posts -> [at : {"none", "routed", "accepted"}, id : Ids]],
         \A n \in DOMAIN channel' : channel'[n].post <= MaxPosts,
         \A n \in DOMAIN channel : \E k \in DOMAIN channel' : channel'[k] = channel[n],
         \A p \in Posts : posts'[p].at = "accepted" =>
           posts[p].at = "accepted" \/ \E k \in DOMAIN channel' : channel'[k].post = p
  PROVE  ConsumerInv'
<1>1. ConsumerTypeOK'
  BY DEF ConsumerInv, ConsumerTypeOK
<1>2. Sensing' /\ Marked'
  BY DEF ConsumerInv, Sensing, Since, Marked
<1>3. Held' = Held
  BY DEF Held
<1>4. NothingUnheard'
  <2>1. ASSUME NEW d \in Ids, NEW n \in Items, n <= cursor'[d]
        PROVE  rows'[<<d, n>>].times > 0 \/ Item(d, n) \in hit' \cup Held'
    BY <1>3, <2>1 DEF ConsumerInv, NothingUnheard
  <2>2. ASSUME NEW p \in Posts, posts'[p].at = "accepted"
        PROVE  p \in kept' \/ Post(p) \in hit' \cup Held' \/ \E n \in DOMAIN channel' : channel'[n].post = p
    BY <1>3, <2>2 DEF ConsumerInv, NothingUnheard
  <2> QED
    BY <2>1, <2>2 DEF NothingUnheard
<1> QED
  BY <1>1, <1>2, <1>4 DEF ConsumerInv

\* A call that ends: what it held was stored, or is hit.
LEMMA CallEnds ==
  ASSUME ConsumerInv, ingest' = Waiting, UNCHANGED <<world, posts, channel, cursor, rows>>,
         kept' \in SUBSET Posts, kept \subseteq kept', hit' \in SUBSET Hits, hit \subseteq hit',
         \A d \in Ids, n \in Items : Item(d, n) \in Held => Item(d, n) \in hit',
         \A p \in Posts : Post(p) \in Held => p \in kept' \/ Post(p) \in hit'
  PROVE  ConsumerInv'
<1>1. ConsumerTypeOK'
  BY WaitingIs DEF ConsumerInv, ConsumerTypeOK, Hits
<1>2. Sensing'
  BY WaitingIs DEF ConsumerInv, Sensing
<1>3. Marked'
  BY DEF ConsumerInv, Marked
<1>4. NothingUnheard'
  <2>1. ASSUME NEW d \in Ids, NEW n \in Items, n <= cursor'[d]
        PROVE  rows'[<<d, n>>].times > 0 \/ Item(d, n) \in hit'
    BY <2>1 DEF ConsumerInv, NothingUnheard
  <2>2. ASSUME NEW p \in Posts, posts'[p].at = "accepted"
        PROVE  p \in kept' \/ Post(p) \in hit' \/ \E n \in DOMAIN channel' : channel'[n].post = p
    BY <2>2 DEF ConsumerInv, NothingUnheard
  <2> QED
    BY <2>1, <2>2 DEF NothingUnheard
<1> QED
  BY <1>1, <1>2, <1>3, <1>4 DEF ConsumerInv

\* A step within a call that keeps what it holds.
LEMMA CallGoesOn ==
  ASSUME ConsumerInv, ConsumerTypeOK', Sensing',
         UNCHANGED <<posts, channel, cursor, rows, kept, hit>>,
         \A d \in Ids, n \in Items : Item(d, n) \in Held => Item(d, n) \in Held',
         ingest'.post = ingest.post
  PROVE  ConsumerInv'
<1>1. Marked'
  BY DEF ConsumerInv, Marked
<1>2. \A p \in Posts : Post(p) \in Held => Post(p) \in Held'
  BY HeldIs, HeldIsNext DEF ConsumerInv, HeldOK
<1>3. NothingUnheard'
  <2>1. ASSUME NEW d \in Ids, NEW n \in Items, n <= cursor'[d]
        PROVE  rows'[<<d, n>>].times > 0 \/ Item(d, n) \in hit' \cup Held'
    BY <2>1 DEF ConsumerInv, NothingUnheard
  <2>2. ASSUME NEW p \in Posts, posts'[p].at = "accepted"
        PROVE  p \in kept' \/ Post(p) \in hit' \cup Held' \/ \E n \in DOMAIN channel' : channel'[n].post = p
    BY <1>2, <2>2 DEF ConsumerInv, NothingUnheard
  <2> QED
    BY <2>1, <2>2 DEF NothingUnheard
<1> QED
  BY <1>1, <1>3 DEF ConsumerInv

\* What the other actors do, and that it loses no post.
OthersNext ==
  \/ (EditStimuli \/ EditScript) /\ UNCHANGED <<wheelVars, ingestVars>>
  \/ Watch /\ UNCHANGED <<wheelVars, ingestVars, accidents>>
  \/ (\E r \in reloads : Reload(r)) /\ UNCHANGED <<wheelVars, ingestVars, accidents>>
  \/ (Wheel \/ WheelTick) /\ UNCHANGED <<ingestVars, accidents>>
  \/ \E p \in Posts : RoutePost(p) \/ AcceptPost(p)
  \/ NewItem
  \/ UNCHANGED vars

LEMMA OthersStep ==
  ASSUME ConsumerInv, WheelTypeOK, DutiesTypeOK, OthersNext PROVE ConsumerInv'
<1>1. /\ UNCHANGED <<cursor, ingest, rows, kept, hit>>
      /\ world' = world \/ (world < MaxItems /\ world' = world + 1)
  BY DEF OthersNext, wheelVars, ingestVars, RoutePost, AcceptPost, NewItem, vars
<1>2. world' \in 0 .. MaxItems
  BY <1>1, IngestAssumption DEF ConsumerInv, ConsumerTypeOK
<1>3. /\ channel \in Seq(Trigger) /\ MaxPosts \in Nat
      /\ posts \in [Posts -> [at : {"none", "routed", "accepted"}, id : Ids]]
      /\ \A n \in DOMAIN channel : channel[n].post <= MaxPosts
  BY IngestAssumption DEF WheelTypeOK, Trigger, ConsumerInv, ConsumerTypeOK
<1>4. CASE UNCHANGED <<channel, posts>>
  BY <1>1, <1>2, <1>3, <1>4, ConsumerStays
<1>5. CASE SendFired /\ UNCHANGED ingestVars
  <2>1. PICK id \in wheel.due : channel' = Append(channel, [id |-> id, post |-> 0])
    BY <1>5 DEF SendFired
  <2> DEFINE m == [id |-> id, post |-> 0]
  <2>2. m \in Trigger /\ m.post <= MaxPosts
    BY <1>3 DEF WheelTypeOK, Trigger
  <2>3. UNCHANGED posts
    BY <1>5 DEF ingestVars
  <2> HIDE DEF m
  <2>4. /\ \A n \in DOMAIN channel : n \in DOMAIN channel' /\ channel'[n] = channel[n]
        /\ \A n \in DOMAIN channel' : channel'[n] = m \/ n \in DOMAIN channel
    BY <1>3, <2>1, <2>2, Appended DEF m
  <2>5. \A n \in DOMAIN channel' : channel'[n].post <= MaxPosts
    BY <1>3, <2>2, <2>4
  <2>6. \A n \in DOMAIN channel : \E k \in DOMAIN channel' : channel'[k] = channel[n]
    BY <2>4
  <2> QED
    BY <1>1, <1>2, <1>3, <2>3, <2>5, <2>6, ConsumerStays
<1>6. ASSUME NEW p \in Posts, RoutePost(p) PROVE ConsumerInv'
  <2>1. PICK d \in routes : posts' = [posts EXCEPT ![p] = [at |-> "routed", id |-> d.id]]
    BY <1>6 DEF RoutePost
  <2>2. d.id \in Ids /\ channel' = channel
    BY <1>6 DEF RoutePost, wheelVars, DutiesTypeOK, Ids
  <2>3. posts' \in [Posts -> [at : {"none", "routed", "accepted"}, id : Ids]]
    BY <1>3, <2>1, <2>2
  <2>4. \A q \in Posts : posts'[q].at = "accepted" => posts[q].at = "accepted"
    BY <1>3, <2>1
  <2> QED
    BY <1>1, <1>2, <1>3, <2>2, <2>3, <2>4, ConsumerStays
<1>7. ASSUME NEW p \in Posts, AcceptPost(p) PROVE ConsumerInv'
  <2> DEFINE m == [id |-> posts[p].id, post |-> p]
  <2>1. channel' = Append(channel, m) /\ posts' = [posts EXCEPT ![p].at = "accepted"]
    BY <1>7 DEF AcceptPost
  <2>2. m \in Trigger /\ m.post <= MaxPosts /\ m.post = p
    BY <1>3 DEF Trigger, Posts
  <2>3. posts' \in [Posts -> [at : {"none", "routed", "accepted"}, id : Ids]]
        /\ \A q \in Posts : posts'[q].at = "accepted" => posts[q].at = "accepted" \/ q = p
    BY <1>3, <2>1
  <2> HIDE DEF m
  <2>4. /\ \A n \in DOMAIN channel : n \in DOMAIN channel' /\ channel'[n] = channel[n]
        /\ \A n \in DOMAIN channel' : channel'[n] = m \/ n \in DOMAIN channel
        /\ \E n \in DOMAIN channel' : channel'[n] = m
    BY <1>3, <2>1, <2>2, Appended
  <2>5. \A n \in DOMAIN channel' : channel'[n].post <= MaxPosts
    BY <1>3, <2>2, <2>4
  <2>6. \A n \in DOMAIN channel : \E k \in DOMAIN channel' : channel'[k] = channel[n]
    BY <2>4
  <2>7. \E k \in DOMAIN channel' : channel'[k].post = p
    BY <2>2, <2>4
  <2> QED
    BY <1>1, <1>2, <1>3, <2>3, <2>5, <2>6, <2>7, ConsumerStays
<1> QED
  BY <1>4, <1>5, <1>6, <1>7
  DEF OthersNext, wheelVars, ingestVars, Wheel, CopySchedule, Notified, Wake, WheelTick, NewItem, vars

\* The steps of the consumer, one by one.
LEMMA TakeGoneStep == ASSUME ConsumerInv, WheelTypeOK, TakeGone PROVE ConsumerInv'
<1> DEFINE head == Head(channel)
<1>1. /\ ingest.at = "idle" /\ channel # <<>> /\ channel' = Tail(channel)
      /\ hit' = hit \cup {Post(p) : p \in {head.post} \ {0}}
      /\ UNCHANGED <<ingest, cursor, rows, kept, posts, world>>
  BY DEF TakeGone, outside
<1>2. channel \in Seq(Trigger) /\ MaxPosts \in Nat
  BY IngestAssumption DEF WheelTypeOK, Trigger
<1>3. /\ \A n \in DOMAIN channel :
           channel[n] = head \/ \E k \in DOMAIN channel' : channel'[k] = channel[n]
      /\ \A n \in DOMAIN channel' : \E k \in DOMAIN channel : channel'[n] = channel[k]
      /\ head \in Trigger
      /\ \E k \in DOMAIN channel : head = channel[k]
  BY <1>1, <1>2, Shortened
<1> HIDE DEF head
<1>4. \A n \in DOMAIN channel' : channel'[n].post <= MaxPosts
  BY <1>3 DEF ConsumerInv, ConsumerTypeOK
<1>5. head.post \in Nat /\ head.post <= MaxPosts
  BY <1>3 DEF ConsumerInv, ConsumerTypeOK, Trigger
<1>6. {Post(p) : p \in {head.post} \ {0}} \subseteq Hits
  BY <1>2, <1>5 DEF Post, Posts, Hits
<1>7. ConsumerTypeOK'
  BY <1>1, <1>4, <1>6 DEF ConsumerInv, ConsumerTypeOK, Hits
<1>8. Sensing' /\ Marked'
  BY <1>1 DEF ConsumerInv, Sensing, Since, Marked
<1>9. Held' = Held
  BY <1>1 DEF Held
<1>10. NothingUnheard'
  <2>1. ASSUME NEW d \in Ids, NEW n \in Items, n <= cursor'[d]
        PROVE  rows'[<<d, n>>].times > 0 \/ Item(d, n) \in hit' \cup Held'
    BY <1>1, <1>9, <2>1 DEF ConsumerInv, NothingUnheard
  <2>2. ASSUME NEW p \in Posts, posts'[p].at = "accepted"
        PROVE  p \in kept' \/ Post(p) \in hit' \cup Held' \/ \E n \in DOMAIN channel' : channel'[n].post = p
    <3>1. p \in kept \/ Post(p) \in hit \cup Held \/ \E n \in DOMAIN channel : channel[n].post = p
      BY <1>1, <2>2 DEF ConsumerInv, NothingUnheard
    <3>2. p # 0
      BY DEF Posts
    <3>3. CASE head.post = p
      BY <1>1, <3>2, <3>3
    <3>4. CASE head.post # p
      BY <1>1, <1>3, <1>9, <3>1, <3>4
    <3> QED
      BY <3>3, <3>4
  <2> QED
    BY <2>1, <2>2 DEF NothingUnheard
<1> QED
  BY <1>7, <1>8, <1>10 DEF ConsumerInv

LEMMA TakeStep ==
  ASSUME ConsumerInv, WheelTypeOK, NEW d \in Definitions, Take(d) PROVE ConsumerInv'
<1> DEFINE head == Head(channel)
<1>1. /\ ingest.at = "idle" /\ channel # <<>> /\ channel' = Tail(channel)
      /\ ingest' = [Waiting EXCEPT !.duty = d, !.post = head.post, !.todo = d.secrets,
                                   !.at = IF HasSensor(d) THEN "secrets" ELSE "seed"]
      /\ UNCHANGED <<cursor, rows, kept, hit, posts, world>>
  BY DEF Take, outside
<1>2. channel \in Seq(Trigger) /\ MaxPosts \in Nat
  BY IngestAssumption DEF WheelTypeOK, Trigger
<1>3. /\ \A n \in DOMAIN channel :
           channel[n] = head \/ \E k \in DOMAIN channel' : channel'[k] = channel[n]
      /\ \A n \in DOMAIN channel' : \E k \in DOMAIN channel : channel'[n] = channel[k]
      /\ head \in Trigger
      /\ \E k \in DOMAIN channel : head = channel[k]
  BY <1>1, <1>2, Shortened
<1> HIDE DEF head
<1>4. \A n \in DOMAIN channel' : channel'[n].post <= MaxPosts
  BY <1>3 DEF ConsumerInv, ConsumerTypeOK
<1>5. head.post \in 0 .. MaxPosts
  BY <1>2, <1>3 DEF ConsumerInv, ConsumerTypeOK, Trigger
<1>6. /\ ingest' \in [at : Stages, duty : Definitions, post : 0 .. MaxPosts, todo : Seq(STRING),
                      sensed : SUBSET Items, ran : Scripts, read : Scripts]
      /\ ingest'.at = (IF HasSensor(d) THEN "secrets" ELSE "seed")
      /\ ingest'.duty = d /\ ingest'.post = head.post /\ ingest'.sensed = {}
  <2>1. d.secrets \in Seq(STRING)
    BY DutiesAssumption DEF Definition
  <2>2. Waiting.sensed = {}
    BY WaitingIs
  <2> QED
    BY <1>1, <1>5, <2>1, <2>2, WaitingIs DEF Stages
<1>7. ConsumerTypeOK'
  BY <1>1, <1>4, <1>6 DEF ConsumerInv, ConsumerTypeOK
<1>8. Sensing' /\ Marked'
  BY <1>1, <1>6 DEF ConsumerInv, Sensing, Marked
<1>9. HeldOK /\ HeldOK'
  BY <1>7, HeldIs, HeldIsNext DEF ConsumerInv
<1>10. NothingUnheard'
  <2>1. ASSUME NEW e \in Ids, NEW n \in Items, n <= cursor'[e]
        PROVE  rows'[<<e, n>>].times > 0 \/ Item(e, n) \in hit' \cup Held'
    BY <1>1, <1>9, <2>1 DEF ConsumerInv, NothingUnheard, HeldOK
  <2>2. ASSUME NEW p \in Posts, posts'[p].at = "accepted"
        PROVE  p \in kept' \/ Post(p) \in hit' \cup Held' \/ \E n \in DOMAIN channel' : channel'[n].post = p
    <3>1. p \in kept \/ Post(p) \in hit \cup Held \/ \E n \in DOMAIN channel : channel[n].post = p
      BY <1>1, <2>2 DEF ConsumerInv, NothingUnheard
    <3>2. p # 0 /\ Post(p) \notin Held
      BY <1>1, <1>9 DEF Posts, ConsumerInv, Sensing, HeldOK
    <3>3. CASE head.post = p
      BY <1>6, <1>9, <3>3 DEF HeldOK
    <3>4. CASE head.post # p
      BY <1>1, <1>3, <3>1, <3>2, <3>4
    <3> QED
      BY <3>3, <3>4
  <2> QED
    BY <2>1, <2>2 DEF NothingUnheard
<1> QED
  BY <1>7, <1>8, <1>10 DEF ConsumerInv

LEMMA MaterializeStep == ASSUME ConsumerInv, MaterializeSecret PROVE ConsumerInv'
<1>1. /\ ingest.at = "secrets" /\ ingest.todo # <<>>
      /\ ingest' = [ingest EXCEPT !.todo = Tail(@)]
      /\ UNCHANGED <<posts, channel, cursor, rows, kept, hit, world>>
  BY DEF MaterializeSecret, outside
<1>2. /\ ingest' \in [at : Stages, duty : Definitions, post : 0 .. MaxPosts, todo : Seq(STRING),
                      sensed : SUBSET Items, ran : Scripts, read : Scripts]
      /\ ingest'.at = "secrets" /\ ingest'.duty = ingest.duty /\ ingest'.post = ingest.post
      /\ ingest'.sensed = ingest.sensed
  <2>1. Tail(ingest.todo) \in Seq(STRING)
    BY <1>1 DEF ConsumerInv, ConsumerTypeOK
  <2> QED
    BY <1>1, <2>1 DEF ConsumerInv, ConsumerTypeOK
<1>3. ConsumerTypeOK'
  BY <1>1, <1>2 DEF ConsumerInv, ConsumerTypeOK
<1>4. Sensing'
  BY <1>1, <1>2 DEF ConsumerInv, Sensing
<1>5. \A d \in Ids, n \in Items : Item(d, n) \notin Held
  BY <1>1, HeldIs DEF ConsumerInv, HeldOK
<1> QED
  BY <1>1, <1>2, <1>3, <1>4, <1>5, CallGoesOn

\* A call that fails: what it held is hit.
LEMMA EndsErrStep ==
  ASSUME ConsumerInv, EndsErr, UNCHANGED <<world, posts, channel, cursor, rows, kept>>
  PROVE  ConsumerInv'
<1>1. ingest' = Waiting /\ hit' = hit \cup Held
  BY DEF EndsErr
<1>2. Held \subseteq Hits /\ hit \subseteq Hits /\ kept \subseteq Posts
  BY HeldIs DEF ConsumerInv, ConsumerTypeOK, HeldOK, Hits
<1> QED
  BY <1>1, <1>2, CallEnds

\* A call that ends well holds its post alone.
LEMMA EndsOkStep ==
  ASSUME ConsumerInv, EndsOk, UNCHANGED <<world, posts, channel, cursor, rows, hit>>,
         ingest.sensed = {}
  PROVE  ConsumerInv'
<1>1. ingest' = Waiting /\ kept' = kept \cup ({ingest.post} \ {0})
  BY DEF EndsOk
<1>2. HeldOK /\ hit \subseteq Hits /\ kept \subseteq Posts /\ ingest.post \in 0 .. MaxPosts
      /\ MaxPosts \in Nat
  BY HeldIs, IngestAssumption DEF ConsumerInv, ConsumerTypeOK, Hits
<1>3. kept' \in SUBSET Posts
  <2>1. {ingest.post} \ {0} \subseteq Posts
    BY <1>2 DEF Posts
  <2> QED
    BY <1>1, <1>2, <2>1
<1>4. \A p \in Posts : Post(p) \in Held => p \in kept'
  BY <1>1, <1>2 DEF HeldOK, Posts
<1>5. \A d \in Ids, n \in Items : Item(d, n) \notin Held
  BY <1>2 DEF HeldOK
<1> QED
  BY <1>1, <1>2, <1>3, <1>4, <1>5, CallEnds

LEMMA SecretFailsStep == ASSUME ConsumerInv, SecretFails PROVE ConsumerInv'
BY EndsErrStep DEF SecretFails, outside

LEMMA CallFailsStep == ASSUME ConsumerInv, CallFails PROVE ConsumerInv'
BY EndsErrStep DEF CallFails, outside

LEMMA StoreOtherStep == ASSUME ConsumerInv, StoreOther PROVE ConsumerInv'
BY EndsOkStep DEF StoreOther, outside

LEMMA SenseStep == ASSUME ConsumerInv, DutiesTypeOK, Sense PROVE ConsumerInv'
<1>1. /\ ingest.at = "secrets"
      /\ ingest' = [ingest EXCEPT !.at = "advance", !.ran = script, !.sensed = Since + 1 .. world]
      /\ UNCHANGED <<posts, channel, cursor, rows, kept, hit, world>>
  BY DEF Sense, outside, Since
<1>2. Since \in Nat /\ world \in Nat /\ world <= MaxItems /\ MaxItems \in Nat /\ script \in Scripts
  BY IngestAssumption DEF ConsumerInv, ConsumerTypeOK, Since, Ids, DutiesTypeOK
<1>3. Since + 1 .. world \subseteq Items
  BY <1>2 DEF Items
<1> HIDE DEF Since
<1>4. /\ ingest' \in [at : Stages, duty : Definitions, post : 0 .. MaxPosts, todo : Seq(STRING),
                      sensed : SUBSET Items, ran : Scripts, read : Scripts]
      /\ ingest'.at = "advance" /\ ingest'.duty = ingest.duty /\ ingest'.post = ingest.post
      /\ ingest'.sensed = Since + 1 .. world
  BY <1>1, <1>2, <1>3 DEF ConsumerInv, ConsumerTypeOK, Stages
<1>5. ConsumerTypeOK'
  BY <1>1, <1>4 DEF ConsumerInv, ConsumerTypeOK
<1>6. Since' = Since
  BY <1>1, <1>4 DEF Since
<1>7. Sensing'
  BY <1>1, <1>2, <1>4, <1>6 DEF ConsumerInv, Sensing
<1>8. \A d \in Ids, n \in Items : Item(d, n) \notin Held
  BY <1>1, HeldIs DEF ConsumerInv, HeldOK
<1> QED
  BY <1>1, <1>4, <1>5, <1>7, <1>8, CallGoesOn

LEMMA ReadScriptStep == ASSUME ConsumerInv, DutiesTypeOK, ReadScript PROVE ConsumerInv'
<1>1. ingest.at = "seed" /\ UNCHANGED <<posts, channel, cursor, rows, hit, world, script>>
  BY DEF ReadScript, outside, dutyVars
<1>2. CASE HasSensor(ingest.duty) /\ ingest.sensed = {}
  BY <1>1, <1>2, EndsOkStep DEF ReadScript
<1>3. CASE ~(HasSensor(ingest.duty) /\ ingest.sensed = {})
  <2>1. ingest' = [ingest EXCEPT !.at = "store", !.read = script] /\ UNCHANGED kept
    BY <1>3 DEF ReadScript
  <2>2. /\ ingest' \in [at : Stages, duty : Definitions, post : 0 .. MaxPosts, todo : Seq(STRING),
                        sensed : SUBSET Items, ran : Scripts, read : Scripts]
        /\ ingest'.at = "store" /\ ingest'.duty = ingest.duty /\ ingest'.post = ingest.post
        /\ ingest'.sensed = ingest.sensed
    BY <2>1 DEF ConsumerInv, ConsumerTypeOK, DutiesTypeOK, Stages
  <2>3. ConsumerTypeOK'
    BY <1>1, <2>1, <2>2 DEF ConsumerInv, ConsumerTypeOK
  <2>4. Sensing'
    BY <1>1, <2>2 DEF ConsumerInv, Sensing
  <2>5. \A d \in Ids, n \in Items : Item(d, n) \in Held => Item(d, n) \in Held'
    <3>1. HeldOK /\ HeldOK'
      BY <2>3, HeldIs, HeldIsNext DEF ConsumerInv
    <3> QED
      BY <2>2, <3>1 DEF HeldOK
  <2> QED
    BY <1>1, <2>1, <2>2, <2>3, <2>4, <2>5, CallGoesOn
<1> QED
  BY <1>2, <1>3

\* The watermark passes what was sensed, and what was sensed is then in hand.
LEMMA AdvanceStep == ASSUME ConsumerInv, AdvanceCursor PROVE ConsumerInv'
<1> DEFINE id == ingest.duty.id
<1>1. /\ ingest.at = "advance" /\ ingest' = [ingest EXCEPT !.at = "seed"]
      /\ cursor' = IF ingest.duty.cursor /\ ingest.sensed # {}
                   THEN [cursor EXCEPT ![id] = Watermark(ingest.sensed)] ELSE cursor
      /\ UNCHANGED <<posts, channel, rows, kept, hit, world>>
  BY DEF AdvanceCursor, outside
<1>2. id \in Ids /\ cursor \in [Ids -> 0 .. MaxItems] /\ MaxItems \in Nat
      /\ rows \in [Ids \X Items -> [times : Nat, tier : Configured]]
  BY IngestAssumption DEF ConsumerInv, ConsumerTypeOK, Ids
<1>3. PICK m \in 0 .. MaxItems : ingest.sensed = Since + 1 .. m
  BY <1>1 DEF ConsumerInv, Sensing
<1>4. /\ ingest' \in [at : Stages, duty : Definitions, post : 0 .. MaxPosts, todo : Seq(STRING),
                      sensed : SUBSET Items, ran : Scripts, read : Scripts]
      /\ ingest'.at = "seed" /\ ingest'.duty = ingest.duty /\ ingest'.post = ingest.post
      /\ ingest'.sensed = ingest.sensed
  BY <1>1 DEF ConsumerInv, ConsumerTypeOK, Stages
<1>5. HasSensor(ingest.duty)
  BY <1>1 DEF ConsumerInv, Sensing
<1> HIDE DEF id
\* Whether it is moved or not: a watermark that is moved goes from c to m.
<1>6. CASE ~(ingest.duty.cursor /\ ingest.sensed # {})
  <2>1. cursor' = cursor
    BY <1>1, <1>6
  <2>2. ConsumerTypeOK'
    BY <1>1, <1>4, <2>1 DEF ConsumerInv, ConsumerTypeOK
  <2>3. Watermarked(id) => ingest.sensed = {}
    BY <1>5, <1>6 DEF Watermarked, ConsumerInv, ConsumerTypeOK, id
  <2>4. Sensing'
    BY <1>1, <1>4, <1>5, <2>1, <2>3 DEF Sensing, id
  <2>5. \A d \in Ids, n \in Items : Item(d, n) \notin Held
    BY <1>1, HeldIs DEF ConsumerInv, HeldOK
  <2> QED
    BY <1>1, <1>4, <2>1, <2>2, <2>4, <2>5, CallGoesOn
<1>7. CASE ingest.duty.cursor /\ ingest.sensed # {}
  <2> DEFINE c == cursor[id]
  <2>1. c \in Nat /\ m \in Nat /\ ingest.sensed = c + 1 .. m
    BY <1>2, <1>3, <1>7 DEF Since, id
  <2>2. c + 1 <= m /\ Watermark(ingest.sensed) = m
    <3>1. c + 1 .. m # {}
      BY <1>7, <2>1
    <3>2. Watermark(c + 1 .. m) = m
      BY <2>1, <3>1, LastOfRun
    <3> QED
      BY <2>1, <3>1, <3>2
  <2>3. cursor' = [cursor EXCEPT ![id] = m]
    BY <1>1, <1>7, <2>2
  <2>4. cursor' \in [Ids -> 0 .. MaxItems] /\ cursor'[id] = m
        /\ \A d \in Ids : d # id => cursor'[d] = cursor[d]
    BY <1>2, <1>3, <2>3
  <2>5. ConsumerTypeOK'
    BY <1>1, <1>4, <2>4 DEF ConsumerInv, ConsumerTypeOK
  <2>6. \A n \in Items : n \in Nat
    BY DEF Items
  <2> HIDE DEF c
  <2>7. Marked'
    <3> SUFFICES ASSUME NEW d \in Ids, NEW n \in Items, Watermarked(d)
                 PROVE  rows[<<d, n>>].times <= 1 /\ (rows[<<d, n>>].times > 0 => n <= cursor'[d])
      BY <1>1 DEF Marked, Watermarked
    <3>1. rows[<<d, n>>].times <= 1 /\ (rows[<<d, n>>].times > 0 => n <= cursor[d])
      BY DEF ConsumerInv, Marked
    <3>2. d = id => (n <= cursor[d] => n <= m)
      BY <2>1, <2>2, <2>6 DEF c
    <3> QED
      BY <2>4, <3>1, <3>2
  <2>8. Sensing'
    <3> SUFFICES ASSUME Watermarked(id), NEW n \in ingest.sensed
                 PROVE  n <= m /\ rows[<<id, n>>].times = 0
      BY <1>1, <1>4, <1>5, <2>4 DEF Sensing, id
    <3>1. n \in Items /\ n \in Nat /\ n <= m /\ ~(n <= c)
      BY <1>4, <2>1, <2>6
    <3>2. rows[<<id, n>>].times \in Nat /\ ~(rows[<<id, n>>].times > 0)
      BY <1>2, <3>1 DEF ConsumerInv, Marked, c
    <3> QED
      BY <3>1, <3>2
  <2>9. HeldOK /\ HeldOK'
    BY <2>5, HeldIs, HeldIsNext DEF ConsumerInv
  <2>10. NothingUnheard'
    <3>1. ASSUME NEW d \in Ids, NEW n \in Items, n <= cursor'[d]
          PROVE  rows'[<<d, n>>].times > 0 \/ Item(d, n) \in hit' \cup Held'
      <4>1. Item(d, n) \notin Held
        BY <1>1, <2>9 DEF HeldOK
      <4>2. CASE n <= cursor[d]
        BY <1>1, <4>1, <4>2 DEF ConsumerInv, NothingUnheard
      <4>3. CASE ~(n <= cursor[d])
        <5>1. d = id
          BY <2>4, <3>1, <4>3
        <5>2. n \in c + 1 .. m
          BY <2>1, <2>4, <2>6, <3>1, <4>3, <5>1 DEF c
        <5> QED
          BY <1>4, <2>1, <2>9, <5>1, <5>2 DEF HeldOK, id
      <4> QED
        BY <4>2, <4>3
    <3>2. ASSUME NEW p \in Posts, posts'[p].at = "accepted"
          PROVE  p \in kept' \/ Post(p) \in hit' \cup Held'
                   \/ \E n \in DOMAIN channel' : channel'[n].post = p
      <4>1. Post(p) \in Held => Post(p) \in Held'
        BY <1>4, <2>9 DEF HeldOK
      <4> QED
        BY <1>1, <3>2, <4>1 DEF ConsumerInv, NothingUnheard
    <3> QED
      BY <3>1, <3>2 DEF NothingUnheard
  <2> QED
    BY <2>5, <2>7, <2>8, <2>10 DEF ConsumerInv
<1> QED
  BY <1>6, <1>7

\* One item is stored, for the first time if its duty has a watermark.
LEMMA StoreItemStep == ASSUME ConsumerInv, StoreItem PROVE ConsumerInv'
<1> DEFINE id == ingest.duty.id
           k == Min(ingest.sensed)
<1>1. /\ ingest.at = "store" /\ ingest.sensed # {}
      /\ UNCHANGED <<posts, channel, cursor, hit, world>>
  BY DEF StoreItem, outside
<1>2. PICK own \in Configured :
        rows' = [rows EXCEPT ![<<id, k>>] =
                   [times |-> @.times + 1, tier |-> Meet(own, Seed(ingest.duty, ingest.read))]]
  BY DEF StoreItem
<1>3. \/ ingest.sensed = {k} /\ EndsOk
      \/ ingest' = [ingest EXCEPT !.sensed = @ \ {k}] /\ UNCHANGED kept
  BY DEF StoreItem
<1>4. ingest.sensed \subseteq Items /\ ingest.duty \in Definitions /\ id \in Ids
      /\ rows \in [Ids \X Items -> [times : Nat, tier : Configured]]
  BY DEF ConsumerInv, ConsumerTypeOK, Ids
<1>5. k \in ingest.sensed /\ k \in Items
  <2>1. Items \subseteq Nat
    BY DEF Items
  <2> QED
    BY <1>1, <1>4, <2>1, LeastSensed
<1>6. HasSensor(ingest.duty)
  BY <1>1 DEF ConsumerInv, Sensing
<1> DEFINE tier == Meet(own, Seed(ingest.duty, ingest.read))
<1>7. tier \in Configured
  BY <1>4, <1>6, SeedIsLower, MeetIsLower
<1> HIDE DEF id, k, tier
<1>8. /\ rows' \in [Ids \X Items -> [times : Nat, tier : Configured]]
      /\ rows'[<<id, k>>].times = rows[<<id, k>>].times + 1
      /\ \A i \in Ids \X Items : i # <<id, k>> => rows'[i] = rows[i]
  <2>1. rows' = [rows EXCEPT ![<<id, k>>] = [times |-> @.times + 1, tier |-> tier]]
    BY <1>2 DEF id, k, tier
  <2>2. <<id, k>> \in Ids \X Items /\ rows[<<id, k>>].times \in Nat
    BY <1>4, <1>5
  <2>3. [times |-> rows[<<id, k>>].times + 1, tier |-> tier] \in [times : Nat, tier : Configured]
    BY <1>7, <2>2
  <2> QED
    BY <1>4, <2>1, <2>2, <2>3
<1>9. Marked'
  <2> SUFFICES ASSUME NEW d \in Ids, NEW n \in Items, Watermarked(d)
               PROVE  rows'[<<d, n>>].times <= 1 /\ (rows'[<<d, n>>].times > 0 => n <= cursor[d])
    BY <1>1 DEF Marked, Watermarked
  <2>1. CASE <<d, n>> = <<id, k>>
    <3>1. k <= cursor[id] /\ rows[<<id, k>>].times = 0
      BY <1>1, <1>5, <2>1 DEF ConsumerInv, Sensing, id
    <3> QED
      BY <1>8, <2>1, <3>1
  <2>2. CASE <<d, n>> # <<id, k>>
    BY <1>8, <2>2 DEF ConsumerInv, Marked
  <2> QED
    BY <2>1, <2>2
<1>10. \A d \in Ids, n \in Items :
         rows[<<d, n>>].times > 0 \/ (d = id /\ n = k) => rows'[<<d, n>>].times > 0
  <2>1. rows[<<id, k>>].times + 1 > 0 /\ <<id, k>> \in Ids \X Items
    BY <1>4, <1>5
  <2> QED
    BY <1>8, <2>1
<1>11. CASE ingest.sensed = {k} /\ EndsOk
  <2>1. ingest' = Waiting /\ kept' = kept \cup ({ingest.post} \ {0})
    BY <1>11 DEF EndsOk
  <2>2. {ingest.post} \ {0} \subseteq Posts
    BY DEF ConsumerInv, ConsumerTypeOK, Posts
  <2>3. ConsumerTypeOK'
    BY <1>1, <1>8, <2>1, <2>2, WaitingIs DEF ConsumerInv, ConsumerTypeOK
  <2>4. Sensing'
    BY <2>1, WaitingIs DEF Sensing
  <2>5. HeldOK
    BY HeldIs DEF ConsumerInv
  <2>6. NothingUnheard'
    <3>1. ASSUME NEW d \in Ids, NEW n \in Items, n <= cursor'[d]
          PROVE  rows'[<<d, n>>].times > 0 \/ Item(d, n) \in hit'
      BY <1>1, <1>10, <1>11, <2>5, <3>1 DEF ConsumerInv, NothingUnheard, HeldOK, id
    <3>2. ASSUME NEW p \in Posts, posts'[p].at = "accepted"
          PROVE  p \in kept' \/ Post(p) \in hit' \/ \E n \in DOMAIN channel' : channel'[n].post = p
      <4>1. p # 0
        BY DEF Posts
      <4> QED
        BY <1>1, <2>1, <2>5, <3>2, <4>1 DEF ConsumerInv, NothingUnheard, HeldOK
    <3> QED
      BY <3>1, <3>2 DEF NothingUnheard
  <2> QED
    BY <1>9, <2>3, <2>4, <2>6 DEF ConsumerInv
<1>12. CASE ingest' = [ingest EXCEPT !.sensed = @ \ {k}] /\ UNCHANGED kept
  <2>1. /\ ingest' \in [at : Stages, duty : Definitions, post : 0 .. MaxPosts, todo : Seq(STRING),
                        sensed : SUBSET Items, ran : Scripts, read : Scripts]
        /\ ingest'.at = "store" /\ ingest'.duty = ingest.duty /\ ingest'.post = ingest.post
        /\ ingest'.sensed = ingest.sensed \ {k}
    BY <1>1, <1>12 DEF ConsumerInv, ConsumerTypeOK
  <2>2. ConsumerTypeOK'
    BY <1>1, <1>8, <1>12, <2>1 DEF ConsumerInv, ConsumerTypeOK
  <2>3. Sensing'
    <3>1. ASSUME Watermarked(id), NEW n \in ingest.sensed \ {k}
          PROVE  n <= cursor[id] /\ rows'[<<id, n>>].times = 0
      <4>1. n <= cursor[id] /\ rows[<<id, n>>].times = 0
        BY <1>1, <3>1 DEF ConsumerInv, Sensing, id
      <4> QED
        BY <1>4, <1>8, <4>1
    <3> QED
      BY <1>1, <1>6, <2>1, <3>1 DEF Sensing, Watermarked, id
  <2>4. HeldOK /\ HeldOK'
    BY <2>2, HeldIs, HeldIsNext DEF ConsumerInv
  <2>5. NothingUnheard'
    <3>1. ASSUME NEW d \in Ids, NEW n \in Items, n <= cursor'[d]
          PROVE  rows'[<<d, n>>].times > 0 \/ Item(d, n) \in hit' \cup Held'
      <4>1. rows[<<d, n>>].times > 0 \/ Item(d, n) \in hit \cup Held
        BY <1>1, <3>1 DEF ConsumerInv, NothingUnheard
      <4>2. Item(d, n) \in Held => (d = id /\ n = k) \/ Item(d, n) \in Held'
        BY <2>1, <2>4 DEF HeldOK, id
      <4> QED
        BY <1>1, <1>10, <4>1, <4>2
    <3>2. ASSUME NEW p \in Posts, posts'[p].at = "accepted"
          PROVE  p \in kept' \/ Post(p) \in hit' \cup Held'
                   \/ \E n \in DOMAIN channel' : channel'[n].post = p
      <4>1. Post(p) \in Held => Post(p) \in Held'
        BY <2>1, <2>4 DEF HeldOK
      <4> QED
        BY <1>1, <1>12, <3>2, <4>1 DEF ConsumerInv, NothingUnheard
    <3> QED
      BY <3>1, <3>2 DEF NothingUnheard
  <2> QED
    BY <1>9, <2>2, <2>3, <2>5 DEF ConsumerInv
<1> QED
  BY <1>3, <1>11, <1>12

LEMMA CrashStep == ASSUME ConsumerInv, WheelTypeOK, Crash PROVE ConsumerInv'
<1>1. /\ ingest' = Waiting /\ channel' = <<>>
      /\ posts' = [p \in Posts |->
                     IF posts[p].at = "routed" THEN [posts[p] EXCEPT !.at = "none"] ELSE posts[p]]
      /\ hit' = hit \cup Held \cup {Post(channel[n].post) : n \in {m \in DOMAIN channel :
                                                                    channel[m].post # 0}}
      /\ UNCHANGED <<world, cursor, rows, kept>>
  BY DEF Crash, WheelBoot
<1>2. HeldOK /\ channel \in Seq(Trigger) /\ MaxPosts \in Nat
      /\ posts \in [Posts -> [at : {"none", "routed", "accepted"}, id : Ids]]
  BY HeldIs, IngestAssumption DEF ConsumerInv, ConsumerTypeOK, WheelTypeOK, Trigger
<1>3. posts' \in [Posts -> [at : {"none", "routed", "accepted"}, id : Ids]]
      /\ \A p \in Posts : posts'[p].at = "accepted" => posts[p].at = "accepted"
  BY <1>1, <1>2
<1>4. \A n \in DOMAIN channel : channel[n].post # 0 => channel[n].post \in Posts
  <2>1. \A n \in DOMAIN channel : channel[n].post \in Nat /\ channel[n].post <= MaxPosts
    <3>1. \A n \in DOMAIN channel : channel[n] \in Trigger
      BY <1>2
    <3> QED
      BY <3>1 DEF ConsumerInv, ConsumerTypeOK, Trigger
  <2> QED
    BY <1>2, <2>1 DEF Posts
<1>5. hit' \subseteq Hits
  <2>1. hit \subseteq Hits /\ Held \subseteq Hits
    BY <1>2 DEF ConsumerInv, ConsumerTypeOK, Hits, HeldOK
  <2>2. \A p \in Posts : Post(p) \in Hits
    BY DEF Post, Hits
  <2> QED
    BY <1>1, <1>4, <2>1, <2>2
<1>6. ConsumerTypeOK'
  BY <1>1, <1>3, <1>5, WaitingIs DEF ConsumerInv, ConsumerTypeOK, Hits
<1>7. Sensing' /\ Marked'
  BY <1>1, WaitingIs DEF ConsumerInv, Sensing, Marked
<1>8. NothingUnheard'
  <2>1. ASSUME NEW d \in Ids, NEW n \in Items, n <= cursor'[d]
        PROVE  rows'[<<d, n>>].times > 0 \/ Item(d, n) \in hit'
    BY <1>1, <2>1 DEF ConsumerInv, NothingUnheard
  <2>2. ASSUME NEW p \in Posts, posts'[p].at = "accepted"
        PROVE  p \in kept' \/ Post(p) \in hit'
    <3>1. p \in kept \/ Post(p) \in hit \cup Held \/ \E n \in DOMAIN channel : channel[n].post = p
      BY <1>3, <2>2 DEF ConsumerInv, NothingUnheard
    <3>2. p # 0
      BY DEF Posts
    <3> QED
      BY <1>1, <3>1, <3>2
  <2> QED
    BY <2>1, <2>2 DEF NothingUnheard
<1> QED
  BY <1>6, <1>7, <1>8 DEF ConsumerInv

-----------------------------------------------------------------------------
(* The theorems.                                                            *)

\* The inductive invariant of Ingest.
IngestInv == DutiesInv /\ WheelInv /\ ConsumerInv

LEMMA IngestInvariant == Spec => []IngestInv
<1>1. Init => IngestInv
  BY DutiesInitial, WheelInitial, ConsumerInitial DEF IngestInv
<1>2. ASSUME IngestInv, [Next]_vars PROVE IngestInv'
  <2>1. DutiesInv' /\ WheelInv'
    BY <1>2, DutiesStep, WheelStep DEF IngestInv, ConsumerInv
  <2>2. ConsumerInv /\ WheelTypeOK /\ DutiesTypeOK
    BY <1>2 DEF IngestInv, WheelInv, DutiesInv
  <2>3. ConsumerInv'
    <3>1. ASSUME NEW d \in Definitions, Take(d) PROVE ConsumerInv'
      BY <2>2, <3>1, TakeStep
    <3>2. CASE TakeGone
      BY <2>2, <3>2, TakeGoneStep
    <3>3. CASE MaterializeSecret
      BY <2>2, <3>3, MaterializeStep
    <3>4. CASE SecretFails
      BY <2>2, <3>4, SecretFailsStep
    <3>5. CASE Sense
      BY <2>2, <3>5, SenseStep
    <3>6. CASE AdvanceCursor
      BY <2>2, <3>6, AdvanceStep
    <3>7. CASE ReadScript
      BY <2>2, <3>7, ReadScriptStep
    <3>8. CASE StoreItem
      BY <2>2, <3>8, StoreItemStep
    <3>9. CASE StoreOther
      BY <2>2, <3>9, StoreOtherStep
    <3>10. CASE CallFails
      BY <2>2, <3>10, CallFailsStep
    <3>11. CASE Crash
      BY <2>2, <3>11, CrashStep
    <3>12. CASE OthersNext
      BY <2>2, <3>12, OthersStep
    <3> QED
      BY <1>2, <3>1, <3>2, <3>3, <3>4, <3>5, <3>6, <3>7, <3>8, <3>9, <3>10, <3>11, <3>12
      DEF Next, Consume, OthersNext
  <2> QED
    BY <2>1, <2>3 DEF IngestInv
<1> QED
  BY <1>1, <1>2, PTL DEF Spec

\* Every variable of ingestion keeps its type (TypeOK).
THEOREM TypeCorrect == Spec => []TypeOK
<1>1. IngestInv => TypeOK
  BY DEF IngestInv, DutiesInv, CountOK, WheelInv, ConsumerInv, ConsumerTypeOK, TypeOK
<1> QED
  BY <1>1, IngestInvariant, PTL

\* The wheel sleeps through no reload (WheelIsCurrent): one that sleeps on an old schedule
\* has a wake-up waiting, or on its way.
THEOREM WheelStaysCurrent == Spec => []WheelIsCurrent
<1>1. IngestInv => WheelIsCurrent
  BY DEF IngestInv, WheelInv
<1> QED
  BY <1>1, IngestInvariant, PTL

\* A time of a schedule is fired once, and none is missed but those excused
\* (EveryTimeFires).
THEOREM EveryTimeDoesFire == Spec => []EveryTimeFires
<1>1. IngestInv => EveryTimeFires
  BY DEF IngestInv, WheelInv, OncePerTime, Answered, EveryTimeFires
<1> QED
  BY <1>1, IngestInvariant, PTL

\* An item of a duty with a watermark is stored at most once (NoItemTwice).
THEOREM StoredOnce == Spec => []NoItemTwice
<1>1. IngestInv => NoItemTwice
  BY DEF IngestInv, ConsumerInv, Marked, NoItemTwice
<1> QED
  BY <1>1, IngestInvariant, PTL

\* No item behind the watermark and no accepted post is passed over (NothingUnheard).
THEOREM NothingIsUnheard == Spec => []NothingUnheard
<1>1. IngestInv => NothingUnheard
  BY DEF IngestInv, ConsumerInv
<1> QED
  BY <1>1, IngestInvariant, PTL

\* What a sensor brings is trusted no more than its script and the secrets it fetched
\* with (SensedTrust).
THEOREM SensedIsTrusted == Spec => SensedTrust
<1> DEFINE Trusted ==
             \A i \in Ids \X Items :
               rows'[i].times > rows[i].times /\ ingest.ran = ingest.read =>
                 /\ Rank(rows'[i].tier) <= Rank(ScriptTrust(ingest.ran))
                 /\ \A n \in DOMAIN ingest.duty.secrets :
                      Rank(rows'[i].tier) <= Rank(SecretTrust(ingest.duty.secrets[n]))
<1>1. ASSUME IngestInv, StoreItem PROVE Trusted
  <2> DEFINE d == ingest.duty
             k == Min(ingest.sensed)
             seed == Seed(d, ingest.read)
  <2> SUFFICES ASSUME NEW i \in Ids \X Items, rows'[i].times > rows[i].times,
                      ingest.ran = ingest.read
               PROVE  /\ Rank(rows'[i].tier) <= Rank(ScriptTrust(ingest.read))
                      /\ \A n \in DOMAIN d.secrets :
                           Rank(rows'[i].tier) <= Rank(SecretTrust(d.secrets[n]))
    OBVIOUS
  <2>1. rows \in [Ids \X Items -> [times : Nat, tier : Configured]] /\ d \in Definitions
        /\ HasSensor(d)
    BY <1>1 DEF IngestInv, ConsumerInv, ConsumerTypeOK, Sensing, StoreItem
  <2>2. PICK own \in Configured :
          rows' = [rows EXCEPT ![<<d.id, k>>] = [times |-> @.times + 1, tier |-> Meet(own, seed)]]
    BY <1>1 DEF StoreItem
  <2>3. /\ Rank(seed) <= Rank(ScriptTrust(ingest.read))
        /\ \A n \in DOMAIN d.secrets : Rank(seed) <= Rank(SecretTrust(d.secrets[n]))
    BY <2>1, SeedIsLower
  <2> HIDE DEF d, k, seed
  <2>4. i = <<d.id, k>>
    <3>1. rows[i].times \in Nat /\ ~(rows[i].times > rows[i].times)
      BY <2>1
    <3>2. i # <<d.id, k>> => rows'[i] = rows[i]
      BY <2>1, <2>2
    <3> QED
      BY <3>1, <3>2
  <2>5. rows'[i].tier = Meet(own, seed)
    BY <2>1, <2>2, <2>4
  <2>6. Rank(rows'[i].tier) <= Rank(seed)
    BY <2>5, MeetIsLower
  <2>7. \A a, b, c \in Nat : a <= b /\ b <= c => a <= c
    OBVIOUS
  <2> QED
    BY <2>3, <2>6, <2>7, RankType
<1>2. ASSUME IngestInv, [Next]_vars, ~StoreItem PROVE Trusted
  <2>1. rows' = rows
    BY <1>2
    DEF Next, vars, ingestVars, RoutePost, AcceptPost, Consume, TakeGone, Take,
        MaterializeSecret, SecretFails, Sense, AdvanceCursor, ReadScript, StoreOther, CallFails,
        NewItem, Crash
  <2>2. \A i \in Ids \X Items : ~(rows[i].times > rows[i].times)
    <3>1. \A i \in Ids \X Items : rows[i].times \in Nat
      BY <1>2 DEF IngestInv, ConsumerInv, ConsumerTypeOK
    <3> QED
      BY <3>1
  <2> QED
    BY <2>1, <2>2
<1>3. ASSUME IngestInv, [Next]_vars PROVE [Trusted]_vars
  BY <1>1, <1>2, <1>3
<1> QED
  BY <1>3, IngestInvariant, PTL DEF Spec, SensedTrust
=============================================================================
