------------------------------- MODULE CronWheel -------------------------------
(***************************************************************************)
(* The cron wheel: it copies the schedule, sleeps until the soonest time of   *)
(* it, and sends a trigger for every duty that is due. A reload replaces the  *)
(* schedule meanwhile and leaves a wake-up for it; a full channel holds it.   *)
(*                                                                          *)
(* Seconds are the clock's steps. A wheel that sleeps wakes in the second     *)
(* that it asked for: the clock does not pass it (the assumption on the       *)
(* runtime's timers).                                                        *)
(***************************************************************************)
EXTENDS Duties

CONSTANTS
  Capacity, \* the channel's capacity
  MaxTime   \* bound: the last second

ASSUME WheelAssumption == Capacity \in Nat \ {0} /\ MaxTime \in Nat

VARIABLES
  clock,    \* seconds
  wheel,    \* where the wheel is, what it copied, when, and what it still has to send
  channel,  \* the FiredTriggers: the duty and, for a webhook, the number of the post
  fires,    \* history: how often each time of a duty was fired
  excused   \* history: times that passed while the wheel was not asleep, or that a
            \* reload woke it at

wheelVars == <<clock, wheel, channel, fires, excused>>

Times == 0 .. MaxTime
Ids == {d.id : d \in Definitions}

\* next_fire: the first time strictly after `after`.
Following(d, after) == {t \in d.times : t > after}

NextFire(d, after) ==
  {t \in Following(d, after) : \A u \in Following(d, after) : t <= u}

Due(d, now) == \E t \in NextFire(d, wheel.now) : t <= now

WheelTypeOK ==
  /\ clock \in Times
  /\ wheel \in [at : {"copy", "sleep", "send"}, now : Times, copy : SUBSET Definitions,
                due : SUBSET Ids]
  /\ channel \in Seq([id : Ids, post : Nat]) /\ Len(channel) <= Capacity
  /\ fires \in [Ids \X Times -> Nat] /\ excused \subseteq Ids \X Times

NewWheel(now) == [at |-> "copy", now |-> now, copy |-> {}, due |-> {}]

WheelInit ==
  /\ clock = 0
  /\ wheel = NewWheel(0)
  /\ channel = <<>>
  /\ fires = [f \in Ids \X Times |-> 0]
  /\ excused = {}

CopySchedule ==
  /\ wheel.at = "copy"
  /\ wheel' = [at |-> "sleep", now |-> clock, copy |-> schedule, due |-> {}]
  /\ UNCHANGED <<dutyVars, clock, channel, fires, excused>>

\* The times of the copied duties that have come since the copy was made.
Passed ==
  UNION {{d.id} \X {t \in d.times : wheel.now < t /\ t <= clock} : d \in wheel.copy}

\* The wake-up wins the select, whether or not a duty is due.
Notified ==
  /\ wheel.at = "sleep" /\ permit
  /\ permit' = FALSE
  /\ wheel' = [wheel EXCEPT !.at = "copy"]
  /\ excused' = excused \cup Passed
  /\ UNCHANGED <<disk, script, registry, schedule, routes, reloads, watched, overtaken,
                 clock, channel, fires>>

\* Mutant: only the duty the wheel slept for.
WakeForOne ==
  /\ wheel.at = "sleep"
  /\ \E d \in wheel.copy :
       /\ Due(d, clock)
       /\ wheel' = [wheel EXCEPT !.at = "send", !.due = {d.id}]
       /\ fires' = [f \in DOMAIN fires |->
                      fires[f] + (IF f[1] = d.id /\ f[2] \in NextFire(d, wheel.now) THEN 1 ELSE 0)]
  /\ UNCHANGED <<dutyVars, clock, channel, excused>>

\* The sleep ends: every duty whose next time has come is to be sent.
Wake ==
  /\ wheel.at = "sleep"
  /\ LET due == {d \in wheel.copy : Due(d, clock)} IN
       /\ due # {}
       /\ wheel' = [wheel EXCEPT !.at = "send", !.due = {d.id : d \in due}]
       /\ fires' = [f \in DOMAIN fires |->
                      fires[f] + Cardinality({d \in due : f[1] = d.id
                                                /\ f[2] \in NextFire(d, wheel.now)})]
  /\ UNCHANGED <<dutyVars, clock, channel, excused>>

\* Mutant: the channel is not bounded.
SendUnbounded ==
  /\ wheel.at = "send"
  /\ \E id \in wheel.due :
       /\ channel' = Append(channel, [id |-> id, post |-> 0])
       /\ wheel' = [wheel EXCEPT !.due = @ \ {id}, !.at = IF wheel.due = {id} THEN "copy" ELSE @]
  /\ UNCHANGED <<dutyVars, clock, fires, excused>>

\* One trigger is sent once the channel has room; after the last one the wheel starts over.
SendFired ==
  /\ wheel.at = "send" /\ Len(channel) < Capacity
  /\ \E id \in wheel.due :
       /\ channel' = Append(channel, [id |-> id, post |-> 0])
       /\ wheel' = [wheel EXCEPT !.due = @ \ {id}, !.at = IF wheel.due = {id} THEN "copy" ELSE @]
  /\ UNCHANGED <<dutyVars, clock, fires, excused>>

Wheel == CopySchedule \/ Notified \/ Wake \/ SendFired

\* A second passes. A sleeping wheel is not late; one that sends may be.
WheelTick ==
  /\ clock < MaxTime
  /\ wheel.at = "sleep" => \A d \in wheel.copy : ~Due(d, clock)
  /\ clock' = clock + 1
  /\ excused' = excused \cup
       (IF wheel.at = "sleep" THEN {} ELSE {d.id : d \in wheel.copy} \X {clock'})
  /\ UNCHANGED <<dutyVars, wheel, channel, fires>>

WheelBoot ==
  /\ wheel' = NewWheel(clock)
  /\ channel' = <<>>
  /\ UNCHANGED <<clock, fires, excused>>

\* A wheel that sleeps on an old schedule has a wake-up waiting for it, or about to be
\* left by the reload that replaced the schedule: no reload is slept through (CronWheel::run, reschedule).
WheelIsCurrent ==
  wheel.at = "sleep" /\ wheel.copy # schedule =>
    permit \/ \E r \in reloads : r.at = "notify"

\* A time of a duty's schedule fires at most once, and when the wheel has gone past it
\* it fired, unless it came while the wheel was not asleep (it waited for the channel, or
\* was about to copy), or the wake-up of a reload won over it (CronWheel::run).
EveryTimeFires ==
  /\ \A f \in DOMAIN fires : fires[f] <= 1
  /\ wheel.at = "copy" => \A p \in Passed : fires[p] = 1 \/ p \in excused
=============================================================================
