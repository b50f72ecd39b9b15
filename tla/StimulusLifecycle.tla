--------------------------- MODULE StimulusLifecycle ---------------------------
(***************************************************************************)
(* What the stimulus queue and its loop promise, with neither rows nor        *)
(* processes: every stimulus submitted is delivered, one at a time; a delivery *)
(* ends, or is interrupted and recovered later; and one that has had an effect *)
(* on the outside is never tried again of the queue's own accord.             *)
(***************************************************************************)
EXTENDS Naturals

CONSTANTS
  Stimuli,
  Droppable,   \* those the queue may give up when it is full
  MaxRetries

VARIABLES
  place,    \* where each stimulus is
  tries,    \* the retries each has had
  effect    \* whether the delivery that is running has had an effect

lifecycleVars == <<place, tries, effect>>

Unsubmitted == {"nowhere", "dropped"}
Places == Unsubmitted \cup {"waiting", "running", "interrupted", "done", "failed"}

Running == {s \in Stimuli : place[s] = "running"}

Init ==
  /\ place = [s \in Stimuli |-> "nowhere"]
  /\ tries = [s \in Stimuli |-> 0]
  /\ effect = FALSE

Moves(S, p) == place' = [s \in Stimuli |-> IF s \in S THEN p ELSE place[s]]

\* A stimulus that is there already, finished ones included, is not submitted again.
Submit(s) ==
  /\ place[s] \in Unsubmitted
  /\ Moves({s}, "waiting") /\ tries' = [tries EXCEPT ![s] = 0] /\ UNCHANGED effect

Deliver(s) ==
  /\ Running = {} /\ place[s] = "waiting"
  /\ Moves({s}, "running") /\ effect' = FALSE /\ UNCHANGED tries

Affect ==
  /\ Running # {}
  /\ effect' = TRUE /\ UNCHANGED <<place, tries>>

Finish(s) ==
  /\ place[s] = "running"
  /\ Moves({s}, "done") \/ Moves({s}, "failed")
  /\ effect' = FALSE /\ UNCHANGED tries

\* Only a delivery without effects is tried again, and only so often.
Retry(s) ==
  /\ place[s] = "running" /\ ~effect /\ tries[s] < MaxRetries
  /\ Moves({s}, "waiting") /\ tries' = [tries EXCEPT ![s] = @ + 1] /\ UNCHANGED effect

Interrupt(s) ==
  /\ place[s] = "running"
  /\ Moves({s}, "interrupted") /\ effect' = FALSE /\ UNCHANGED tries

\* All the interrupted deliveries at once, and none that is running.
Recover ==
  /\ Running = {}
  /\ Moves({s \in Stimuli : place[s] = "interrupted"}, "waiting")
  /\ UNCHANGED <<tries, effect>>

GiveUp(S) ==
  /\ \A s \in S : place[s] = "waiting"
  /\ Moves(S, "dropped") /\ UNCHANGED <<tries, effect>>

Next ==
  \/ \E s \in Stimuli :
       Submit(s) \/ Deliver(s) \/ Finish(s) \/ Retry(s) \/ Interrupt(s)
  \/ Affect \/ Recover
  \/ \E S \in SUBSET Droppable : GiveUp(S)

Spec == Init /\ [][Next]_lifecycleVars
=============================================================================
