-------------------------------- MODULE Health --------------------------------
(***************************************************************************)
(* The health registry: one record per duty and one per secrets provider,     *)
(* counted since boot. Ingestion, the consciousness loop and everyone who     *)
(* needs a secret write to it; the snapshot is what `dack status` and Reflect *)
(* read. Of a count that only rises it matters here whether it is zero.       *)
(***************************************************************************)
EXTENDS Integers

NeverFired == [fired |-> FALSE, streak |-> 0]
Unchecked == [ok |-> FALSE, streak |-> 0]

Fired(h) == [h EXCEPT !.fired = TRUE]
StimulusOk(h) == [h EXCEPT !.streak = 0]
StimulusErr(h) == [h EXCEPT !.streak = @ + 1]

SecretOk(h) == [ok |-> TRUE, streak |-> 0]
SecretErr(h) == [h EXCEPT !.streak = @ + 1]

SecretIsOk(h) == h.ok /\ h.streak = 0

\* HealthSnapshot::render: the line of one duty of the roster, and of a secret.
DutyLine(h) ==
  IF h.streak > 0 THEN "FAILING" ELSE IF ~h.fired THEN "never fired" ELSE "ok"
SecretLine(h) == IF SecretIsOk(h) THEN "ok" ELSE "FAILING"
=============================================================================
