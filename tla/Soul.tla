--------------------------------- MODULE Soul ---------------------------------
(***************************************************************************)
(* What a wake leaves behind: its steps edit the soul and have it reconciled  *)
(* (SoulRepo), take notes and write the runlog (Runlog), and the wake's end   *)
(* pushes. run_step does these in a fixed order; the operator, the clock and  *)
(* a crash come between any two of them.                                     *)
(***************************************************************************)
EXTENDS SoulRepo, Runlog

CONSTANTS
  Entered,   \* the states whose steps are run
  MaxNoted   \* bound: notes taken

ASSUME WakesAssumption == Entered \subseteq States /\ MaxNoted \in Nat

VARIABLE wake  \* the stimulus of the wake: its conversation, and when it was received

vars == <<repoVars, logVars, wake, accidents>>

TypeOK ==
  /\ RepoTypeOK /\ LogTypeOK
  /\ wake \in [thread : Threads, received : 0 .. MaxTime]

Init ==
  /\ RepoInit /\ LogInit
  /\ wake \in [thread : Threads, received : {0}]

\* A wake's first step, for a stimulus that may have waited in the queue.
WakeBegins(s) ==
  /\ phase = "asleep" /\ s \in Entered
  /\ StepBegins(s)
  /\ wake' \in [thread : Threads, received : 0 .. clock]
  /\ UNCHANGED logVars

\* A baton leads to another step.
WakeGoesOn(s) ==
  /\ phase = "awake" /\ s \in Entered /\ AllowedTransition(state, s)
  /\ StepBegins(s)
  /\ UNCHANGED <<logVars, wake>>

\* The state-prompt of Perceive keeps its session; one whose context grew past its
\* cap is evicted instead.
Returns ==
  /\ InvocationReturns
  /\ IF state = "Perceive"
     THEN \/ StoreSession(wake.thread, steps)
          \/ /\ lastUsed' = [lastUsed EXCEPT ![wake.thread] = NoSession]
             /\ UNCHANGED <<clock, day, notes, counted, writing, logged, wiped,
                            noted, known, miscounted>>
     ELSE UNCHANGED logVars
  /\ UNCHANGED wake

\* honor_tag_notes, before the reconcile.
HonorTagNotes ==
  /\ phase = "reconcile"
  /\ noted < MaxNoted
  /\ TakeNote
  /\ UNCHANGED <<repoVars, wake>>

\* write_runlog: stamped with the time the stimulus was received.
WriteRunlog ==
  /\ phase = "log"
  /\ LogWrite([run |-> steps, thread |-> wake.thread, received |-> wake.received])
  /\ UNCHANGED <<repoVars, wake>>

RunlogCommitted == LogCommit /\ StepLogged(TRUE) /\ UNCHANGED <<wake, accidents>>
RunlogFails == LogCommitFails /\ StepLogged(FALSE) /\ UNCHANGED wake

\* A wake whose entry prompt the soul does not have, or cannot be parsed, has failed.
Unresolved ==
  /\ phase = "asleep" /\ steps < MaxSteps
  /\ steps' = steps + 1
  /\ phase' = "failed"
  /\ wake' \in [thread : Threads, received : 0 .. clock]
  /\ UNCHANGED <<files, lacking, dirty, changes, allowed, pushing, command, state, edits,
                 raced, author, accidents, logVars>>

\* log_dispatch_failure: a failed wake has an entry of its own, unless the runlog fails too.
LogFailure ==
  /\ phase = "failed"
  /\ LogWrite([run |-> MaxSteps + steps, thread |-> wake.thread, received |-> wake.received])
  /\ UNCHANGED <<repoVars, wake>>

FailureLogged ==
  /\ phase = "failed"
  /\ \/ LogCommit /\ UNCHANGED accidents
     \/ LogCommitFails
  /\ phase' = "asleep"
  /\ UNCHANGED <<files, lacking, dirty, changes, allowed, pushing, command, run, author, wake>>

\* The process is lost; what is left of the runlog's repository may be broken.
Crash == RepoCrash /\ (\E healthy \in BOOLEAN : LogBoot(healthy)) /\ UNCHANGED wake

RepoStep ==
  /\ \/ \E p \in Paths : AgentEdits(p)
     \/ InvocationFails
     \/ Reconciling \/ Pushing \/ Operating
  /\ UNCHANGED <<logVars, wake>>

Next ==
  \/ \E s \in States : WakeBegins(s) \/ WakeGoesOn(s)
  \/ Returns
  \/ HonorTagNotes
  \/ WriteRunlog \/ RunlogCommitted \/ RunlogFails
  \/ Unresolved \/ LogFailure \/ FailureLogged
  \/ RepoStep
  \/ Crash
  \/ LogTick /\ UNCHANGED <<repoVars, wake, accidents>>

Spec == Init /\ [][Next]_vars
=============================================================================
