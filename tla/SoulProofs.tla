----------------------------- MODULE SoulProofs -----------------------------
(***************************************************************************)
(* Proofs about Soul, for every set of files, of remotes, of threads and of   *)
(* states entered, and every length of a day, retention and cap. First the    *)
(* repository: what a step leaves behind is explained, a sweep commits its    *)
(* own step's work, and a flag that is down means that every required remote  *)
(* has every commit. Then the runlog: nothing is lost without a reason, the   *)
(* counts agree, the catalogue holds the newest notes, and a resumed session  *)
(* is told only what is new to it.                                          *)
(***************************************************************************)
EXTENDS Soul, TLAPS, WellFoundedInduction, SequenceTheorems

-----------------------------------------------------------------------------
(* The targets.                                                             *)

\* Induction, stated of a set of naturals.
LEMMA SetInduction ==
  ASSUME NEW T \in SUBSET Nat, 0 \in T, \A n \in T : n + 1 \in T
  PROVE  T = Nat
<1>1. SUFFICES ASSUME Nat \ T # {} PROVE FALSE
  OBVIOUS
<1>2. PICK x \in Nat \ T : \A y \in Nat \ T : ~(<<y, x>> \in OpToRel(<, Nat))
  <2>1. Nat \ T \subseteq Nat
    OBVIOUS
  <2> QED
    BY <1>1, <2>1, NatLessThanWellFounded, WFMin
<1>3. \A y \in Nat \ T : ~(y < x)
  BY <1>2 DEF OpToRel
<1>4. x - 1 \in Nat /\ x - 1 < x
  OBVIOUS
<1>5. x - 1 \in T
  BY <1>3, <1>4
<1> QED
  BY <1>5

\* The entries of soul_remotes, or the one made of the older field.
LEMMA EffectiveType == EffectiveRemotes \in Seq(SoulRemote)
<1>1. CASE SoulRemotes # <<>>
  BY <1>1, SoulAssumption DEF EffectiveRemotes
<1>2. CASE SoulRemotes = <<>>
  <2> DEFINE Url == [name : STRING, gitlawb : BOOLEAN]
             Entry1(u) == [name |-> u.name, gitlawb |-> u.gitlawb, kind |-> "inferred",
                           role |-> "soul", token |-> "none", required |-> FALSE]
  <2>1. LegacyUrl \in Seq(Url)
    BY SoulAssumption
  <2>2. \A u \in Url : Entry1(u) \in SoulRemote
    BY SoulAssumption DEF SoulRemote
  <2>3. EffectiveRemotes = [n \in DOMAIN LegacyUrl |-> Entry1(LegacyUrl[n])]
    BY <1>2 DEF EffectiveRemotes
  <2> HIDE DEF Url, Entry1
  <2>4. Len(LegacyUrl) \in Nat /\ DOMAIN LegacyUrl = 1 .. Len(LegacyUrl)
        /\ \A n \in DOMAIN LegacyUrl : LegacyUrl[n] \in Url
    BY <2>1
  <2>5. EffectiveRemotes \in [1 .. Len(LegacyUrl) -> SoulRemote]
    BY <2>2, <2>3, <2>4
  <2> QED
    BY <2>4, <2>5, SeqDef
<1> QED
  BY <1>1, <1>2

\* What an entry adds to the targets of the entries before it.
Extended(s, r) == IF Signable(r) THEN Append(s, r) ELSE s

\* The recursion of TargetsOf has a solution, so the definition is its equation.
LEMMA TargetsEquation ==
  TargetsOf = [n \in 0 .. Len(EffectiveRemotes) |->
                 IF n = 0 THEN <<>> ELSE Extended(TargetsOf[n - 1], EffectiveRemotes[n])]
<1> DEFINE E == EffectiveRemotes
           Solves(f, m) == f = [n \in 0 .. m |->
                                  IF n = 0 THEN <<>> ELSE Extended(f[n - 1], E[n])]
           T == {m \in Nat : \E f : Solves(f, m)}
<1>1. 0 \in T
  <2>1. Solves([n \in 0 .. 0 |-> <<>>], 0)
    OBVIOUS
  <2> QED
    BY <2>1
<1>2. ASSUME NEW m \in T PROVE m + 1 \in T
  <2>1. PICK f : Solves(f, m)
    OBVIOUS
  <2> DEFINE g == [n \in 0 .. m + 1 |-> IF n <= m THEN f[n] ELSE Extended(f[m], E[m + 1])]
  <2>2. Solves(g, m + 1)
    <3>1. ASSUME NEW n \in 0 .. m + 1
          PROVE  g[n] = IF n = 0 THEN <<>> ELSE Extended(g[n - 1], E[n])
      <4>1. CASE n = m + 1
        BY <4>1
      <4>2. CASE n <= m
        <5>1. f[n] = IF n = 0 THEN <<>> ELSE Extended(f[n - 1], E[n])
          BY <2>1, <4>2
        <5> QED
          BY <4>2, <5>1
      <4> QED
        BY <4>1, <4>2
    <3> QED
      BY <3>1
  <2> HIDE DEF g, Solves
  <2> QED
    BY <2>2
<1>3. T = Nat
  <2> HIDE DEF T
  <2>1. T \subseteq Nat
    BY DEF T
  <2> QED
    BY <1>1, <1>2, <2>1, SetInduction
<1>4. Len(E) \in Nat
  BY EffectiveType
<1>5. \E f : Solves(f, Len(E))
  BY <1>3, <1>4
<1>6. TargetsOf = CHOOSE f : Solves(f, Len(E))
  BY DEF TargetsOf, Extended
<1> QED
  BY <1>5, <1>6

\* The targets are a list of entries.
LEMMA TargetsType == Targets \in Seq(SoulRemote)
<1> DEFINE E == EffectiveRemotes
           T == {m \in Nat : m <= Len(E) => TargetsOf[m] \in Seq(SoulRemote)}
<1>1. Len(E) \in Nat /\ \A n \in 1 .. Len(E) : E[n] \in SoulRemote
  BY EffectiveType
<1>2. 0 \in T
  BY <1>1, TargetsEquation
<1>3. ASSUME NEW m \in T PROVE m + 1 \in T
  <2> SUFFICES ASSUME m + 1 <= Len(E) PROVE TargetsOf[m + 1] \in Seq(SoulRemote)
    OBVIOUS
  <2>1. TargetsOf[m + 1] = Extended(TargetsOf[m], E[m + 1])
    BY <1>1, TargetsEquation
  <2>2. TargetsOf[m] \in Seq(SoulRemote) /\ E[m + 1] \in SoulRemote
    BY <1>1
  <2> QED
    BY <2>1, <2>2 DEF Extended
<1>4. T = Nat
  <2> HIDE DEF T
  <2>1. T \subseteq Nat
    BY DEF T
  <2> QED
    BY <1>2, <1>3, <2>1, SetInduction
<1> QED
  BY <1>1, <1>4 DEF Targets

-----------------------------------------------------------------------------
(* The steps of Soul, as the repository sees them.                          *)

\* A step that only has to do with the runlog, or a wake that runs no step.
Elsewhere ==
  /\ phase' = phase \/ {phase, phase'} \subseteq {"asleep", "failed"}
  /\ steps' \in {steps} \cup {n \in 0 .. MaxSteps : n = steps + 1}
  /\ UNCHANGED <<files, lacking, dirty, changes, allowed, pushing, command, state,
                 edits, author, raced>>

RepoNext ==
  \/ \E s \in States : StepBegins(s)
  \/ \E p \in Paths : AgentEdits(p)
  \/ InvocationFails \/ InvocationReturns
  \/ Reconciling \/ Pushing \/ Operating
  \/ \E ok \in BOOLEAN : StepLogged(ok)
  \/ RepoCrash
  \/ Elsewhere

\* Every step of Soul is one of the repository's.
LEMMA RepoSteps ==
  ASSUME RepoTypeOK, [Next]_vars
  PROVE  RepoNext
<1>1. CASE \E s \in States : WakeBegins(s) \/ WakeGoesOn(s)
  BY <1>1 DEF WakeBegins, WakeGoesOn, RepoNext
<1>2. CASE Returns
  BY <1>2 DEF Returns, RepoNext
<1>3. CASE HonorTagNotes \/ WriteRunlog \/ LogFailure
  BY <1>3 DEF HonorTagNotes, WriteRunlog, LogFailure, repoVars, files, RepoNext, Elsewhere
<1>4. CASE RunlogCommitted \/ RunlogFails
  BY <1>4 DEF RunlogCommitted, RunlogFails, RepoNext
<1>5. CASE Unresolved
  <2>1. steps + 1 \in 0 .. MaxSteps
    BY <1>5, SoulAssumption DEF Unresolved, RepoTypeOK
  <2> QED
    BY <1>5, <2>1 DEF Unresolved, files, RepoNext, Elsewhere
<1>6. CASE FailureLogged
  BY <1>6 DEF FailureLogged, files, run, RepoNext, Elsewhere
<1>7. CASE RepoStep
  BY <1>7 DEF RepoStep, RepoNext
<1>8. CASE Crash
  BY <1>8 DEF Crash, RepoNext
<1>9. CASE (LogTick /\ UNCHANGED <<repoVars, wake, accidents>>) \/ UNCHANGED vars
  BY <1>9 DEF vars, repoVars, files, RepoNext, Elsewhere
<1> QED
  BY <1>1, <1>2, <1>3, <1>4, <1>5, <1>6, <1>7, <1>8, <1>9 DEF Next

-----------------------------------------------------------------------------
(* Types.                                                                   *)

\* Accidents are counted against their bound by every step.
LEMMA AccidentsBounded ==
  ASSUME accidents \in 0 .. MaxAccidents, [Next]_vars
  PROVE  accidents' \in 0 .. MaxAccidents
<1> DEFINE Counted == Accident \/ UNCHANGED accidents
<1>1. SUFFICES Counted
  BY AccidentsAssumption DEF Accident
<1>2. CASE \E s \in States : WakeBegins(s) \/ WakeGoesOn(s)
  BY <1>2 DEF WakeBegins, WakeGoesOn, StepBegins
<1>3. CASE Returns
  BY <1>3 DEF Returns, InvocationReturns
<1>4. CASE HonorTagNotes
  BY <1>4 DEF HonorTagNotes, TakeNote, Reads
<1>5. CASE WriteRunlog
  BY <1>5 DEF WriteRunlog, LogWrite, Reads
<1>6. CASE RunlogCommitted \/ RunlogFails
  BY <1>6 DEF RunlogCommitted, RunlogFails, LogCommitFails
<1>7. CASE Unresolved
  BY <1>7 DEF Unresolved
<1>8. CASE LogFailure
  BY <1>8 DEF LogFailure, LogWrite, Reads
<1>9. CASE FailureLogged
  BY <1>9 DEF FailureLogged, LogCommitFails
<1>10. CASE RepoStep
  <2>1. CASE \E p \in Paths : AgentEdits(p)
    BY <2>1 DEF AgentEdits
  <2>2. CASE InvocationFails
    BY <2>2 DEF InvocationFails
  <2>3. CASE Reconciling
    BY <2>3 DEF Reconciling, Status, StatusFails, Revert, RevertFails, Stage, Sweep,
                SweepFails, NothingToSweep
  <2>4. CASE Pushing
    BY <2>4 DEF Pushing, PushSkipped, PushBegins, PushSucceeds, PushRetried, PushGivenUp,
                PushEnds
  <2>5. CASE Operating
    BY <2>5 DEF Operating, OperatorEdits, CommandCommits, CommandPushes
  <2> QED
    BY <1>10, <2>1, <2>2, <2>3, <2>4, <2>5 DEF RepoStep
<1>11. CASE Crash
  BY <1>11 DEF Crash, RepoCrash
<1>12. CASE (LogTick /\ UNCHANGED <<repoVars, wake, accidents>>) \/ UNCHANGED vars
  BY <1>12 DEF vars
<1> QED
  BY <1>2, <1>3, <1>4, <1>5, <1>6, <1>7, <1>8, <1>9, <1>10, <1>11, <1>12 DEF Next

\* A list of targets has a length, and targets at its positions.
LEMMA TargetsLength ==
  /\ Len(Targets) \in Nat
  /\ DOMAIN Targets = 1 .. Len(Targets)
  /\ Remotes = {Targets[n] : n \in 1 .. Len(Targets)}
BY TargetsType DEF Remotes

\* The repository begins well typed.
LEMMA InitType == RepoInit => RepoTypeOK
<1> SUFFICES ASSUME RepoInit PROVE RepoTypeOK
  OBVIOUS
<1>1. (CHOOSE t \in Texts : TRUE) \in Texts
  BY SoulAssumption
<1>2. tree \in [Paths -> Content] /\ index = tree /\ head = tree
  BY <1>1 DEF RepoInit, Content
<1>3. pushing \in [at : 1 .. Len(Targets) + 1, attempt : 1 .. MaxAttempts, failed : BOOLEAN]
  BY TargetsLength, SoulAssumption DEF RepoInit, NoPush
<1>4. steps \in 0 .. MaxSteps /\ edits \in 0 .. MaxEdits /\ accidents \in 0 .. MaxAccidents
  BY SoulAssumption, AccidentsAssumption DEF RepoInit
<1> QED
  BY <1>2, <1>3, <1>4 DEF RepoInit, RepoTypeOK, Authors, Phases, States

\* Whoever is renamed, the authors are authors.
LEMMA RenamedType ==
  ASSUME author \in [Paths -> Authors], NEW ps, NEW was, NEW now \in Authors
  PROVE  Renamed(ps, was, now) \in [Paths -> Authors]
BY DEF Renamed

\* Every action keeps the types.
LEMMA RepoTypeStep ==
  ASSUME RepoTypeOK, RepoNext, accidents' \in 0 .. MaxAccidents
  PROVE  RepoTypeOK'
<1> USE DEF RepoTypeOK, files, run
<1> DEFINE Names == \A ps, was : \A now \in Authors :
                      Renamed(ps, was, now) \in [Paths -> Authors]
<1>a. Names
  BY RenamedType
<1>b. {"step", "earlier", "left", "operator", "harness"} \subseteq Authors
  BY DEF Authors
<1>c. NoPush \in [at : 1 .. Len(Targets) + 1, attempt : 1 .. MaxAttempts, failed : BOOLEAN]
  BY TargetsLength, SoulAssumption DEF NoPush
<1>1. ASSUME NEW s \in States, StepBegins(s) PROVE RepoTypeOK'
  BY <1>1, <1>a, <1>b, SoulAssumption DEF StepBegins, Phases
<1>2. ASSUME NEW p \in Paths, NEW who \in Authors, Edit(p, who) PROVE RepoTypeOK'
  BY <1>2, SoulAssumption DEF Edit
<1>3. CASE \E p \in Paths : AgentEdits(p)
  BY <1>2, <1>3, <1>b DEF AgentEdits
<1>4. CASE InvocationFails
  BY <1>4, <1>a, <1>b DEF InvocationFails, Phases
<1>5. CASE InvocationReturns
  BY <1>5 DEF InvocationReturns, Phases
<1>6. CASE Status
  <2>1. Keepable \subseteq Paths
    BY DEF Keepable, Changed
  <2>2. Revertible \subseteq [path : Paths, untracked : BOOLEAN]
    <3>1. \A p \in Paths : Untracked(p) \in BOOLEAN
      BY DEF Untracked
    <3> QED
      BY <3>1 DEF Revertible, Changed
  <2> QED
    BY <1>6, <2>1, <2>2 DEF Status, Phases
<1>7. CASE StatusFails
  BY <1>7, <1>a, <1>b DEF StatusFails, Phases
<1>8. ASSUME NEW c \in changes, Revert(c) PROVE RepoTypeOK'
  <2>1. c.path \in Paths /\ Absent \in Content
    BY DEF Content
  <2> QED
    BY <1>8, <1>b, <2>1 DEF Revert, RestoreToHead
<1>9. ASSUME NEW c \in changes, RevertFails(c) PROVE RepoTypeOK'
  BY <1>9, <1>a, <1>b DEF RevertFails
<1>10. CASE Stage
  BY <1>10 DEF Stage, Phases
<1>11. CASE Sweep
  <2>1. lacking' \subseteq Remotes /\ dirty' \in BOOLEAN
    BY <1>11 DEF Sweep, CommitPaths
  <2>2. head' \in [Paths -> Content] /\ index' \in [Paths -> Content]
    BY <1>11 DEF Sweep, CommitPaths
  <2>3. author' \in [Paths -> Authors]
    BY <1>11, <1>a, <1>b DEF Sweep
  <2> QED
    BY <1>11, <2>1, <2>2, <2>3 DEF Sweep, Phases
<1>12. CASE SweepFails
  BY <1>12, <1>a, <1>b DEF SweepFails, Phases
<1>13. CASE NothingToSweep
  BY <1>13 DEF NothingToSweep, Phases
<1>14. ASSUME NEW ok \in BOOLEAN, StepLogged(ok) PROVE RepoTypeOK'
  BY <1>14 DEF StepLogged, Phases
<1>15. CASE PushSkipped \/ PushBegins
  BY <1>15 DEF PushSkipped, PushBegins, Phases
<1>16. ASSUME NEW failed \in BOOLEAN, MoreTargets
       PROVE  NextTarget(failed) \in [at : 1 .. Len(Targets) + 1, attempt : 1 .. MaxAttempts,
                                       failed : BOOLEAN]
  BY <1>16, TargetsLength, SoulAssumption DEF NextTarget, MoreTargets
<1>17. CASE PushSucceeds
  BY <1>16, <1>17 DEF PushSucceeds
<1>18. CASE PushRetried
  BY <1>18, SoulAssumption DEF PushRetried, AttemptsLeft
<1>19. CASE PushGivenUp
  <2>1. (pushing.failed \/ Target \in Required) \in BOOLEAN
    OBVIOUS
  <2> QED
    BY <1>16, <1>19, <2>1 DEF PushGivenUp
<1>20. CASE PushEnds
  BY <1>20, <1>c DEF PushEnds, FlagAfterPush, Phases
<1>21. CASE \E p \in Paths : OperatorEdits(p)
  BY <1>2, <1>21, <1>b DEF OperatorEdits
<1>22. CASE CommandCommits
  <2>1. raced' \subseteq Paths
    BY <1>22 DEF CommandCommits, Changed
  <2> QED
    BY <1>22, <1>a, <1>b, <2>1 DEF CommandCommits
<1>23. ASSUME NEW reached \in SUBSET Remotes, CommandPushes(reached) PROVE RepoTypeOK'
  BY <1>23 DEF CommandPushes
<1>24. CASE RepoCrash
  BY <1>24, <1>a, <1>b, <1>c DEF RepoCrash, Phases
<1>25. CASE Elsewhere
  BY <1>25 DEF Elsewhere, Phases
<1> QED
  BY <1>1, <1>3, <1>4, <1>5, <1>6, <1>7, <1>8, <1>9, <1>10, <1>11, <1>12, <1>13, <1>14,
     <1>15, <1>17, <1>18, <1>19, <1>20, <1>21, <1>22, <1>23, <1>24, <1>25
     DEF RepoNext, Reconciling, Pushing, Operating

\* The types of the repository are an invariant of the step.
LEMMA RepoTypeKept ==
  ASSUME RepoTypeOK, [Next]_vars
  PROVE  RepoTypeOK'
BY RepoSteps, RepoTypeStep, AccidentsBounded DEF RepoTypeOK

-----------------------------------------------------------------------------
(* The inductive invariants.                                                *)

\* The paths still to put back.
Pending == {c.path : c \in changes}

\* What differs from HEAD is explained, or it is the work of a step whose reconcile is
\* still to come or has put it on one of its lists; what that reconcile took for
\* untracked still is, unless the command raced it.
LeftoversInv ==
  /\ \A p \in Changed : author[p] = "step" \/ Explained(p)
  /\ phase \notin {"invoked", "reconcile", "revert", "staged"} =>
       \A p \in Changed : Explained(p)
  /\ phase \in {"revert", "staged"} =>
       \A p \in Changed : author[p] = "step" => p \in allowed \cup Pending
  /\ \A c \in changes : c.untracked =>
       (head[c.path] = Absent /\ index[c.path] = Absent) \/ c.path \in raced
  /\ phase # "revert" => changes = {}

\* The paths to commit are ones the state of the step may write.
AllowedInv == phase \in {"revert", "staged"} => \A p \in allowed : Permitted(p)

\* A required target that lacks something is still ahead of a push that has not failed.
CleanInv ==
  /\ CleanMeansPushed
  /\ phase = "push" /\ ~pushing.failed =>
       lacking \cap Required \subseteq {Targets[n] : n \in pushing.at .. Len(Targets)}
  /\ phase # "push" => pushing = NoPush

RepoInv == RepoTypeOK /\ LeftoversInv /\ AllowedInv /\ CleanInv

-----------------------------------------------------------------------------
(* Each part of the invariant is kept by every action.                      *)

\* What is renamed belongs to `now`; the rest to whom it belonged.
LEMMA RenamedTo ==
  ASSUME RepoTypeOK, NEW ps \in SUBSET Paths, NEW was, NEW now, NEW p \in Paths,
         author' = Renamed(ps, was, now)
  PROVE  author'[p] = IF p \in ps /\ author[p] \in was THEN now ELSE author[p]
BY DEF Renamed

\* A step that touches neither the contents nor whose they are keeps what is explained.
LEMMA SameExplained ==
  ASSUME UNCHANGED <<files, author, raced>>
  PROVE  /\ Changed' = Changed
         /\ \A p : Explained(p)' <=> Explained(p)
BY DEF files, Changed, Explained

LEMMA LeftoversKept ==
  ASSUME RepoTypeOK, LeftoversInv, RepoNext
  PROVE  LeftoversInv'
<1> USE DEF LeftoversInv, Pending
<1>0. \A p \in Changed : p \in Paths /\ author[p] \in Authors
  BY DEF Changed, RepoTypeOK
<1>1. ASSUME NEW s \in States, StepBegins(s) PROVE LeftoversInv'
  <2>1. Changed' = Changed /\ changes' = changes /\ phase' = "invoked" /\ changes = {}
    BY <1>1 DEF StepBegins, files, Changed
  <2>2. ASSUME NEW p \in Changed PROVE Explained(p)'
    BY <1>0, <1>1, <2>2, RenamedTo DEF StepBegins, Explained
  <2> QED
    BY <2>1, <2>2
<1>2. ASSUME NEW p \in Paths, NEW who \in {"step", "operator"}, Edit(p, who),
             who = "step" => phase = "invoked"
      PROVE  LeftoversInv'
  <2>1. /\ Changed' \subseteq Changed \cup {p}
        /\ UNCHANGED <<index, head, raced, changes, allowed, phase>>
        /\ author' = [author EXCEPT ![p] = who]
    BY <1>2 DEF Edit, Changed, RepoTypeOK
  <2>2. ASSUME NEW q \in Changed'
        PROVE  \/ q = p /\ author'[q] = who
               \/ q \in Changed /\ author'[q] = author[q] /\ (Explained(q)' <=> Explained(q))
    <3>1. author'[q] = IF q = p THEN who ELSE author[q]
      BY <2>1, <2>2 DEF RepoTypeOK, Changed
    <3> QED
      BY <2>1, <3>1 DEF Explained
  <2>3. who = "operator" => Explained(p)'
    BY <2>1 DEF Explained, RepoTypeOK
  <2> QED
    BY <1>2, <2>1, <2>2, <2>3
<1>3. CASE \E p \in Paths : AgentEdits(p)
  BY <1>2, <1>3 DEF AgentEdits
<1>4. CASE InvocationFails \/ StatusFails
  <2>1. /\ Changed' = Changed /\ UNCHANGED <<changes, raced>> /\ changes = {}
        /\ phase' \in {"asleep", "failed", "log"}
        /\ author' = Renamed(Paths, {"step"}, "left")
    BY <1>4 DEF InvocationFails, StatusFails, files, run, Changed
  <2>2. ASSUME NEW p \in Changed PROVE Explained(p)'
    BY <1>0, <2>1, RenamedTo DEF Explained
  <2> QED
    BY <2>1, <2>2
<1>5. CASE InvocationReturns
  BY <1>5, SameExplained DEF InvocationReturns, run
<1>6. CASE Status
  <2>1. Changed' = Changed /\ (\A p : Explained(p)' <=> Explained(p)) /\ UNCHANGED author
    BY <1>6, SameExplained DEF Status, run
  <2>2. ASSUME NEW p \in Changed PROVE p \in allowed' \cup Pending'
    <3>1. CASE Permitted(p)
      BY <1>6, <2>2, <3>1 DEF Status, Keepable
    <3>2. CASE ~Permitted(p)
      <4>1. [path |-> p, untracked |-> Untracked(p)] \in changes'
        BY <1>6, <2>2, <3>2, Zenon DEF Status, Revertible
      <4> QED
        BY <4>1
    <3> QED
      BY <3>1, <3>2
  <2>3. \A c \in changes' : c.untracked => head[c.path] = Absent /\ index[c.path] = Absent
    <3> SUFFICES ASSUME NEW c \in changes', c.untracked
                 PROVE  head[c.path] = Absent /\ index[c.path] = Absent
      OBVIOUS
    <3>1. PICK p \in Changed : c = [path |-> p, untracked |-> Untracked(p)]
      BY <1>6, Zenon DEF Status, Revertible
    <3>2. c.path = p /\ (c.untracked = Untracked(p))
      BY <3>1
    <3> QED
      BY <3>2, Zenon DEF Untracked
  <2>4. UNCHANGED <<head, index>>
    BY <1>6 DEF Status, files
  <2>5. Changed = {} => Keepable = {} /\ Revertible = {}
    BY DEF Keepable, Revertible, Changed
  <2>6. CASE Changed = {}
    BY <1>6, <2>1, <2>5, <2>6 DEF Status
  <2>7. CASE Changed # {}
    BY <1>6, <2>1, <2>2, <2>3, <2>4, <2>7 DEF Status
  <2> QED
    BY <2>6, <2>7
<1>7. ASSUME NEW c \in changes, Revert(c) PROVE LeftoversInv'
  <2>1. c.path \in Paths /\ phase = "revert" /\ phase' = phase /\ raced' = raced
        /\ head' = head /\ allowed' = allowed /\ changes' = changes \ {c}
    BY <1>7 DEF Revert, RepoTypeOK, run
  <2>2. c.path \in Changed' => Explained(c.path)'
    BY <1>7, <2>1 DEF Revert, RestoreToHead, Changed, Explained, RepoTypeOK
  <2>3. ASSUME NEW p \in Changed', p # c.path
        PROVE  p \in Changed /\ author'[p] = author[p] /\ (Explained(p)' <=> Explained(p))
    BY <1>7, <2>1, <2>3 DEF Revert, RestoreToHead, Changed, Explained, RepoTypeOK
  <2>4. ASSUME NEW d \in changes', d.untracked
        PROVE  (head'[d.path] = Absent /\ index'[d.path] = Absent) \/ d.path \in raced'
    <3>1. (head[d.path] = Absent /\ index[d.path] = Absent) \/ d.path \in raced
      BY <2>1, <2>4
    <3>2. index'[d.path] \in {index[d.path], head[d.path]}
      BY <1>7, <2>1 DEF Revert, RestoreToHead, RepoTypeOK
    <3> QED
      BY <2>1, <3>1, <3>2
  <2>5. ASSUME NEW p \in Changed', author'[p] = "step" PROVE p \in allowed' \cup Pending'
    <3>1. p # c.path
      BY <1>7, <2>1, <2>5 DEF Revert, RestoreToHead, RepoTypeOK
    <3> QED
      BY <2>1, <2>3, <2>5, <3>1
  <2> QED
    BY <2>1, <2>2, <2>3, <2>4, <2>5
<1>8. ASSUME NEW c \in changes, RevertFails(c) PROVE LeftoversInv'
  <2>1. c.path \in Paths /\ phase = "revert" /\ phase' = phase /\ Changed' = Changed
        /\ UNCHANGED <<head, index, raced, allowed>> /\ changes' = changes \ {c}
    BY <1>8 DEF RevertFails, RepoTypeOK, run, files, Changed
  <2>2. \A p \in Changed : author'[p] = IF p = c.path THEN "left" ELSE author[p]
    <3>1. {c.path} \in SUBSET Paths /\ author' = Renamed({c.path}, Authors, "left")
      BY <1>8, <2>1 DEF RevertFails
    <3> QED
      <4> TAKE p \in Changed
      <4>1. p \in Paths /\ author[p] \in Authors
        BY <1>0
      <4>2. author'[p] = IF p \in {c.path} /\ author[p] \in Authors THEN "left" ELSE author[p]
        BY <3>1, <4>1, RenamedTo
      <4> QED
        BY <4>1, <4>2
  <2>3. \A p \in Changed : Explained(p)' <=> (p = c.path \/ Explained(p))
    BY <2>1, <2>2 DEF Explained
  <2> QED
    BY <2>1, <2>2, <2>3
<1>9. CASE Stage
  <2>1. /\ phase = "revert" /\ changes = {} /\ UNCHANGED <<tree, head, author, raced, changes, allowed>>
        /\ index' = [p \in Paths |-> IF p \in allowed THEN tree[p] ELSE index[p]]
        /\ phase' = IF \A p \in allowed : tree[p] = head[p] THEN "log" ELSE "staged"
    BY <1>9 DEF Stage, run
  <2>2. ASSUME NEW p \in Changed'
        PROVE  p \in Changed /\ (p \in allowed => tree[p] # head[p]) /\ (Explained(p)' <=> Explained(p))
    BY <2>1 DEF Changed, Explained
  <2> QED
    BY <2>1, <2>2
<1>10. CASE Sweep
  <2>1. /\ changes = {} /\ changes' = changes /\ UNCHANGED <<tree, raced>> /\ phase' = "log"
        /\ phase = "staged"
        /\ head' = [p \in Paths |-> IF p \in allowed THEN tree[p] ELSE head[p]]
        /\ index' = [p \in Paths |-> IF p \in allowed THEN tree[p] ELSE index[p]]
        /\ author' = Renamed(allowed, Authors, "harness")
    BY <1>10 DEF Sweep, CommitPaths, run
  <2>2. ASSUME NEW p \in Changed' PROVE p \in Changed \ allowed /\ (Explained(p)' <=> Explained(p))
    <3>1. p \in Paths /\ p \notin allowed /\ p \in Changed
      BY <2>1, <2>2 DEF Changed
    <3>2. author'[p] = author[p]
      BY <2>1, <3>1 DEF Renamed
    <3> QED
      BY <2>1, <3>1, <3>2 DEF Explained
  <2> QED
    BY <2>1, <2>2
<1>11. CASE SweepFails
  <2>1. /\ changes = {} /\ Changed' = Changed /\ UNCHANGED <<changes, raced>> /\ phase' = "log"
        /\ phase \in {"revert", "staged"}
        /\ author' = Renamed(allowed, Authors, "left")
    BY <1>11 DEF SweepFails, run, files, Changed
  <2>2. allowed \in SUBSET Paths
    BY DEF RepoTypeOK
  <2>3. ASSUME NEW p \in Changed PROVE Explained(p)'
    BY <1>0, <2>1, <2>2, RenamedTo DEF Explained
  <2> QED
    BY <2>1, <2>3
<1>12. CASE NothingToSweep
  BY <1>12, SameExplained DEF NothingToSweep, run
<1>13. ASSUME NEW ok \in BOOLEAN, StepLogged(ok) PROVE LeftoversInv'
  <2>1. /\ phase = "log" /\ phase' \in {"awake", "failed"}
        /\ UNCHANGED <<files, author, raced, changes>>
    BY <1>13 DEF StepLogged, run
  <2> QED
    BY <2>1, SameExplained
<1>14. CASE Pushing
  <2>1. /\ UNCHANGED <<files, author, raced, changes, allowed>>
        /\ phase \notin {"invoked", "reconcile", "revert", "staged"}
        /\ phase' \notin {"invoked", "reconcile", "revert", "staged"}
    BY <1>14 DEF Pushing, PushSkipped, PushBegins, PushSucceeds, PushRetried, PushGivenUp,
                 PushEnds, MoreTargets, run
  <2> QED
    BY <2>1, SameExplained DEF files
<1>15. CASE \E p \in Paths : OperatorEdits(p)
  BY <1>2, <1>15 DEF OperatorEdits
<1>16. CASE CommandCommits
  <2>1. /\ Changed' = {} /\ UNCHANGED <<phase, changes, allowed>>
        /\ head' = tree /\ index' = tree
        /\ raced' = raced \cup {p \in Changed : [path |-> p, untracked |-> TRUE] \in changes}
    BY <1>16 DEF CommandCommits, Changed
  <2>2. ASSUME NEW c \in changes, c.untracked
        PROVE  (head'[c.path] = Absent /\ index'[c.path] = Absent) \/ c.path \in raced'
    <3>1. c.path \in Paths /\ c = [path |-> c.path, untracked |-> TRUE]
      BY <2>2 DEF RepoTypeOK
    <3>2. CASE c.path \in Changed
      BY <2>1, <3>1, <3>2
    <3>3. CASE c.path \notin Changed
      BY <2>1, <2>2, <3>1, <3>3 DEF Changed
    <3> QED
      BY <3>2, <3>3
  <2> QED
    BY <2>1, <2>2
<1>17. ASSUME NEW reached \in SUBSET Remotes, CommandPushes(reached) PROVE LeftoversInv'
  <2>1. UNCHANGED <<files, author, raced, changes, allowed, phase>>
    BY <1>17 DEF CommandPushes, run
  <2> QED
    BY <2>1, SameExplained DEF files
<1>18. CASE RepoCrash
  <2>1. /\ Changed' = Changed /\ raced' = raced /\ changes' = {} /\ phase' = "asleep"
    BY <1>18 DEF RepoCrash, run, files, Changed
  <2>2. CASE phase \in {"invoked", "reconcile", "revert", "staged"}
    <3>1. author' = Renamed(Paths, {"step"}, "left")
      BY <1>18, <2>2 DEF RepoCrash
    <3>2. ASSUME NEW p \in Changed PROVE Explained(p)'
      BY <1>0, <2>1, <3>1, RenamedTo DEF Explained
    <3> QED
      BY <2>1, <3>2
  <2>3. CASE phase \notin {"invoked", "reconcile", "revert", "staged"}
    <3>1. author' = author
      BY <1>18, <2>3 DEF RepoCrash
    <3> QED
      BY <2>1, <2>3, <3>1 DEF Explained
  <2> QED
    BY <2>2, <2>3
<1>19. CASE Elsewhere
  <2>1. UNCHANGED <<files, author, raced, changes, allowed>>
    BY <1>19 DEF Elsewhere
  <2> QED
    BY <1>19, <2>1, SameExplained DEF Elsewhere, files
<1> QED
  BY <1>1, <1>3, <1>4, <1>5, <1>6, <1>7, <1>8, <1>9, <1>10, <1>11, <1>12, <1>13, <1>14,
     <1>15, <1>16, <1>17, <1>18, <1>19 DEF RepoNext, Reconciling, Operating

LEMMA AllowedKept ==
  ASSUME RepoTypeOK, LeftoversInv, AllowedInv, RepoNext
  PROVE  AllowedInv'
<1>1. CASE Status
  BY <1>1 DEF Status, Keepable, Permitted, AllowedInv, run
<1>2. CASE UNCHANGED <<phase, allowed, state>>
  BY <1>2 DEF AllowedInv, Permitted
<1>3. CASE Stage
  BY <1>3 DEF Stage, AllowedInv, Permitted, run
<1>4. CASE phase' \notin {"revert", "staged"}
  BY <1>4 DEF AllowedInv
<1>5. ASSUME NEW s \in States, StepBegins(s) PROVE phase' \notin {"revert", "staged"}
  BY <1>5 DEF StepBegins
<1>6. ASSUME NEW p \in Paths, AgentEdits(p) \/ OperatorEdits(p)
      PROVE  UNCHANGED <<phase, allowed, state>>
  BY <1>6 DEF AgentEdits, OperatorEdits, Edit
<1>7. CASE InvocationFails \/ InvocationReturns \/ StatusFails \/ Sweep \/ SweepFails
           \/ NothingToSweep \/ Pushing \/ RepoCrash
  BY <1>4, <1>7 DEF InvocationFails, InvocationReturns, StatusFails, Sweep, SweepFails,
     NothingToSweep, Pushing, PushSkipped, PushBegins, PushSucceeds, PushRetried, PushGivenUp,
     PushEnds, MoreTargets, RepoCrash
<1>8. ASSUME NEW c \in changes, Revert(c) \/ RevertFails(c)
      PROVE  UNCHANGED <<phase, allowed, state>>
  BY <1>8 DEF Revert, RevertFails, run
<1>9. ASSUME NEW ok \in BOOLEAN, StepLogged(ok) PROVE phase' \notin {"revert", "staged"}
  BY <1>9 DEF StepLogged
<1>10. CASE CommandCommits
  BY <1>2, <1>10 DEF CommandCommits
<1>11. ASSUME NEW reached \in SUBSET Remotes, CommandPushes(reached)
       PROVE  UNCHANGED <<phase, allowed, state>>
  BY <1>11 DEF CommandPushes, run
<1>12. CASE Elsewhere
  BY <1>2, <1>4, <1>12 DEF Elsewhere
<1> QED
  BY <1>1, <1>2, <1>3, <1>4, <1>5, <1>6, <1>7, <1>8, <1>9, <1>10, <1>11, <1>12
     DEF RepoNext, Reconciling, Operating

LEMMA CleanKept ==
  ASSUME RepoTypeOK, CleanInv, RepoNext
  PROVE  CleanInv'
<1> USE DEF CleanInv, CleanMeansPushed
<1>1. CASE UNCHANGED <<dirty, lacking, pushing>> /\ (phase = "push" <=> phase' = "push")
  BY <1>1
<1>2. ASSUME NEW s \in States, StepBegins(s)
      PROVE  UNCHANGED <<dirty, lacking, pushing>> /\ phase # "push" /\ phase' # "push"
  BY <1>2 DEF StepBegins
<1>3. ASSUME NEW p \in Paths, AgentEdits(p) \/ OperatorEdits(p)
      PROVE  UNCHANGED <<dirty, lacking, pushing, phase>>
  BY <1>3 DEF AgentEdits, OperatorEdits, Edit
<1>4. CASE InvocationFails \/ InvocationReturns \/ Status \/ StatusFails \/ Stage
           \/ SweepFails \/ NothingToSweep \/ PushSkipped
  BY <1>1, <1>4 DEF InvocationFails, InvocationReturns, Status, StatusFails, Stage,
     SweepFails, NothingToSweep, PushSkipped
<1>5. ASSUME NEW c \in changes, Revert(c) \/ RevertFails(c)
      PROVE  UNCHANGED <<dirty, lacking, pushing, phase>>
  BY <1>5 DEF Revert, RevertFails
<1>6. CASE Sweep
  BY <1>6 DEF Sweep, CommitPaths
<1>7. ASSUME NEW ok \in BOOLEAN, StepLogged(ok)
      PROVE  UNCHANGED <<dirty, lacking, pushing>> /\ phase # "push" /\ phase' # "push"
  BY <1>7 DEF StepLogged
<1>8. CASE PushBegins
  <2>1. pushing.at = 1 /\ UNCHANGED <<dirty, lacking, pushing>> /\ phase' = "push"
    BY <1>8 DEF PushBegins, NoPush
  <2>2. lacking \subseteq {Targets[n] : n \in 1 .. Len(Targets)}
    BY TargetsLength DEF RepoTypeOK
  <2> QED
    BY <1>8, <2>1, <2>2 DEF PushBegins
<1>9. ASSUME MoreTargets, NEW failed \in BOOLEAN, pushing' = NextTarget(failed),
             UNCHANGED <<dirty, phase>>, lacking' \subseteq lacking, pushing.failed => failed,
             ~failed => Target \notin lacking' \cap Required
      PROVE  CleanInv'
  <2>1. pushing'.at = pushing.at + 1 /\ pushing'.failed = failed /\ phase = "push"
        /\ pushing.at \in 1 .. Len(Targets)
    BY <1>9, TargetsLength DEF NextTarget, MoreTargets, RepoTypeOK
  <2>2. ASSUME ~failed
        PROVE  lacking' \cap Required \subseteq {Targets[n] : n \in pushing.at + 1 .. Len(Targets)}
    <3>1. lacking' \cap Required \subseteq {Targets[n] : n \in pushing.at .. Len(Targets)}
      BY <1>9, <2>1, <2>2
    <3>2. \A n \in pushing.at .. Len(Targets) : n = pushing.at \/ n \in pushing.at + 1 .. Len(Targets)
      BY <2>1, TargetsLength
    <3> QED
      BY <1>9, <2>2, <3>1, <3>2 DEF Target
  <2> QED
    BY <1>9, <2>1, <2>2
<1>10. CASE PushSucceeds
  <2>1. pushing.failed \in BOOLEAN /\ lacking' = lacking \ {Target}
    BY <1>10 DEF PushSucceeds, RepoTypeOK
  <2> QED
    BY <1>9, <1>10, <2>1 DEF PushSucceeds
<1>11. CASE PushRetried
  <2>1. pushing'.at = pushing.at /\ pushing'.failed = pushing.failed
        /\ UNCHANGED <<dirty, lacking, phase>> /\ phase = "push"
    BY <1>11 DEF PushRetried, MoreTargets, RepoTypeOK
  <2> QED
    BY <2>1
<1>12. CASE PushGivenUp
  <2>1. (pushing.failed \/ Target \in Required) \in BOOLEAN /\ lacking' = lacking
    BY <1>12 DEF PushGivenUp
  <2> QED
    BY <1>9, <1>12, <2>1 DEF PushGivenUp
<1>13. CASE PushEnds
  <2>1. pushing.at > Len(Targets) /\ phase = "push" /\ lacking' = lacking
        /\ dirty' = pushing.failed /\ pushing' = NoPush /\ phase' = "asleep"
    BY <1>13 DEF PushEnds, FlagAfterPush
  <2>2. pushing.at \in Nat /\ {Targets[n] : n \in pushing.at .. Len(Targets)} = {}
    BY <2>1, TargetsLength DEF RepoTypeOK
  <2> QED
    BY <2>1, <2>2
<1>14. CASE CommandCommits
  BY <1>1, <1>14 DEF CommandCommits
<1>15. ASSUME NEW reached \in SUBSET Remotes, CommandPushes(reached) PROVE CleanInv'
  BY <1>15 DEF CommandPushes
<1>16. CASE RepoCrash
  BY <1>16 DEF RepoCrash
<1>17. CASE Elsewhere
  BY <1>1, <1>17 DEF Elsewhere
<1> QED
  BY <1>1, <1>2, <1>3, <1>4, <1>5, <1>6, <1>7, <1>8, <1>10, <1>11, <1>12, <1>13, <1>14,
     <1>15, <1>16, <1>17 DEF RepoNext, Reconciling, Pushing, Operating

-----------------------------------------------------------------------------
(* The theorems.                                                            *)

LEMMA InitRepoInv == Init => RepoInv
<1> SUFFICES ASSUME RepoInit PROVE RepoInv
  BY DEF Init
<1>1. RepoTypeOK
  BY InitType
<1>2. Changed = {}
  BY DEF RepoInit, Changed
<1> QED
  BY <1>1, <1>2 DEF RepoInit, RepoInv, LeftoversInv, AllowedInv, CleanInv, CleanMeansPushed

LEMMA NextRepoInv == RepoInv /\ [Next]_vars => RepoInv'
BY RepoSteps, RepoTypeKept, LeftoversKept, AllowedKept, CleanKept DEF RepoInv

LEMMA RepoInvHolds == Spec => []RepoInv
BY InitRepoInv, NextRepoInv, PTL DEF Spec

\* The variables of the repository keep their types, and a push makes no more attempts on
\* a target than MAX_ATTEMPTS (push_with_backoff).
LEMMA RepoTypeCorrect == Spec => []RepoTypeOK
<1>1. RepoInv => RepoTypeOK
  BY DEF RepoInv
<1> QED
  BY <1>1, RepoInvHolds, PTL

\* Between steps whatever differs from HEAD was made by hand, or left by a step whose
\* reconcile_soul was skipped or failed: no state finds another state's work to commit.
THEOREM LeftoversAreExplained == Spec => []LeftoversExplained
<1>1. RepoInv => LeftoversExplained
  BY DEF RepoInv, LeftoversInv, LeftoversExplained
<1> QED
  BY <1>1, RepoInvHolds, PTL

\* While MultiRemoteRepo's `dirty` is down every required target has every commit.
THEOREM CleanIsPushed == Spec => []CleanMeansPushed
<1>1. RepoInv => CleanMeansPushed
  BY DEF RepoInv, CleanInv
<1> QED
  BY <1>1, RepoInvHolds, PTL

\* commit_paths at the end of a step commits only what the step's state may write, and
\* of that only the step's own work and explained leftovers.
THEOREM SweepsItsOwn == Spec => SweepsOnlyItsOwn
<1> DEFINE Own == (head' # head /\ phase = "staged" /\ command' = command) =>
                    \A p \in Paths : head'[p] # head[p] =>
                      Permitted(p) /\ (author[p] = "step" \/ Explained(p))
<1>1. RepoInv /\ [Next]_vars => [Own]_repoVars
  <2> SUFFICES ASSUME RepoInv, [Next]_vars, head' # head, phase = "staged",
                      command' = command, NEW p \in Paths, head'[p] # head[p]
               PROVE  Permitted(p) /\ (author[p] = "step" \/ Explained(p))
    OBVIOUS
  <2>1. RepoNext
    BY RepoSteps DEF RepoInv
  <2>2. CASE Sweep
    <3>1. head' = [q \in Paths |-> IF q \in allowed THEN tree[q] ELSE head[q]]
      BY <2>2 DEF Sweep, CommitPaths
    <3>2. p \in allowed /\ p \in Changed
      BY <3>1 DEF Changed
    <3> QED
      BY <3>2 DEF RepoInv, AllowedInv, LeftoversInv
  <2>3. ~CommandCommits
    BY DEF CommandCommits
  <2>4. ASSUME UNCHANGED files PROVE FALSE
    BY <2>4 DEF files
  <2>5. ASSUME NEW q \in Paths, AgentEdits(q) \/ OperatorEdits(q) PROVE FALSE
    BY <2>5 DEF AgentEdits, OperatorEdits, Edit
  <2>6. CASE Reconciling
    BY <2>2, <2>4, <2>6 DEF Reconciling, Status, StatusFails, Revert, RevertFails, Stage,
       SweepFails, NothingToSweep
  <2>7. CASE Pushing
    BY <2>4, <2>7 DEF Pushing, PushSkipped, PushBegins, PushSucceeds, PushRetried,
       PushGivenUp, PushEnds
  <2>8. CASE Operating
    BY <2>3, <2>4, <2>5, <2>8 DEF Operating, CommandPushes
  <2> QED
    BY <2>1, <2>4, <2>5, <2>6, <2>7, <2>8 DEF RepoNext, StepBegins, InvocationFails,
       InvocationReturns, StepLogged, RepoCrash, Elsewhere
<1> QED
  BY <1>1, RepoInvHolds, PTL DEF Spec, SweepsOnlyItsOwn

-----------------------------------------------------------------------------
(* Sequences and days.                                                      *)

\* Today is one of the days.
LEMMA TodayIsADay == ASSUME clock \in 0 .. MaxTime PROVE Today \in Days
<1>1. ASSUME NEW a \in Nat, NEW b \in Nat, NEW d \in Nat \ {0}, a <= b
      PROVE  a \div d \in 0 .. b \div d
  BY <1>1
<1> QED
  BY <1>1, RunlogAssumption DEF Today, Days

LEMMA NoDayIsNoDay == NoDay \notin Days
BY RunlogAssumption DEF NoDay, Days

\* The newest n of a sequence are its last, all of them if there are no more.
LEMMA NewestProperties ==
  ASSUME NEW S, NEW s \in Seq(S), NEW n \in Nat
  PROVE  /\ Newest(s, n) \in Seq(S)
         /\ Len(Newest(s, n)) <= Len(s)
         /\ \A i \in 1 .. Len(Newest(s, n)) :
              Newest(s, n)[i] = s[Len(s) - Len(Newest(s, n)) + i]
<1>1. Len(s) \in Nat
  OBVIOUS
<1>2. CASE Len(s) <= n
  BY <1>1, <1>2 DEF Newest
<1>3. CASE ~(Len(s) <= n)
  <2> DEFINE m == Len(s) - n + 1
  <2>1. m \in 1 .. Len(s) + 1 /\ Len(s) - m + 1 = n
    BY <1>1, <1>3
  <2>2. \A i \in m .. Len(s) : s[i] \in S
    BY <2>1
  <2>3. /\ SubSeq(s, m, Len(s)) \in Seq(S)
        /\ Len(SubSeq(s, m, Len(s))) = n
        /\ \A i \in 1 .. n : SubSeq(s, m, Len(s))[i] = s[m + i - 1]
    BY <1>1, <1>3, <2>1, <2>2, SubSeqProperties
  <2>4. Newest(s, n) = SubSeq(s, m, Len(s))
    BY <1>3 DEF Newest
  <2>5. \A i \in 1 .. n : m + i - 1 = Len(s) - n + i
    BY <1>1
  <2> HIDE DEF m
  <2> QED
    BY <1>1, <1>3, <2>3, <2>4, <2>5
<1> QED
  BY <1>2, <1>3

\* An entry that is appended is in the file with those that were.
LEMMA AppendedElements ==
  ASSUME NEW S, NEW s \in Seq(S), NEW e \in S
  PROVE  Elements(Appended(s, e)) = Elements(s) \cup {e}
<1>1. Len(Append(s, e)) = Len(s) + 1 /\ Len(s) \in Nat
      /\ \A i \in 1 .. Len(s) : Append(s, e)[i] = s[i]
      /\ Append(s, e)[Len(s) + 1] = e
      /\ DOMAIN s = 1 .. Len(s) /\ DOMAIN Append(s, e) = 1 .. Len(s) + 1
  OBVIOUS
<1> QED
  BY <1>1 DEF Elements, Appended

-----------------------------------------------------------------------------
(* The steps of Soul, as the runlog sees them.                              *)

\* A session whose context grew past its cap.
Evicted(t) ==
  /\ lastUsed' = [lastUsed EXCEPT ![t] = NoSession]
  /\ UNCHANGED <<clock, day, notes, counted, writing, logged, wiped, noted, known, miscounted>>

\* The runs that may be written: that of the step, or that of the failed wake.
RunsAt(n) == 1 .. n \cup MaxSteps + 1 .. MaxSteps + n

EntryOf(r) == [run |-> r, thread |-> wake.thread, received |-> wake.received]

LogNext ==
  \/ /\ \/ LogTick
        \/ \E r \in RunsAt(steps) \cap {steps, MaxSteps + steps} : LogWrite(EntryOf(r))
        \/ LogCommit \/ LogCommitFails \/ TakeNote
        \/ steps > 0 /\ StoreSession(wake.thread, steps)
        \/ Evicted(wake.thread)
        \/ \E healthy \in BOOLEAN : LogBoot(healthy)
        \/ UNCHANGED logVars
     /\ UNCHANGED <<steps, wake>>
  \/ /\ UNCHANGED logVars
     /\ steps' = steps + 1 /\ steps' <= MaxSteps
     /\ wake' \in {wake} \cup [thread : Threads, received : 0 .. clock]

\* A wake has begun a step, or has failed for want of one.
StepTaken == phase # "asleep" => steps > 0

LEMMA StepTakenKept ==
  ASSUME RepoTypeOK, StepTaken, [Next]_vars
  PROVE  StepTaken'
<1> USE DEF StepTaken
<1>1. ASSUME NEW s \in States, StepBegins(s) PROVE StepTaken'
  BY <1>1 DEF StepBegins, RepoTypeOK
<1>2. CASE steps' = steps /\ (phase' = "asleep" \/ phase # "asleep" \/ phase' = phase)
  BY <1>2
<1>3. CASE \E s \in States : WakeBegins(s) \/ WakeGoesOn(s)
  BY <1>1, <1>3 DEF WakeBegins, WakeGoesOn
<1>4. CASE Returns \/ HonorTagNotes \/ WriteRunlog \/ LogFailure \/ FailureLogged
  BY <1>2, <1>4 DEF Returns, InvocationReturns, HonorTagNotes, WriteRunlog, LogFailure,
     FailureLogged, run, repoVars
<1>5. CASE RunlogCommitted \/ RunlogFails
  BY <1>2, <1>5 DEF RunlogCommitted, RunlogFails, StepLogged, run
<1>6. CASE Unresolved
  BY <1>6 DEF Unresolved, RepoTypeOK
<1>7. CASE RepoStep
  <2>1. CASE \E p \in Paths : AgentEdits(p)
    BY <1>2, <2>1 DEF AgentEdits, Edit
  <2>2. CASE InvocationFails
    BY <1>2, <2>2 DEF InvocationFails, run
  <2>3. CASE Reconciling
    BY <1>2, <2>3 DEF Reconciling, Status, StatusFails, Revert, RevertFails, Stage, Sweep,
       SweepFails, NothingToSweep, run
  <2>4. CASE Pushing
    BY <1>2, <2>4 DEF Pushing, PushSkipped, PushBegins, PushSucceeds, PushRetried,
       PushGivenUp, PushEnds, run
  <2>5. CASE Operating
    BY <1>2, <2>5 DEF Operating, OperatorEdits, Edit, CommandCommits, CommandPushes, run
  <2> QED
    BY <1>7, <2>1, <2>2, <2>3, <2>4, <2>5 DEF RepoStep
<1>8. CASE Crash
  BY <1>2, <1>8 DEF Crash, RepoCrash, run
<1>9. CASE (LogTick /\ UNCHANGED <<repoVars, wake, accidents>>) \/ UNCHANGED vars
  BY <1>2, <1>9 DEF vars, repoVars
<1> QED
  BY <1>3, <1>4, <1>5, <1>6, <1>7, <1>8, <1>9 DEF Next

\* Every step of Soul is one of the runlog's.
LEMMA LogSteps ==
  ASSUME RepoTypeOK, StepTaken, [Next]_vars
  PROVE  LogNext
<1> DEFINE Same == UNCHANGED <<steps, wake>>
<1>1. CASE \E s \in States : WakeBegins(s) \/ WakeGoesOn(s)
  BY <1>1, SoulAssumption DEF WakeBegins, WakeGoesOn, StepBegins, LogNext, RepoTypeOK
<1>2. CASE Returns
  BY <1>2 DEF Returns, InvocationReturns, run, StepTaken, Evicted, LogNext, RepoTypeOK
<1>3. CASE HonorTagNotes
  BY <1>3 DEF HonorTagNotes, repoVars, LogNext
<1>4. steps > 0 => {steps, MaxSteps + steps} \subseteq RunsAt(steps)
  BY SoulAssumption DEF RunsAt, RepoTypeOK
<1>5. CASE WriteRunlog
  BY <1>4, <1>5 DEF WriteRunlog, repoVars, StepTaken, EntryOf, LogNext
<1>6. CASE LogFailure
  BY <1>4, <1>6 DEF LogFailure, repoVars, StepTaken, EntryOf, LogNext
<1>7. CASE RunlogCommitted \/ RunlogFails
  BY <1>7 DEF RunlogCommitted, RunlogFails, StepLogged, run, LogNext
<1>8. CASE Unresolved
  BY <1>8, SoulAssumption DEF Unresolved, LogNext, RepoTypeOK
<1>9. CASE FailureLogged
  BY <1>9 DEF FailureLogged, run, LogNext
<1>10. CASE RepoStep
  <2>1. CASE \E p \in Paths : AgentEdits(p)
    BY <1>10, <2>1 DEF RepoStep, AgentEdits, Edit, LogNext
  <2>2. CASE InvocationFails
    BY <1>10, <2>2 DEF RepoStep, InvocationFails, run, LogNext
  <2>3. CASE Reconciling
    BY <1>10, <2>3 DEF RepoStep, Reconciling, Status, StatusFails, Revert, RevertFails, Stage,
       Sweep, SweepFails, NothingToSweep, run, LogNext
  <2>4. CASE Pushing
    BY <1>10, <2>4 DEF RepoStep, Pushing, PushSkipped, PushBegins, PushSucceeds, PushRetried,
       PushGivenUp, PushEnds, run, LogNext
  <2>5. CASE Operating
    BY <1>10, <2>5 DEF RepoStep, Operating, OperatorEdits, Edit, CommandCommits,
       CommandPushes, run, LogNext
  <2> QED
    BY <1>10, <2>1, <2>2, <2>3, <2>4, <2>5 DEF RepoStep
<1>11. CASE Crash
  BY <1>11 DEF Crash, RepoCrash, run, LogNext
<1>12. CASE LogTick /\ UNCHANGED <<repoVars, wake, accidents>>
  BY <1>12 DEF repoVars, LogNext
<1>13. CASE UNCHANGED vars
  BY <1>13 DEF vars, repoVars, LogNext
<1> QED
  BY <1>1, <1>2, <1>3, <1>5, <1>6, <1>7, <1>8, <1>9, <1>10, <1>11, <1>12, <1>13 DEF Next

-----------------------------------------------------------------------------
(* The inductive invariants.                                                *)

\* What a session knows happened no later than it was last used: every entry it knows of
\* was received by then, and so was the wake that runs, if its run is among them. Runs to
\* come are unknown.
SessionInv ==
  /\ wake.received <= clock
  /\ \A d \in Days : \A e \in Elements(day[d]) : e.received <= clock
  /\ \A n \in DOMAIN logged : logged[n].run \in RunsAt(steps)
  /\ \A t \in Threads :
       /\ known[t] \subseteq RunsAt(steps)
       /\ lastUsed[t] # NoSession =>
            /\ \A d \in Days : \A e \in Elements(day[d]) :
                 e.run \in known[t] => e.received <= lastUsed[t]
            /\ {steps, MaxSteps + steps} \cap known[t] # {} =>
                 wake.received <= lastUsed[t]

LogInv ==
  /\ TypeOK /\ StepTaken
  /\ NothingUnwritten /\ CountsAgree /\ NotesAreNewest
  /\ SessionInv

-----------------------------------------------------------------------------
(* Each part of the invariant is kept by every action.                      *)

\* An entry of the wake that runs is an entry.
LEMMA EntryType ==
  ASSUME TypeOK, NEW r \in RunsAt(steps)
  PROVE  EntryOf(r) \in Entry
BY SoulAssumption DEF TypeOK, RepoTypeOK, RunsAt, EntryOf, Entry

\* What a file's elements are.
LEMMA ElementsType == ASSUME NEW S, NEW s \in Seq(S) PROVE Elements(s) \subseteq S
BY DEF Elements

\* A written entry is the last of its day, whose text was read right or lost.
LEMMA LogWriteEffect ==
  ASSUME LogTypeOK, NEW e \in Entry, LogWrite(e)
  PROVE  \E text \in {day[Today], <<>>} :
           /\ day' = [day EXCEPT ![Today] = Append(text, e)]
           /\ text \in Seq(Entry) /\ Today \in Days
           /\ Elements(Append(text, e)) = Elements(text) \cup {e}
           /\ wiped' = wiped \cup (Elements(day[Today]) \ Elements(text))
           /\ miscounted' = IF text = day[Today] THEN miscounted ELSE miscounted \cup {Today}
<1>1. PICK text \in {day[Today], <<>>} :
        /\ day' = [day EXCEPT ![Today] = Append(text, e)]
        /\ wiped' = wiped \cup (Elements(day[Today]) \ Elements(text))
        /\ miscounted' = IF text = day[Today] THEN miscounted ELSE miscounted \cup {Today}
  BY DEF LogWrite, Appended
<1>2. Today \in Days
  BY TodayIsADay DEF LogTypeOK
<1>3. text \in Seq(Entry)
  BY <1>1, <1>2, EmptySeq DEF LogTypeOK
<1>4. Elements(Append(text, e)) = Elements(text) \cup {e}
  BY <1>3, AppendedElements DEF Appended
<1> QED
  BY <1>1, <1>2, <1>3, <1>4

\* The notes after one more was taken are the newest of some text and it.
LEMMA TakeNoteEffect ==
  ASSUME LogTypeOK, TakeNote
  PROVE  \E text \in {notes, <<>>} :
           /\ notes' \in Seq(Nat)
           /\ Len(notes') <= Len(Append(text, noted + 1))
           /\ \A i \in 1 .. Len(notes') :
                notes'[i] = Append(text, noted + 1)[Len(Append(text, noted + 1)) - Len(notes') + i]
<1>1. PICK text \in {notes, <<>>} : notes' = Capped(Append(text, noted + 1))
  BY DEF TakeNote
<1> DEFINE s == Append(text, noted + 1)
<1>2. s \in Seq(Nat)
  <2>1. text \in Seq(Nat)
    BY <1>1, EmptySeq DEF LogTypeOK
  <2>2. noted + 1 \in Nat
    BY DEF LogTypeOK
  <2> QED
    BY <2>1, <2>2
<1> HIDE DEF s
<1>3. CASE MaxNotes = 0
  <2>1. notes' = s
    BY <1>1, <1>3 DEF Capped, s
  <2> QED
    BY <1>2, <2>1 DEF s
<1>4. CASE MaxNotes # 0
  <2>1. notes' = Newest(s, MaxNotes)
    BY <1>1, <1>4 DEF Capped, s
  <2> QED
    <3>1. MaxNotes \in Nat
      BY RunlogAssumption
    <3>2. /\ Newest(s, MaxNotes) \in Seq(Nat)
          /\ Len(Newest(s, MaxNotes)) <= Len(s)
          /\ \A i \in 1 .. Len(Newest(s, MaxNotes)) :
               Newest(s, MaxNotes)[i] = s[Len(s) - Len(Newest(s, MaxNotes)) + i]
      BY <1>2, <3>1, NewestProperties
    <3> QED
      BY <2>1, <3>2 DEF s
<1> QED
  BY <1>3, <1>4

LEMMA LogTypeKept ==
  ASSUME TypeOK, LogNext
  PROVE  LogTypeOK'
<1> USE DEF TypeOK, LogTypeOK
<1>1. CASE LogTick /\ UNCHANGED <<steps, wake>>
  <2>1. clock' = clock + 1 /\ clock' \in 0 .. MaxTime
    BY <1>1, RunlogAssumption DEF LogTick
  <2>2. lastUsed' \in [Threads -> NoSession .. clock']
    BY <1>1, <2>1 DEF LogTick, NoSession
  <2> QED
    BY <1>1, <2>1, <2>2 DEF LogTick
<1>2. ASSUME NEW r \in RunsAt(steps), LogWrite(EntryOf(r)), UNCHANGED wake
      PROVE  LogTypeOK'
  <2> DEFINE e == EntryOf(r)
  <2>1. e \in Entry
    BY EntryType
  <2> HIDE DEF e
  <2>2. PICK text \in {day[Today], <<>>} :
          /\ day' = [day EXCEPT ![Today] = Append(text, e)]
          /\ text \in Seq(Entry) /\ Today \in Days
          /\ wiped' = wiped \cup (Elements(day[Today]) \ Elements(text))
          /\ miscounted' = IF text = day[Today] THEN miscounted ELSE miscounted \cup {Today}
    BY <1>2, <2>1, LogWriteEffect DEF e
  <2>3. day' \in [Days -> Seq(Entry)]
    BY <2>1, <2>2
  <2>4. Elements(day[Today]) \subseteq Entry
    BY <2>2, ElementsType
  <2>5. logged' \in Seq(Entry)
    BY <1>2, <2>1 DEF LogWrite, e
  <2> QED
    BY <1>2, <2>2, <2>3, <2>4, <2>5 DEF LogWrite
<1>3. CASE LogCommit
  <2>1. counted' \in [Days -> Nat]
    BY <1>3 DEF LogCommit, WrittenOn
  <2> QED
    BY <1>3, <2>1 DEF LogCommit
<1>4. CASE LogCommitFails
  <2>1. miscounted' \subseteq Days /\ writing' \in Days \cup {NoDay}
    BY <1>4 DEF LogCommitFails
  <2> QED
    BY <1>4, <2>1 DEF LogCommitFails
<1>5. CASE TakeNote
  <2>1. notes' \in Seq(Nat)
    BY <1>5, TakeNoteEffect
  <2> QED
    BY <1>5, <2>1 DEF TakeNote
<1>6. CASE StoreSession(wake.thread, steps)
  <2>1. clock \in NoSession .. clock /\ wake.thread \in Threads
    BY DEF NoSession
  <2>2. {logged[n].run : n \in DOMAIN logged} \cup {steps} \in SUBSET Nat
    <3>1. \A n \in DOMAIN logged : logged[n] \in Entry
      OBVIOUS
    <3> QED
      BY <3>1, SoulAssumption DEF Entry, RepoTypeOK
  <2>3. lastUsed' \in [Threads -> NoSession .. clock]
    BY <1>6, <2>1 DEF StoreSession
  <2>4. known' \in [Threads -> SUBSET Nat]
    BY <1>6, <2>1, <2>2 DEF StoreSession
  <2> QED
    BY <1>6, <2>3, <2>4 DEF StoreSession
<1>7. CASE Evicted(wake.thread)
  <2>1. lastUsed' \in [Threads -> NoSession .. clock]
    BY <1>7 DEF Evicted, NoSession
  <2> QED
    BY <1>7, <2>1 DEF Evicted
<1>8. ASSUME NEW healthy \in BOOLEAN, LogBoot(healthy), UNCHANGED wake
      PROVE  LogTypeOK'
  <2>1. \A d \in Days : Len(day[d]) \in Nat /\ Elements(day[d]) \subseteq Entry
    BY ElementsType
  <2>2. Dropped \subseteq Days
    BY DEF Dropped, Written
  <2>3. /\ counted' \in [Days -> Nat] /\ day' \in [Days -> Seq(Entry)]
        /\ wiped' \subseteq Entry /\ miscounted' \subseteq Days /\ notes' \in Seq(Nat)
    <3> DEFINE S == Seq(Entry)
    <3>a. <<>> \in S /\ <<>> \in Seq(Nat) /\ \A d \in Days : day[d] \in S
      BY EmptySeq
    <3> HIDE DEF S
    <3>1. CASE healthy
      <4>1. CountAndPrune
        BY <1>8, <3>1 DEF LogBoot
      <4>2. counted' \in [Days -> Nat]
        BY <2>1, <4>1 DEF CountAndPrune
      <4>3. day' \in [Days -> S]
        BY <3>a, <4>1 DEF CountAndPrune
      <4>4. wiped' \subseteq Entry
        BY <2>1, <2>2, <4>1 DEF CountAndPrune
      <4> QED
        BY <2>2, <4>1, <4>2, <4>3, <4>4 DEF CountAndPrune, S
    <3>2. CASE ~healthy
      <4>1. Discard
        BY <1>8, <3>2 DEF LogBoot
      <4>2. day' \in [Days -> S] /\ counted' \in [Days -> Nat]
        BY <3>a, <4>1 DEF Discard
      <4>3. wiped' \subseteq Entry
        BY <2>1, <4>1 DEF Discard
      <4> QED
        BY <3>a, <4>1, <4>2, <4>3 DEF Discard, S
    <3> QED
      BY <3>1, <3>2
  <2>4. lastUsed' \in [Threads -> NoSession .. clock]
    BY <1>8 DEF LogBoot, NoSession
  <2> QED
    BY <1>8, <2>3, <2>4 DEF LogBoot
<1>9. CASE UNCHANGED logVars
  BY <1>9 DEF logVars
<1> QED
  BY <1>1, <1>2, <1>3, <1>4, <1>5, <1>6, <1>7, <1>8, <1>9 DEF LogNext

LEMMA WakeTypeKept ==
  ASSUME TypeOK, LogNext
  PROVE  wake' \in [thread : Threads, received : 0 .. MaxTime]
<1>1. 0 .. clock \subseteq 0 .. MaxTime
  BY RunlogAssumption DEF TypeOK, LogTypeOK
<1> QED
  BY <1>1 DEF LogNext, TypeOK

LEMMA NothingUnwrittenKept ==
  ASSUME TypeOK, NothingUnwritten, LogNext
  PROVE  NothingUnwritten'
<1> USE DEF NothingUnwritten
<1>1. ASSUME UNCHANGED <<day, logged, wiped>> PROVE NothingUnwritten'
  BY <1>1
<1>2. ASSUME NEW r \in RunsAt(steps), LogWrite(EntryOf(r)) PROVE NothingUnwritten'
  <2> DEFINE e == EntryOf(r)
  <2>1. e \in Entry
    BY EntryType
  <2> HIDE DEF e
  <2>2. PICK text \in {day[Today], <<>>} :
          /\ day' = [day EXCEPT ![Today] = Append(text, e)]
          /\ Today \in Days
          /\ Elements(Append(text, e)) = Elements(text) \cup {e}
          /\ wiped' = wiped \cup (Elements(day[Today]) \ Elements(text))
    BY <1>2, <2>1, LogWriteEffect DEF TypeOK, e
  <2>3. Elements(day'[Today]) = Elements(text) \cup {e}
        /\ \A d \in Days : d # Today => day'[d] = day[d]
    BY <2>2 DEF TypeOK, LogTypeOK
  <2>4. ASSUME NEW x, x \in wiped \/ \E d \in Days : x \in Elements(day[d])
        PROVE  x \in wiped' \/ \E d \in Days : x \in Elements(day'[d])
    BY <2>2, <2>3, <2>4
  <2>5. ASSUME NEW n \in DOMAIN logged'
        PROVE  \/ n \in DOMAIN logged /\ logged'[n] = logged[n]
               \/ logged'[n] = e
    BY <1>2, <2>1 DEF LogWrite, TypeOK, LogTypeOK, e
  <2> QED
    BY <2>2, <2>3, <2>4, <2>5
<1>3. ASSUME NEW healthy \in BOOLEAN, LogBoot(healthy) PROVE NothingUnwritten'
  <2>1. CASE healthy
    BY <1>3, <2>1 DEF LogBoot, CountAndPrune
  <2>2. CASE ~healthy
    BY <1>3, <2>2 DEF LogBoot, Discard
  <2> QED
    BY <2>1, <2>2
<1> QED
  BY <1>1, <1>2, <1>3 DEF LogNext, LogTick, LogCommit, LogCommitFails, TakeNote,
     StoreSession, Evicted, logVars

LEMMA CountsAgreeKept ==
  ASSUME TypeOK, CountsAgree, LogNext
  PROVE  CountsAgree'
<1> USE DEF CountsAgree
<1>1. ASSUME UNCHANGED <<day, counted, writing, miscounted>> PROVE CountsAgree'
  BY <1>1
<1>2. ASSUME NEW r \in RunsAt(steps), LogWrite(EntryOf(r)) PROVE CountsAgree'
  <2> DEFINE e == EntryOf(r)
  <2>1. e \in Entry
    BY EntryType
  <2> HIDE DEF e
  <2>2. PICK text \in {day[Today], <<>>} :
          /\ day' = [day EXCEPT ![Today] = Append(text, e)]
          /\ text \in Seq(Entry) /\ Today \in Days
          /\ miscounted' = IF text = day[Today] THEN miscounted ELSE miscounted \cup {Today}
    BY <1>2, <2>1, LogWriteEffect DEF TypeOK, e
  <2>3. writing = NoDay /\ writing' = Today /\ counted' = counted
    BY <1>2 DEF LogWrite
  <2>4. Len(Append(text, e)) = Len(text) + 1
    BY <2>1, <2>2
  <2>5. \A d \in Days : counted[d] \in Nat /\ Len(day[d]) \in Nat
    BY DEF TypeOK, LogTypeOK
  <2>6. ASSUME NEW d \in Days
        PROVE  d \in miscounted' \/ counted'[d] + (IF writing' = d THEN 1 ELSE 0) = Len(day'[d])
    <3>1. d # Today => day'[d] = day[d]
      BY <2>2 DEF TypeOK, LogTypeOK
    <3>2. day'[Today] = Append(text, e)
      BY <2>2 DEF TypeOK, LogTypeOK
    <3>3. d \in miscounted \/ counted[d] = Len(day[d])
      BY <2>3, <2>5, NoDayIsNoDay
    <3> QED
      BY <2>2, <2>3, <2>4, <2>5, <3>1, <3>2, <3>3
  <2> QED
    BY <2>6
<1>3. CASE LogCommit
  <2>1. writing \in Days /\ counted' = [counted EXCEPT ![writing] = @ + 1] /\ writing' = NoDay
        /\ UNCHANGED <<day, miscounted>>
    BY <1>3 DEF LogCommit, WrittenOn, TypeOK, LogTypeOK
  <2>2. \A d \in Days : counted'[d] = counted[d] + (IF writing = d THEN 1 ELSE 0)
    BY <2>1 DEF TypeOK, LogTypeOK
  <2>3. \A d \in Days : counted'[d] + 0 = counted'[d]
    <3>1. \A d \in Days : counted[d] \in Nat
      BY DEF TypeOK, LogTypeOK
    <3> QED
      BY <2>2, <3>1
  <2> QED
    BY <2>1, <2>2, <2>3, NoDayIsNoDay
<1>4. CASE LogCommitFails
  BY <1>4, NoDayIsNoDay DEF LogCommitFails
<1>5. ASSUME NEW healthy \in BOOLEAN, LogBoot(healthy) PROVE CountsAgree'
  <2>1. \A d \in Days : Len(day[d]) \in Nat
    BY DEF TypeOK, LogTypeOK
  <2>2. CASE healthy
    BY <1>5, <2>1, <2>2, NoDayIsNoDay DEF LogBoot, CountAndPrune
  <2>3. CASE ~healthy
    BY <1>5, <2>3, NoDayIsNoDay DEF LogBoot, Discard
  <2> QED
    BY <2>2, <2>3
<1> QED
  BY <1>1, <1>2, <1>3, <1>4, <1>5 DEF LogNext, LogTick, TakeNote, StoreSession, Evicted, logVars

LEMMA NotesKept ==
  ASSUME TypeOK, NotesAreNewest, LogNext
  PROVE  NotesAreNewest'
<1> USE DEF NotesAreNewest
<1>1. ASSUME UNCHANGED <<notes, noted>> PROVE NotesAreNewest'
  BY <1>1
<1>2. CASE TakeNote
  <2>1. PICK text \in {notes, <<>>} :
           /\ notes' \in Seq(Nat)
           /\ Len(notes') <= Len(Append(text, noted + 1))
           /\ \A i \in 1 .. Len(notes') :
                notes'[i] = Append(text, noted + 1)[Len(Append(text, noted + 1)) - Len(notes') + i]
    BY <1>2, TakeNoteEffect DEF TypeOK
  <2>2. text \in Seq(Nat) /\ noted \in Nat /\ noted' = noted + 1 /\ Len(text) \in Nat
    BY <1>2, <2>1, EmptySeq DEF TypeOK, LogTypeOK, TakeNote
  <2>3. \A i \in 1 .. Len(text) : text[i] = noted - Len(text) + i
    <3>1. DOMAIN notes = 1 .. Len(notes)
      BY DEF TypeOK, LogTypeOK
    <3>2. CASE text = notes
      BY <3>1, <3>2
    <3>3. CASE text = <<>>
      BY <3>3
    <3> QED
      BY <3>2, <3>3
  <2>4. Len(Append(text, noted + 1)) = Len(text) + 1
    BY <2>2
  <2>5. \A i \in 1 .. Len(text) + 1 : Append(text, noted + 1)[i] = noted - Len(text) + i
    BY <2>2, <2>3
  <2>6. Len(notes') \in Nat /\ DOMAIN notes' = 1 .. Len(notes')
    BY <2>1
  <2>7. ASSUME NEW i \in 1 .. Len(notes')
        PROVE  notes'[i] = noted' - Len(notes') + i
    <3> DEFINE m == Len(notes')
               k == Len(text)
    <3>1. m \in Nat /\ k \in Nat /\ m <= k + 1 /\ i \in 1 .. m
      BY <2>1, <2>2, <2>4, <2>6
    <3>2. notes'[i] = Append(text, noted + 1)[k + 1 - m + i]
      BY <2>1, <2>4
    <3>3. k + 1 - m + i \in 1 .. k + 1
      BY <3>1
    <3>4. Append(text, noted + 1)[k + 1 - m + i] = noted - k + (k + 1 - m + i)
      BY <2>5, <3>3
    <3> HIDE DEF m, k
    <3>5. noted - k + (k + 1 - m + i) = noted + 1 - m + i
      BY <2>2, <3>1
    <3>6. noted' - m + i = noted + 1 - m + i
      BY <2>2, <3>1
    <3>7. notes'[i] = noted' - m + i
      BY <3>2, <3>4, <3>5, <3>6
    <3> QED
      BY <3>7 DEF m
  <2> QED
    BY <2>6, <2>7
<1>3. ASSUME NEW healthy \in BOOLEAN, LogBoot(healthy) PROVE NotesAreNewest'
  BY <1>3 DEF LogBoot, CountAndPrune, Discard
<1> QED
  BY <1>1, <1>2, <1>3 DEF LogNext, LogTick, LogWrite, LogCommit, LogCommitFails,
     StoreSession, Evicted, logVars

\* The text of a day after a write or a boot has nothing that was not there, but the
\* entry written.
LEMMA DayGrowsByEntry ==
  ASSUME TypeOK, LogNext
  PROVE  \A d \in Days : \A e \in Elements(day'[d]) :
           \/ e \in Elements(day[d])
           \/ /\ UNCHANGED <<steps, wake>>
              /\ \E r \in {steps, MaxSteps + steps} : e = EntryOf(r)
<1> SUFFICES ASSUME NEW d \in Days, NEW x \in Elements(day'[d])
             PROVE  \/ x \in Elements(day[d])
                    \/ /\ UNCHANGED <<steps, wake>>
                       /\ \E r \in {steps, MaxSteps + steps} : x = EntryOf(r)
  OBVIOUS
<1>1. CASE UNCHANGED day
  BY <1>1
<1>2. ASSUME NEW r \in RunsAt(steps) \cap {steps, MaxSteps + steps}, LogWrite(EntryOf(r)),
             UNCHANGED <<steps, wake>>
      PROVE  x \in Elements(day[d]) \/ x = EntryOf(r)
  <2> DEFINE e == EntryOf(r)
  <2>1. e \in Entry
    BY EntryType
  <2> HIDE DEF e
  <2>2. PICK text \in {day[Today], <<>>} :
          /\ day' = [day EXCEPT ![Today] = Append(text, e)]
          /\ Today \in Days
          /\ Elements(Append(text, e)) = Elements(text) \cup {e}
    BY <1>2, <2>1, LogWriteEffect DEF TypeOK, e
  <2>3. Elements(day'[Today]) = Elements(text) \cup {e}
        /\ (d # Today => day'[d] = day[d])
    BY <2>2 DEF TypeOK, LogTypeOK
  <2>4. Elements(text) \subseteq Elements(day[Today])
    BY <2>2 DEF Elements
  <2> QED
    BY <2>3, <2>4 DEF e
<1>3. ASSUME NEW healthy \in BOOLEAN, LogBoot(healthy) PROVE x \in Elements(day[d])
  <2>1. day'[d] = day[d] \/ day'[d] = <<>>
    <3>1. CASE healthy
      BY <1>3, <3>1 DEF LogBoot, CountAndPrune
    <3>2. CASE ~healthy
      BY <1>3, <3>2 DEF LogBoot, Discard
    <3> QED
      BY <3>1, <3>2
  <2>2. Elements(<<>>) = {}
    BY DEF Elements
  <2> QED
    BY <2>1, <2>2
<1> QED
  BY <1>1, <1>2, <1>3 DEF LogNext, LogTick, LogCommit, LogCommitFails, TakeNote,
     StoreSession, Evicted, logVars

\* The session of a thread changes when it is stored or dropped; a known run is an old one.
LEMMA SessionKept ==
  ASSUME RepoTypeOK', LogTypeOK', TypeOK, SessionInv, LogNext
  PROVE  SessionInv'
<1>a. clock \in 0 .. MaxTime /\ MaxTime \in Nat /\ steps \in 0 .. MaxSteps /\ MaxSteps \in Nat
      /\ wake.received \in 0 .. MaxTime /\ wake.thread \in Threads
  BY SoulAssumption, RunlogAssumption DEF TypeOK, RepoTypeOK, LogTypeOK
<1>b. /\ \A t \in Threads : lastUsed[t] \in NoSession .. clock
      /\ \A t \in Threads : lastUsed'[t] \in NoSession .. clock'
      /\ \A d \in Days : \A e \in Elements(day[d]) : e.received \in 0 .. MaxTime
  <2>1. \A d \in Days : Elements(day[d]) \subseteq Entry
    BY ElementsType DEF TypeOK, LogTypeOK
  <2> QED
    BY <2>1 DEF TypeOK, LogTypeOK, Entry
<1>c. clock' >= clock /\ clock' \in 0 .. MaxTime
  BY <1>a DEF LogNext, LogTick, LogWrite, LogCommit, LogCommitFails, TakeNote,
     StoreSession, Evicted, LogBoot, logVars, LogTypeOK
<1>d. /\ steps' \in 0 .. MaxSteps
      /\ \/ UNCHANGED <<steps, wake>>
         \/ /\ steps' = steps + 1 /\ UNCHANGED logVars
            /\ wake' \in {wake} \cup [thread : Threads, received : 0 .. clock]
  BY DEF LogNext, RepoTypeOK
<1>e. RunsAt(steps) \subseteq RunsAt(steps')
  <2>1. steps' = steps \/ steps' = steps + 1
    BY <1>d
  <2>2. \A n \in Nat : RunsAt(n) \subseteq RunsAt(n + 1)
    BY <1>a DEF RunsAt
  <2> QED
    BY <1>a, <2>1, <2>2
<1>1. wake'.received <= clock'
  BY <1>a, <1>c, <1>d DEF SessionInv
<1>2. \A d \in Days : \A e \in Elements(day'[d]) : e.received <= clock'
  <2> SUFFICES ASSUME NEW d \in Days, NEW e \in Elements(day'[d]) PROVE e.received <= clock'
    OBVIOUS
  <2>1. CASE e \in Elements(day[d])
    BY <1>a, <1>b, <1>c, <2>1 DEF SessionInv
  <2>2. CASE \E r \in {steps, MaxSteps + steps} : e = EntryOf(r)
    BY <1>a, <1>c, <2>2 DEF SessionInv, EntryOf
  <2> QED
    BY <2>1, <2>2, DayGrowsByEntry
<1>3. \A n \in DOMAIN logged' : logged'[n].run \in RunsAt(steps')
  <2>1. CASE UNCHANGED logged
    BY <1>e, <2>1 DEF SessionInv
  <2>2. ASSUME NEW r \in RunsAt(steps), LogWrite(EntryOf(r))
        PROVE  \A n \in DOMAIN logged' : logged'[n].run \in RunsAt(steps')
    <3>1. EntryOf(r) \in Entry /\ EntryOf(r).run = r
      BY EntryType DEF EntryOf
    <3>2. ASSUME NEW n \in DOMAIN logged'
          PROVE  \/ n \in DOMAIN logged /\ logged'[n] = logged[n]
                 \/ logged'[n] = EntryOf(r)
      BY <2>2, <3>1 DEF LogWrite, TypeOK, LogTypeOK
    <3> QED
      BY <1>e, <2>2, <3>1, <3>2 DEF SessionInv
  <2> QED
    BY <2>1, <2>2 DEF LogNext, LogTick, LogCommit, LogCommitFails, TakeNote, StoreSession,
       Evicted, LogBoot, logVars
<1> DEFINE Known(t) ==
      /\ known[t] \subseteq RunsAt(steps)
      /\ lastUsed[t] # NoSession =>
           /\ \A d \in Days : \A e \in Elements(day[d]) :
                e.run \in known[t] => e.received <= lastUsed[t]
           /\ {steps, MaxSteps + steps} \cap known[t] # {} =>
                wake.received <= lastUsed[t]
<1>4. ASSUME NEW t \in Threads, lastUsed'[t] \in {lastUsed[t], NoSession}, known'[t] = known[t]
      PROVE  Known(t)'
  <2>1. known'[t] \subseteq RunsAt(steps')
    BY <1>4, <1>e DEF SessionInv
  <2>2. ASSUME lastUsed'[t] # NoSession, NEW d \in Days, NEW e \in Elements(day'[d]),
               e.run \in known'[t]
        PROVE  e.received <= lastUsed'[t]
    <3>1. CASE e \in Elements(day[d])
      BY <1>4, <2>2, <3>1 DEF SessionInv
    <3>2. CASE \E r \in {steps, MaxSteps + steps} : e = EntryOf(r)
      BY <1>4, <2>2, <3>2 DEF SessionInv, EntryOf
    <3> QED
      BY <3>1, <3>2, DayGrowsByEntry
  <2>3. ASSUME lastUsed'[t] # NoSession, {steps', MaxSteps + steps'} \cap known'[t] # {}
        PROVE  wake'.received <= lastUsed'[t]
    <3>1. CASE UNCHANGED <<steps, wake>>
      BY <1>4, <2>3, <3>1 DEF SessionInv
    <3>2. CASE steps' = steps + 1
      <4>1. {steps + 1, MaxSteps + (steps + 1)} \cap RunsAt(steps) = {}
        BY <1>a, <1>d, <3>2 DEF RunsAt
      <4> QED
        BY <1>4, <2>3, <3>2, <4>1 DEF SessionInv
    <3> QED
      BY <1>d, <3>1, <3>2
  <2> QED
    BY <2>1, <2>2, <2>3
<1>5. ASSUME NEW t \in Threads, steps > 0, StoreSession(wake.thread, steps),
             UNCHANGED <<steps, wake>>
      PROVE  Known(t)'
  <2>1. CASE t # wake.thread
    <3>1. lastUsed'[t] = lastUsed[t] /\ known'[t] = known[t]
      BY <1>5, <2>1 DEF StoreSession, TypeOK, LogTypeOK
    <3> QED
      BY <1>4, <3>1
  <2>2. CASE t = wake.thread
    <3>1. lastUsed'[t] = clock /\ day' = day /\ wake' = wake
          /\ known'[t] = {logged[n].run : n \in DOMAIN logged} \cup {steps}
      BY <1>5, <2>2 DEF StoreSession, TypeOK, LogTypeOK
    <3>2. steps \in RunsAt(steps)
      BY <1>5, <1>a DEF RunsAt
    <3> QED
      BY <1>5, <3>1, <3>2 DEF SessionInv
  <2> QED
    BY <2>1, <2>2
<1>6. ASSUME NEW t \in Threads PROVE Known(t)'
  <2>1. CASE UNCHANGED <<lastUsed, known>>
    BY <1>4, <2>1
  <2>2. CASE Evicted(wake.thread)
    <3>1. lastUsed'[t] \in {lastUsed[t], NoSession} /\ known'[t] = known[t]
      BY <2>2 DEF Evicted, TypeOK, LogTypeOK
    <3> QED
      BY <1>4, <3>1
  <2>3. ASSUME NEW healthy \in BOOLEAN, LogBoot(healthy) PROVE Known(t)'
    <3>1. lastUsed'[t] = NoSession /\ known'[t] = known[t]
      BY <2>3 DEF LogBoot
    <3> QED
      BY <1>4, <3>1
  <2> QED
    BY <1>5, <2>1, <2>2, <2>3 DEF LogNext, LogTick, LogWrite, LogCommit, LogCommitFails,
       TakeNote, logVars
<1> QED
  BY <1>1, <1>2, <1>3, <1>6 DEF SessionInv

-----------------------------------------------------------------------------
(* The theorems.                                                            *)

LEMMA InitLogInv == Init => LogInv
<1> SUFFICES ASSUME Init PROVE LogInv
  OBVIOUS
<1>1. RepoTypeOK
  BY InitType DEF Init
<1>2. LogTypeOK
  BY RunlogAssumption, EmptySeq DEF Init, LogInit, LogTypeOK, NoSession, Days
<1>3. wake \in [thread : Threads, received : 0 .. MaxTime] /\ wake.received = 0
  BY RunlogAssumption DEF Init
<1>4. Elements(<<>>) = {}
  BY DEF Elements
<1>5. SessionInv
  BY <1>3, <1>4 DEF Init, LogInit, SessionInv
<1>6. NothingUnwritten /\ NotesAreNewest
  BY DEF Init, LogInit, NothingUnwritten, NotesAreNewest
<1>7. CountsAgree
  BY NoDayIsNoDay DEF Init, LogInit, CountsAgree
<1> QED
  BY <1>1, <1>2, <1>3, <1>5, <1>6, <1>7 DEF LogInv, TypeOK, StepTaken, Init, RepoInit

LEMMA NextLogInv == LogInv /\ [Next]_vars => LogInv'
<1> SUFFICES ASSUME LogInv, [Next]_vars PROVE LogInv'
  OBVIOUS
<1>1. LogNext /\ RepoTypeOK' /\ StepTaken'
  BY LogSteps, RepoTypeKept, StepTakenKept DEF LogInv, TypeOK
<1>2. LogTypeOK' /\ wake' \in [thread : Threads, received : 0 .. MaxTime]
  BY <1>1, LogTypeKept, WakeTypeKept DEF LogInv
<1>3. SessionInv'
  BY <1>1, <1>2, SessionKept DEF LogInv
<1> QED
  BY <1>1, <1>2, <1>3, NothingUnwrittenKept, CountsAgreeKept, NotesKept DEF LogInv, TypeOK

LEMMA LogInvHolds == Spec => []LogInv
BY InitLogInv, NextLogInv, PTL DEF Spec

\* Every variable of Soul keeps its type; no session was stored in the future.
THEOREM TypeCorrect == Spec => []TypeOK
<1>1. LogInv => TypeOK
  BY DEF LogInv
<1> QED
  BY <1>1, LogInvHolds, PTL

\* An entry DailyFileRunLog::append wrote is in its day's file, unless that day aged off,
\* a read of it failed, or the repository was begun anew.
THEOREM NothingIsUnwritten == Spec => []NothingUnwritten
<1>1. LogInv => NothingUnwritten
  BY DEF LogInv
<1> QED
  BY <1>1, LogInvHolds, PTL

\* RunlogStats counts, for each day, the entries of its file.
THEOREM CountsDoAgree == Spec => []CountsAgree
<1>1. LogInv => CountsAgree
  BY DEF LogInv
<1> QED
  BY <1>1, LogInvHolds, PTL

\* append_tag_note keeps the newest notes.
THEOREM NotesAreTheNewest == Spec => []NotesAreNewest
<1>1. LogInv => NotesAreNewest
  BY DEF LogInv
<1> QED
  BY <1>1, LogInvHolds, PTL

\* The views of a resumed session hold no run it knew of when it was last used: what it
\* knew had been received by then, and the views are of what was received later.
THEOREM DiffsAreNew == Spec => []DiffIsNew
<1>1. LogInv => DiffIsNew
  <2> SUFFICES ASSUME LogInv, NEW t \in Threads, Live(t),
                      NEW e \in ThreadRecent(t) \cup EnvironmentRecent(t),
                      e.run \in known[t]
               PROVE  FALSE
    BY DEF DiffIsNew
  <2>1. lastUsed[t] \in Int /\ lastUsed[t] # NoSession /\ clock \in 0 .. MaxTime
        /\ Lookback \in Nat
    BY RunlogAssumption DEF LogInv, TypeOK, LogTypeOK, Live, NoSession
  <2>2. Today \in Days
    BY <2>1, TodayIsADay
  <2>3. \E d \in Days : e \in Elements(day[d])
    BY <2>2 DEF ThreadRecent, TailEntries, EnvironmentRecent
  <2>4. e.received \in Int
    <3>1. PICK d \in Days : e \in Elements(day[d])
      BY <2>3
    <3>2. Elements(day[d]) \subseteq Entry
      BY ElementsType DEF LogInv, TypeOK, LogTypeOK
    <3> QED
      BY <3>1, <3>2 DEF Entry
  <2>5. e.received > lastUsed[t]
    <3>1. CASE e \in EnvironmentRecent(t)
      BY <3>1 DEF EnvironmentRecent, After
    <3>2. CASE e \in ThreadRecent(t)
      <4>1. e.received > Latest(lastUsed[t], clock - Lookback)
        BY <3>2 DEF ThreadRecent, TailEntries, After
      <4> QED
        BY <2>1, <2>4, <4>1 DEF Latest
    <3> QED
      BY <3>1, <3>2
  <2>6. e.received <= lastUsed[t]
    BY <2>1, <2>3 DEF LogInv, SessionInv
  <2> QED
    BY <2>1, <2>4, <2>5, <2>6
<1> QED
  BY <1>1, LogInvHolds, PTL
=============================================================================
