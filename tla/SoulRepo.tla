------------------------------- MODULE SoulRepo -------------------------------
(***************************************************************************)
(* The soul: one git working tree that the steps of a wake, the operator and  *)
(* the `dack reconcile` command edit and commit.                             *)
(*                                                                          *)
(* After a step, Harness::reconcile_soul lists what differs from HEAD, puts   *)
(* back what the step's state may not write and commits the rest. At the end  *)
(* of a wake push_soul fans HEAD out to the remotes, unless the `dirty` flag  *)
(* says nothing is new. Each git command is its own process: the operator, a  *)
(* failure or a crash can come between any two of them.                      *)
(*                                                                          *)
(* What the wall lets through, and the runlog's own repository, are in other  *)
(* modules; a step of this module may edit any path, as the tripwire assumes. *)
(***************************************************************************)
EXTENDS StateTable, Accidents, Sequences, FiniteSets

CONSTANTS
  Paths,       \* files of the soul
  DirOf,       \* the directory of each
  Genesis,     \* the files that are committed to begin with
  SoulRemotes, \* soul_remotes, in order
  LegacyUrl,   \* soul_remote, the older single field: <<>> or <<[name, gitlawb]>>
  Roles,       \* the roles a key may sign in
  Identities,  \* those an identity directory is configured for
  MaxAttempts, \* MAX_ATTEMPTS of one push
  MaxSteps,    \* bound: steps begun
  Texts,       \* the contents a file may have
  MaxEdits     \* bound: edits made, by steps and by the operator

Absent == "absent"  \* no content: there is no such file

\* An entry of soul_remotes: what its URL looks like, the backend that is forced, if one
\* is, the role whose key signs, and whether the token it names is in the environment.
SoulRemote == [name : STRING, gitlawb : BOOLEAN, kind : {"git", "gitlawb", "inferred"},
               role : Roles, token : {"none", "set", "unset"}, required : BOOLEAN]

ASSUME SoulAssumption ==
  /\ DirOf \in [Paths -> SoulDirs \cup {"elsewhere"}]
  /\ Genesis \subseteq Paths
  /\ SoulRemotes \in Seq(SoulRemote)
  /\ LegacyUrl \in Seq([name : STRING, gitlawb : BOOLEAN]) /\ Len(LegacyUrl) <= 1
  /\ "soul" \in Roles /\ Identities \subseteq Roles
  /\ Absent \notin Texts /\ Texts # {}
  /\ MaxAttempts \in Nat \ {0}
  /\ MaxSteps \in Nat /\ MaxEdits \in Nat

VARIABLES
  tree, index, head, \* the content of each path: on disk, staged, committed
  lacking,  \* the targets that lack a commit which put `dirty` up
  dirty,    \* MultiRemoteRepo::dirty of the daemon
  phase,    \* where the daemon's wake is
  changes,  \* reconcile_soul: the changes still to put back
  allowed,  \* reconcile_soul: the paths to commit
  pushing,  \* push: the target, the attempt, whether a required target failed
  command,  \* whether a `dack reconcile` still has to push
  state,    \* the state of the step that runs, or ran last
  steps,    \* steps run so far
  edits,    \* edits made so far
  author,   \* history: whose doing the content on disk is
  raced     \* history: files the command committed after a reconcile saw them untracked

repoVars == <<tree, index, head, lacking, dirty, phase, changes, allowed, pushing,
              command, state, steps, edits, author, raced>>
files == <<tree, index, head>>
run == <<state, steps, edits, raced>>

Content == Texts \cup {Absent}

\* effective_soul_remotes: the older field counts when the list is empty.
EffectiveRemotes ==
  IF SoulRemotes # <<>> THEN SoulRemotes
  ELSE [n \in DOMAIN LegacyUrl |->
          [name |-> LegacyUrl[n].name, gitlawb |-> LegacyUrl[n].gitlawb, kind |-> "inferred",
           role |-> "soul", token |-> "none", required |-> FALSE]]

IsGitlawb(r) == r.kind = "gitlawb" \/ (r.kind = "inferred" /\ r.gitlawb)

\* remotes_to_targets: a gitlawb entry without a key to sign with is left out.
Signable(r) == IsGitlawb(r) => r.role \in Identities

\* The targets that the first n entries become.
TargetsOf[n \in 0 .. Len(EffectiveRemotes)] ==
  IF n = 0 THEN <<>>
  ELSE IF Signable(EffectiveRemotes[n]) THEN Append(TargetsOf[n - 1], EffectiveRemotes[n])
  ELSE TargetsOf[n - 1]

Targets == TargetsOf[Len(EffectiveRemotes)]

Remotes == {Targets[n] : n \in DOMAIN Targets}
Required == {t \in Remotes : t.required}

\* Whose doing a content is: the step that runs, an earlier one, one that was lost or
\* whose work git would not put away, the operator, or the harness itself.
Authors == {"step", "earlier", "left", "operator", "harness"}

Permitted(p) == DirOf[p] \in WritableDirs(state)

\* What `git status --porcelain` lists, and what it codes `??`.
Changed == {p \in Paths : tree[p] # head[p] \/ index[p] # head[p]}
Untracked(p) == head[p] = Absent /\ index[p] = Absent /\ tree[p] # Absent

NoPush == [at |-> 1, attempt |-> 1, failed |-> FALSE]

Phases == {"asleep", "invoked", "reconcile", "revert", "staged", "log", "failed",
           "awake", "push"}

\* Every variable keeps its type; a push makes no more than MAX_ATTEMPTS attempts.
RepoTypeOK ==
  /\ tree \in [Paths -> Content] /\ index \in [Paths -> Content] /\ head \in [Paths -> Content]
  /\ lacking \subseteq Remotes
  /\ dirty \in BOOLEAN /\ command \in BOOLEAN
  /\ phase \in Phases
  /\ changes \subseteq [path : Paths, untracked : BOOLEAN]
  /\ allowed \subseteq Paths /\ raced \subseteq Paths
  /\ pushing \in [at : 1 .. Len(Targets) + 1, attempt : 1 .. MaxAttempts, failed : BOOLEAN]
  /\ state \in States /\ steps \in 0 .. MaxSteps
  /\ edits \in 0 .. MaxEdits /\ accidents \in 0 .. MaxAccidents
  /\ author \in [Paths -> Authors]

RepoInit ==
  /\ tree = [p \in Paths |-> IF p \in Genesis THEN CHOOSE t \in Texts : TRUE ELSE Absent]
  /\ index = tree /\ head = tree
  /\ lacking = Remotes
  /\ dirty = TRUE
  /\ phase = "asleep"
  /\ changes = {} /\ allowed = {}
  /\ pushing = NoPush
  /\ command = FALSE
  /\ state = "Perceive" /\ steps = 0
  /\ edits = 0 /\ accidents = 0
  /\ author = [p \in Paths |-> "harness"]
  /\ raced = {}

\* The authors, once the contents of the paths in ps that `was` wrote are known as `now`.
Renamed(ps, was, now) ==
  [p \in Paths |-> IF p \in ps /\ author[p] \in was THEN now ELSE author[p]]

-----------------------------------------------------------------------------
(* A step of a wake.                                                        *)

StepBegins(s) ==
  /\ phase \in {"asleep", "awake"}
  /\ steps < MaxSteps
  /\ steps' = steps + 1
  /\ state' = s
  /\ author' = Renamed(Paths, {"step"}, "earlier")
  /\ phase' = "invoked"
  /\ UNCHANGED <<files, lacking, dirty, changes, allowed, pushing, command, edits,
                 raced, accidents>>

\* A file is written or deleted.
Edit(p, who) ==
  /\ edits < MaxEdits
  /\ edits' = edits + 1
  /\ \E c \in Content \ {tree[p]} : tree' = [tree EXCEPT ![p] = c]
  /\ author' = [author EXCEPT ![p] = who]
  /\ UNCHANGED <<index, head, lacking, dirty, phase, changes, allowed, pushing,
                 command, state, steps, raced>>

AgentEdits(p) == phase = "invoked" /\ Edit(p, "step") /\ UNCHANGED accidents

\* The invocation times out or errors: run_step returns before it reconciles, and
\* dispatch before it pushes. The wake is over for now, if it is dispatched again
\* later, or it has failed.
InvocationFails ==
  /\ phase = "invoked"
  /\ phase' \in {"asleep", "failed"}
  /\ author' = Renamed(Paths, {"step"}, "left")
  /\ UNCHANGED <<files, lacking, dirty, changes, allowed, pushing, command, run,
                 accidents>>

InvocationReturns ==
  /\ phase = "invoked"
  /\ phase' = "reconcile"
  /\ UNCHANGED <<files, lacking, dirty, changes, allowed, pushing, command, run,
                 author, accidents>>

-----------------------------------------------------------------------------
(* reconcile_soul.                                                          *)

\* Mutant: everything that changed.
AllChanged == Changed

\* What the state of the step may write.
Keepable == {p \in Changed : Permitted(p)}

\* Mutant: the alarm is raised and nothing is put back.
NothingToRevert == {}

\* The rest, as `status` saw it.
Revertible ==
  {[path |-> p, untracked |-> Untracked(p)] : p \in {q \in Changed : ~Permitted(q)}}

Status ==
  /\ phase = "reconcile"
  /\ allowed' = Keepable
  /\ changes' = Revertible
  /\ phase' = IF Changed = {} THEN "log" ELSE "revert"
  /\ UNCHANGED <<files, lacking, dirty, pushing, command, run, author, accidents>>

StatusFails ==
  /\ phase = "reconcile" /\ Accident
  /\ phase' = "log"
  /\ author' = Renamed(Paths, {"step"}, "left")
  /\ UNCHANGED <<files, lacking, dirty, changes, allowed, pushing, command, run>>

\* restore_to_head can do its work: the file it saw untracked is still there;
\* HEAD has a version of the one it saw tracked.
Restorable(c) == IF c.untracked THEN tree[c.path] # Absent ELSE head[c.path] # Absent

\* An untracked file is deleted, by what `status` said of it; a tracked one gets
\* HEAD's version, on disk and staged.
RestoreToHead(c) ==
  /\ tree' = [tree EXCEPT ![c.path] = IF c.untracked THEN Absent ELSE head[c.path]]
  /\ index' = IF c.untracked THEN index ELSE [index EXCEPT ![c.path] = head[c.path]]
  /\ author' = [author EXCEPT ![c.path] = "harness"]

Revert(c) ==
  /\ phase = "revert" /\ c \in changes
  /\ Restorable(c)
  /\ RestoreToHead(c)
  /\ changes' = changes \ {c}
  /\ UNCHANGED <<head, lacking, dirty, phase, allowed, pushing, command, run,
                 accidents>>

\* A failed revert is logged, and counted with the reverted.
RevertFails(c) ==
  /\ phase = "revert" /\ c \in changes
  /\ \/ Restorable(c) /\ Accident
     \/ ~Restorable(c) /\ UNCHANGED accidents
  /\ changes' = changes \ {c}
  /\ author' = Renamed({c.path}, Authors, "left")
  /\ UNCHANGED <<files, lacking, dirty, phase, allowed, pushing, command, run>>

\* `git add -A -- paths` refuses when one of them matches no file, on disk or staged.
Addable == \A p \in allowed : tree[p] # Absent \/ index[p] # Absent

\* commit_paths: stage the allowed paths; stop when none differs from HEAD.
Stage ==
  /\ phase = "revert" /\ changes = {} /\ allowed # {}
  /\ Addable
  /\ index' = [p \in Paths |-> IF p \in allowed THEN tree[p] ELSE index[p]]
  /\ phase' = IF \A p \in allowed : tree[p] = head[p] THEN "log" ELSE "staged"
  /\ UNCHANGED <<tree, head, lacking, dirty, changes, allowed, pushing, command,
                 run, author, accidents>>

\* `git commit -- paths` takes them from disk. It refuses when nothing differs any
\* more, or a path is nowhere to be found.
Committable ==
  /\ \E p \in allowed : tree[p] # head[p]
  /\ \A p \in allowed : tree[p] # Absent \/ index[p] # Absent \/ head[p] # Absent

\* The commit, and the flag, which only a commit whose id was read back sets.
CommitPaths(announced) ==
  /\ head' = [p \in Paths |-> IF p \in allowed THEN tree[p] ELSE head[p]]
  /\ index' = [p \in Paths |-> IF p \in allowed THEN tree[p] ELSE index[p]]
  /\ dirty' = (dirty \/ announced)
  /\ lacking' = IF announced THEN Remotes ELSE lacking

Sweep ==
  /\ phase = "staged"
  /\ Committable
  /\ \/ CommitPaths(TRUE) /\ UNCHANGED accidents
     \/ CommitPaths(FALSE) /\ Accident
  /\ author' = Renamed(allowed, Authors, "harness")
  /\ allowed' = {}
  /\ phase' = "log"
  /\ UNCHANGED <<tree, changes, pushing, command, run>>

\* The add, the diff or the commit fails: logged, and the step goes on.
SweepFails ==
  /\ allowed # {}
  /\ \/ phase = "revert" /\ changes = {} /\ ~Addable /\ UNCHANGED accidents
     \/ phase = "staged" /\ ~Committable /\ UNCHANGED accidents
     \/ (phase = "staged" \/ (phase = "revert" /\ changes = {})) /\ Accident
  /\ author' = Renamed(allowed, Authors, "left")
  /\ allowed' = {}
  /\ phase' = "log"
  /\ UNCHANGED <<files, lacking, dirty, changes, pushing, command, run>>

NothingToSweep ==
  /\ phase = "revert" /\ changes = {} /\ allowed = {}
  /\ phase' = "log"
  /\ UNCHANGED <<files, lacking, dirty, changes, allowed, pushing, command, run,
                 author, accidents>>

\* The step's entry is in the runlog, and the wake goes on; or it could not be
\* written, and the wake fails with the error, before its push.
StepLogged(ok) ==
  /\ phase = "log"
  /\ phase' = IF ok THEN "awake" ELSE "failed"
  /\ allowed' = {}
  /\ UNCHANGED <<files, lacking, dirty, changes, pushing, command, run, author>>

-----------------------------------------------------------------------------
(* push_soul at the end of a wake.                                          *)

PushSkipped ==
  /\ phase = "awake" /\ ~dirty
  /\ phase' = "asleep"
  /\ UNCHANGED <<files, lacking, dirty, changes, allowed, pushing, command, run,
                 author, accidents>>

PushBegins ==
  /\ phase = "awake" /\ dirty
  /\ phase' = "push"
  /\ UNCHANGED <<files, lacking, dirty, changes, allowed, pushing, command, run,
                 author, accidents>>

Target == Targets[pushing.at]
NextTarget(failed) == [at |-> pushing.at + 1, attempt |-> 1, failed |-> failed]
MoreTargets == phase = "push" /\ pushing.at <= Len(Targets)

\* Without the token it is told to use, a plain push is not even tried.
HasCredential(t) == IsGitlawb(t) \/ t.token # "unset"

\* HEAD, as it is now, reaches the target.
PushSucceeds ==
  /\ MoreTargets /\ HasCredential(Target)
  /\ lacking' = lacking \ {Target}
  /\ pushing' = NextTarget(pushing.failed)
  /\ UNCHANGED <<files, dirty, phase, changes, allowed, command, run, author,
                 accidents>>

\* Mutant: the cap counts retries.
RetriesLeft == pushing.attempt <= MaxAttempts

AttemptsLeft == pushing.attempt < MaxAttempts

\* A transient failure, with attempts left: the same target again after a backoff.
PushRetried ==
  /\ MoreTargets /\ AttemptsLeft /\ HasCredential(Target)
  /\ pushing' = [pushing EXCEPT !.attempt = @ + 1]
  /\ UNCHANGED <<files, lacking, dirty, phase, changes, allowed, command, run,
                 author, accidents>>

\* A permanent failure, or the last transient one. Only a required target counts.
PushGivenUp ==
  /\ MoreTargets
  /\ pushing' = NextTarget(pushing.failed \/ Target \in Required)
  /\ UNCHANGED <<files, lacking, dirty, phase, changes, allowed, command, run,
                 author, accidents>>

\* Mutant: a failed push is forgotten.
Forget == FALSE

\* The flag stays up after a required target failed, and only then.
FlagAfterPush == pushing.failed

PushEnds ==
  /\ phase = "push" /\ pushing.at > Len(Targets)
  /\ dirty' = FlagAfterPush
  /\ pushing' = NoPush
  /\ phase' = "asleep"
  /\ UNCHANGED <<files, lacking, changes, allowed, command, run, author, accidents>>

-----------------------------------------------------------------------------
(* The operator, who is one of the accidents of the daemon's life.           *)

OperatorEdits(p) == Accident /\ Edit(p, "operator")

\* `dack reconcile`: whatever differs is committed, in a process with a flag of
\* its own.
CommandCommits ==
  /\ ~command /\ Changed # {}
  /\ Accident
  /\ head' = tree
  /\ index' = tree
  /\ author' = Renamed(Changed, Authors, "harness")
  /\ raced' = raced \cup {p \in Changed : [path |-> p, untracked |-> TRUE] \in changes}
  /\ command' = TRUE
  /\ UNCHANGED <<tree, lacking, dirty, phase, changes, allowed, pushing, state,
                 steps, edits>>

\* Its push reaches some of the targets.
CommandPushes(reached) ==
  /\ command
  /\ command' = FALSE
  /\ lacking' = lacking \ reached
  /\ UNCHANGED <<files, dirty, phase, changes, allowed, pushing, run, author,
                 accidents>>

-----------------------------------------------------------------------------
\* The daemon is lost and booted: disk, index and HEAD stay; the flag starts up.
RepoCrash ==
  /\ Accident
  /\ phase' = "asleep"
  /\ changes' = {} /\ allowed' = {} /\ pushing' = NoPush
  /\ dirty' = TRUE
  /\ author' = IF phase \in {"invoked", "reconcile", "revert", "staged"}
               THEN Renamed(Paths, {"step"}, "left") ELSE author
  /\ UNCHANGED <<files, lacking, command, run>>

Reconciling ==
  \/ Status \/ StatusFails
  \/ \E c \in changes : Revert(c) \/ RevertFails(c)
  \/ Stage \/ Sweep \/ SweepFails \/ NothingToSweep

Pushing ==
  PushSkipped \/ PushBegins \/ PushSucceeds \/ PushRetried \/ PushGivenUp \/ PushEnds

Operating ==
  \/ \E p \in Paths : OperatorEdits(p)
  \/ CommandCommits
  \/ \E reached \in SUBSET Remotes : CommandPushes(reached)

-----------------------------------------------------------------------------
\* A change nobody asked the daemon to keep: made by hand, left by a step whose
\* reconcile was skipped or failed, or a deletion that raced the command's commit.
Explained(p) ==
  \/ author[p] \in {"operator", "left"}
  \/ author[p] = "harness" /\ p \in raced

\* Between steps, all that differs from HEAD is explained: an edit outlives the step that
\* made it only if that step's reconcile was skipped or a git command of it failed.
LeftoversExplained ==
  phase \in {"asleep", "awake"} => \A p \in Changed : Explained(p)

\* What a sweep commits is in a directory its state may write, and is its own step's work
\* or an explained leftover: it never commits what another state's step wrote and had reconciled.
SweepsOnlyItsOwn ==
  [][(head' # head /\ phase = "staged" /\ command' = command) =>
       \A p \in Paths : head'[p] # head[p] =>
         Permitted(p) /\ (author[p] = "step" \/ Explained(p))]_repoVars

\* While the flag is down, every required target has every commit that put it up: no commit
\* the daemon knows of waits for one that may never come.
CleanMeansPushed ==
  ~dirty => lacking \cap Required = {}
=============================================================================
