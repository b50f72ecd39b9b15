-------------------------------- MODULE Duties --------------------------------
(***************************************************************************)
(* The duties of the agent: the definitions under stimuli/, the registry that *)
(* is loaded from them, and what the two trigger sources make of it.          *)
(*                                                                          *)
(* At boot the registry is loaded, the sources are given their routes, and    *)
(* last the directory is watched. From then on every change on disk starts a  *)
(* reload of its own: it reads the directory, swaps the registry,             *)
(* re-schedules the wheel, wakes it and re-routes the listener, steps that    *)
(* those of other reloads come between.                                      *)
(***************************************************************************)
EXTENDS Integers, Sequences, FiniteSets, Accidents

CONSTANTS
  Definitions, \* every STIMULUS.md there may be, as a record of its frontmatter
  Directories, \* the sets of them that may be on disk together
  Shipped      \* the one the soul starts with

\* A duty fires at `times`, or when `path` is posted to; a malformed file, or one
\* too deep, is no definition at all.
Definition ==
  [id : STRING, trigger : {"cron", "webhook"}, times : SUBSET Nat, path : STRING,
   sensor : BOOLEAN, directive : {"self", "operator", "public"},
   secrets : Seq(STRING), cursor : BOOLEAN]

\* No two files of a directory name the same id (Registry::get takes the first).
UniqueIds(defs) == \A a, b \in defs : a.id = b.id => a = b

ASSUME DutiesAssumption ==
  /\ Definitions \subseteq Definition /\ Definitions # {}
  /\ Directories \subseteq SUBSET Definitions
  /\ \A defs \in Directories : UniqueIds(defs)
  /\ Shipped \in Directories

VARIABLES
  disk,      \* the definitions under stimuli/
  script,    \* what the sensors' script beside them contains
  registry,  \* the loaded ones, behind the lock
  schedule,  \* CronWheel::schedules
  routes,    \* the listener's route table
  permit,    \* the wheel's Notify: a wake-up that waits for it
  reloads,   \* the reloads in progress: what each read, and how far it came
  watched,   \* whether the watcher is up
  overtaken  \* history: a change no reload of its own, or an overlapping one, picked up

dutyVars == <<disk, script, registry, schedule, routes, permit, reloads, watched,
              overtaken>>

ScriptsHonored(d) == d.directive \in {"self", "operator"}
HasSensor(d) == d.sensor /\ ScriptsHonored(d)

CronRoutes(defs) == {d \in defs : d.trigger = "cron"}
WebhookRoutes(defs) == {d \in defs : d.trigger = "webhook"}
Lookup(id) == {d \in registry : d.id = id}

Scripts == {"signed", "edited"}
Reloading == {"load", "swap", "reschedule", "notify", "route"}

DutiesTypeOK ==
  /\ disk \in Directories /\ registry \in Directories
  /\ schedule \subseteq Definitions /\ routes \subseteq Definitions
  /\ permit \in BOOLEAN /\ watched \in BOOLEAN /\ overtaken \in BOOLEAN
  /\ reloads \subseteq [task : 1 .. MaxAccidents, at : Reloading, read : Directories \cup {{}}]
  /\ \A r \in reloads : r.at # "load" => r.read \in Directories
  /\ script \in Scripts

\* Registry::load and the first routes, from what is on disk.
Loaded(defs) ==
  /\ registry' = defs
  /\ schedule' = CronRoutes(defs)
  /\ routes' = WebhookRoutes(defs)

DutiesInit ==
  /\ disk = Shipped
  /\ registry = disk /\ schedule = CronRoutes(disk) /\ routes = WebhookRoutes(disk)
  /\ permit = TRUE /\ reloads = {} /\ watched = FALSE
  /\ script = "signed" /\ overtaken = FALSE

\* spawn_stimuli_watcher: what changed since the load is not looked for.
Watch ==
  /\ ~watched
  /\ watched' = TRUE
  /\ UNCHANGED <<disk, script, registry, schedule, routes, permit, reloads, overtaken>>

\* The watcher, if it is up, spawns a reload for a change.
Noticed ==
  reloads' = IF watched
             THEN reloads \cup {[task |-> accidents', at |-> "load", read |-> {}]}
             ELSE reloads

\* The operator, or Reflect, rewrites the definitions.
EditStimuli ==
  /\ Accident
  /\ disk' \in Directories \ {disk}
  /\ Noticed
  /\ overtaken' = (~watched \/ reloads # {})
  /\ UNCHANGED <<script, registry, schedule, routes, permit, watched>>

\* The sensors' script is edited, or put back as it was signed.
EditScript ==
  /\ Accident
  /\ script' \in Scripts \ {script}
  /\ Noticed
  /\ UNCHANGED <<disk, registry, schedule, routes, permit, watched, overtaken>>

Goes(r, at, read) == reloads' = (reloads \ {r}) \cup {[r EXCEPT !.at = at, !.read = read]}

ReloadLoads(r) ==
  /\ r.at = "load"
  /\ Goes(r, "swap", disk)
  /\ UNCHANGED <<disk, script, registry, schedule, routes, permit, watched, overtaken>>

ReloadSwaps(r) ==
  /\ r.at = "swap"
  /\ registry' = r.read
  /\ Goes(r, "reschedule", r.read)
  /\ UNCHANGED <<disk, script, schedule, routes, permit, watched, overtaken>>

Reschedule(r) ==
  /\ r.at = "reschedule"
  /\ schedule' = CronRoutes(r.read)
  /\ Goes(r, "notify", r.read)
  /\ UNCHANGED <<disk, script, registry, routes, permit, watched, overtaken>>

\* Mutant: the wheel is not told.
GoOn(r) ==
  /\ r.at = "notify"
  /\ Goes(r, "route", r.read)
  /\ UNCHANGED <<disk, script, registry, schedule, routes, permit, watched, overtaken>>

\* The end of CronWheel::reschedule: the wake-up is kept until the wheel takes it.
NotifyWheel(r) ==
  /\ r.at = "notify"
  /\ permit' = TRUE
  /\ Goes(r, "route", r.read)
  /\ UNCHANGED <<disk, script, registry, schedule, routes, watched, overtaken>>

\* Mutant: the new routes are added to the old ones.
AddRoutes(r) ==
  /\ r.at = "route"
  /\ routes' = routes \cup WebhookRoutes(r.read)
  /\ reloads' = reloads \ {r}
  /\ UNCHANGED <<disk, script, registry, schedule, permit, watched, overtaken>>

\* AxumWebhookListener::set_routes: the table is replaced.
SetRoutes(r) ==
  /\ r.at = "route"
  /\ routes' = WebhookRoutes(r.read)
  /\ reloads' = reloads \ {r}
  /\ UNCHANGED <<disk, script, registry, schedule, permit, watched, overtaken>>

Reload(r) ==
  ReloadLoads(r) \/ ReloadSwaps(r) \/ Reschedule(r) \/ NotifyWheel(r) \/ SetRoutes(r)

\* The daemon starts again: what it kept in memory is read anew.
DutiesBoot ==
  /\ Loaded(disk)
  /\ permit' = TRUE /\ reloads' = {} /\ watched' = FALSE /\ overtaken' = FALSE
  /\ UNCHANGED <<disk, script>>

\* Once the reloads are through, the registry, the wheel and the listener agree with
\* the directory and with one another, unless a change came before the watcher was
\* up or while a reload was under way (reload, spawn_stimuli_watcher).
ReloadsSettle ==
  reloads = {} /\ ~overtaken =>
    /\ registry = disk
    /\ schedule = CronRoutes(disk)
    /\ routes = WebhookRoutes(disk)
=============================================================================
