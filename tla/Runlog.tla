-------------------------------- MODULE Runlog --------------------------------
(***************************************************************************)
(* The agent's short-term memory (DailyFileRunLog): one file of entries per   *)
(* day and one of sticky notes, rewritten whole and committed under a lock,   *)
(* a count of the entries of each day kept in memory, and the views a         *)
(* resumed session is given of what happened since it was last used.          *)
(*                                                                          *)
(* The lock makes an append one critical section; what can come between its   *)
(* file write and its commit is a failure or a crash. Reading is without the  *)
(* lock, and a read that fails is taken for an empty file.                   *)
(***************************************************************************)
EXTENDS Accidents, Sequences, FiniteSets

CONSTANTS
  Threads,     \* conversations: the tag of an entry, the key of a session
  DayLength,   \* seconds of a day
  KeepDays,    \* runlog_retention_days; 0 keeps everything
  MaxNotes,    \* tag_notes_max; 0 keeps everything
  Lookback,    \* thread_recent_lookback_secs
  SessionTtl,  \* session_ttl_secs; 0 disables it
  MaxTime      \* bound: the last second

ASSUME RunlogAssumption ==
  /\ DayLength \in Nat \ {0}
  /\ KeepDays \in Nat /\ MaxNotes \in Nat /\ Lookback \in Nat /\ SessionTtl \in Nat
  /\ MaxTime \in Nat

VARIABLES
  clock,
  day,      \* the entries of each day's file, oldest first
  notes,    \* the sticky notes, oldest first
  counted,  \* RunlogStats::days, in memory
  writing,  \* append: the day whose file was written and not yet committed
  lastUsed, \* the session of each thread: when it was stored; NoSession if there is none
  logged,   \* history: every entry written, in order
  wiped,    \* history: the entries a failed read or the retention dropped
  noted,    \* history: every note appended
  known,    \* history: the runs logged when the session was last used, and its own
  miscounted \* history: days whose count a failure or the retention left behind

logVars == <<clock, day, notes, counted, writing, lastUsed, logged, wiped,
             noted, known, miscounted>>

Today == clock \div DayLength
Days == 0 .. MaxTime \div DayLength
NoDay == -1
NoSession == -1

Entry == [run : Nat, thread : Threads, received : 0 .. MaxTime]

\* Every variable keeps its type; no session was stored in the future.
LogTypeOK ==
  /\ clock \in 0 .. MaxTime
  /\ day \in [Days -> Seq(Entry)]
  /\ notes \in Seq(Nat)
  /\ counted \in [Days -> Nat]
  /\ writing \in Days \cup {NoDay}
  /\ lastUsed \in [Threads -> NoSession .. clock]
  /\ logged \in Seq(Entry) /\ wiped \subseteq Entry
  /\ noted \in Nat
  /\ known \in [Threads -> SUBSET Nat]
  /\ miscounted \subseteq Days

LogInit ==
  /\ clock = 0
  /\ day = [d \in Days |-> <<>>]
  /\ notes = <<>>
  /\ counted = [d \in Days |-> 0]
  /\ writing = NoDay
  /\ lastUsed = [t \in Threads |-> NoSession]
  /\ logged = <<>> /\ wiped = {} /\ noted = 0
  /\ known = [t \in Threads |-> {}]
  /\ miscounted = {}

Elements(s) == {s[n] : n \in DOMAIN s}

\* The last n of a sequence.
Newest(s, n) == IF Len(s) <= n THEN s ELSE SubSeq(s, Len(s) - n + 1, Len(s))

LogTick ==
  /\ clock < MaxTime
  /\ clock' = clock + 1
  /\ UNCHANGED <<day, notes, counted, writing, lastUsed, logged, wiped, noted,
                 known, miscounted>>

-----------------------------------------------------------------------------
(* append.                                                                  *)

\* What a read of the file gives: its entries, or nothing when it fails.
Reads(file, text) ==
  \/ text = file /\ UNCHANGED accidents
  \/ text = <<>> /\ file # <<>> /\ Accident

\* Mutant: the file is begun anew.
Overwritten(text, e) == <<e>>

\* The new text of the day's file.
Appended(text, e) == Append(text, e)

\* The entry joins today's file, which is written whole and renamed into place.
LogWrite(e) ==
  /\ writing = NoDay
  /\ \E text \in {day[Today], <<>>} :
       /\ Reads(day[Today], text)
       /\ day' = [day EXCEPT ![Today] = Appended(text, e)]
       /\ wiped' = wiped \cup (Elements(day[Today]) \ Elements(text))
       /\ miscounted' = IF text = day[Today] THEN miscounted ELSE miscounted \cup {Today}
  /\ writing' = Today
  /\ logged' = Append(logged, e)
  /\ UNCHANGED <<clock, notes, counted, lastUsed, noted, known>>

\* Mutant: the count goes to the day the commit returns on.
CountedOn == Today

\* The day whose file was written.
WrittenOn == writing

\* The commit: the entry is counted on the day it was written.
LogCommit ==
  /\ writing # NoDay
  /\ counted' = [counted EXCEPT ![WrittenOn] = @ + 1]
  /\ writing' = NoDay
  /\ UNCHANGED <<clock, day, notes, lastUsed, logged, wiped, noted, known,
                 miscounted>>

\* The add or the commit fails: the entry stays in the file, uncounted.
LogCommitFails ==
  /\ writing # NoDay
  /\ Accident
  /\ miscounted' = miscounted \cup {writing}
  /\ writing' = NoDay
  /\ UNCHANGED <<clock, day, notes, counted, lastUsed, logged, wiped, noted, known>>

-----------------------------------------------------------------------------
(* append_tag_note.                                                         *)

\* Mutant: the oldest are kept.
Oldest(s) == IF MaxNotes = 0 \/ Len(s) <= MaxNotes THEN s ELSE SubSeq(s, 1, MaxNotes)

Capped(s) == IF MaxNotes = 0 THEN s ELSE Newest(s, MaxNotes)

\* A note joins the catalogue, which keeps the newest. Notes are numbered.
TakeNote ==
  /\ writing = NoDay
  /\ \E text \in {notes, <<>>} :
       /\ Reads(notes, text)
       /\ notes' = Capped(Append(text, noted + 1))
  /\ noted' = noted + 1
  /\ UNCHANGED <<clock, day, counted, writing, lastUsed, logged, wiped, known, miscounted>>

-----------------------------------------------------------------------------
(* The views, and the sessions they are for.                                *)

Live(t) ==
  lastUsed[t] # NoSession /\ (SessionTtl = 0 \/ clock - lastUsed[t] < SessionTtl)

Latest(a, b) == IF a >= b THEN a ELSE b

\* Mutant: the second of the watermark belongs to the diff.
NotBefore(e, since) == e.received >= since

\* The time gate of the readers: an entry carries the time its stimulus was received.
After(e, since) == e.received > since

\* tail_entries: the thread's entries of yesterday and today after `since`.
TailEntries(t, since) ==
  {e \in UNION {Elements(day[d]) : d \in {Today - 1, Today} \cap Days} :
     e.thread = t /\ After(e, since)}

\* The `thread-recent` and `environment-recent` blocks of a resumed session.
ThreadRecent(t) == TailEntries(t, Latest(lastUsed[t], clock - Lookback))
EnvironmentRecent(t) == {e \in Elements(day[Today]) : After(e, lastUsed[t])}

\* sticky_store, after a run's invocation and before its own entry is written.
StoreSession(t, run) ==
  /\ lastUsed' = [lastUsed EXCEPT ![t] = clock]
  /\ known' = [known EXCEPT ![t] = {logged[n].run : n \in DOMAIN logged} \cup {run}]
  /\ UNCHANGED <<clock, day, notes, counted, writing, logged, wiped, noted,
                 miscounted>>

-----------------------------------------------------------------------------
(* Boot: a repository that is gone or broken is begun anew; the counts are    *)
(* rebuilt, then old days are dropped.                                      *)

Written == {d \in Days : day[d] # <<>>}

\* prune_old_days: all but the KeepDays newest.
Dropped == IF KeepDays = 0 THEN {}
           ELSE {d \in Written : Cardinality({x \in Written : x > d}) >= KeepDays}

CountAndPrune ==
  /\ counted' = [d \in Days |-> Len(day[d])]
  /\ day' = [d \in Days |-> IF d \in Dropped THEN <<>> ELSE day[d]]
  /\ wiped' = wiped \cup UNION {Elements(day[d]) : d \in Dropped}
  /\ miscounted' = Dropped
  /\ UNCHANGED notes

\* ensure_runlog_repo, without a remote to clone from: whatever is there is discarded.
Discard ==
  /\ day' = [d \in Days |-> <<>>]
  /\ counted' = [d \in Days |-> 0]
  /\ notes' = <<>>
  /\ wiped' = wiped \cup UNION {Elements(day[d]) : d \in Days}
  /\ miscounted' = {}

LogBoot(healthy) ==
  /\ IF healthy THEN CountAndPrune ELSE Discard
  /\ writing' = NoDay
  /\ lastUsed' = [t \in Threads |-> NoSession]
  /\ UNCHANGED <<clock, logged, noted, known>>

-----------------------------------------------------------------------------
\* The runlog is append-only: an entry is gone only if its day aged off, a read of the
\* day's file failed while another was appended, or the repository broke.
NothingUnwritten ==
  \A n \in DOMAIN logged :
    logged[n] \in wiped \/ \E d \in Days : logged[n] \in Elements(day[d])

\* The count of a day is that of its file, an append in progress apart; a failed commit or
\* read, or a day the boot dropped after it counted it, leaves it behind.
CountsAgree ==
  \A d \in Days :
    \/ d \in miscounted
    \/ counted[d] + (IF writing = d THEN 1 ELSE 0) = Len(day[d])

\* The catalogue holds the newest notes, up to its cap and to the last failed read of it.
NotesAreNewest ==
  \A n \in DOMAIN notes : notes[n] = noted - Len(notes) + n

\* A resumed session is not shown again a run that was in the runlog when it was last used.
DiffIsNew ==
  \A t \in Threads : Live(t) =>
    \A e \in ThreadRecent(t) \cup EnvironmentRecent(t) : e.run \notin known[t]
=============================================================================
