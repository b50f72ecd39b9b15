------------------------------- MODULE MCIngest -------------------------------
(***************************************************************************)
(* An instance of Ingest for TLC: a feed that is polled and a diary that is   *)
(* due with it; after an edit an inbox that is posted to, and a later feed.   *)
(***************************************************************************)
EXTENDS Ingest

Duty(id, trigger, times, path, sensor, scopes) ==
  [id |-> id, trigger |-> trigger, times |-> times, path |-> path, sensor |-> sensor,
   directive |-> "self", secrets |-> scopes, cursor |-> sensor]

Feed == Duty("feed", "cron", {1, 2}, "", TRUE, <<"token">>)
LateFeed == Duty("feed", "cron", {2}, "", TRUE, <<"token">>)
Diary == Duty("diary", "cron", {1}, "", FALSE, <<>>)
Inbox == Duty("inbox", "webhook", {}, "/inbox", FALSE, <<>>)

MCDefinitions == {Feed, LateFeed, Diary, Inbox}
MCShipped == {Feed, Diary}
MCDirectories == {MCShipped, {LateFeed, Inbox}}

MCTiers == <<"public", "self">>
MCReaches == [t \in {"public", "self"} |-> IF t = "public" THEN "Express" ELSE "Reflect"]
MCTrustOf == [s \in {"token"} |-> "public"]
MCSigned == [s \in {"signed"} |-> "self"]
MCWebhooks == [p \in {"/elsewhere"} |-> "self"]
=============================================================================
