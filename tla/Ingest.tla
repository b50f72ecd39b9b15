-------------------------------- MODULE Ingest --------------------------------
(***************************************************************************)
(* Ingestion: the pre-conscious half of the harness. The wheel (CronWheel)    *)
(* and the webhook listener put triggers into one channel; one consumer takes *)
(* them, looks the duty up in the registry, runs its sensor with the secrets  *)
(* and the watermark it declares, advances the watermark, derives the trust   *)
(* of what it sensed and hands the candidates to the bus.                    *)
(*                                                                          *)
(* Every call of the consumer is an await: an edit of the directory or of the *)
(* sensor's script, a failure or a crash can come before any of them. What    *)
(* the bus does with candidates is in module Bus; here a candidate is stored  *)
(* or the call fails.                                                        *)
(***************************************************************************)
EXTENDS CronWheel, TrustLattice, Health, SequencesExt, FiniteSetsExt

CONSTANTS
  Providers,   \* secrets_providers: the names that are configured
  TrustOf,     \* their `trust`
  Signed,      \* signed_scripts: the tier of each version of the script that was signed
  Webhooks,    \* webhooks: the tier of each path that is registered
  MaxItems,    \* bound: items in the world that sensors look at
  MaxPosts     \* bound: webhook posts

ASSUME IngestAssumption ==
  /\ TrustOf \in [Providers -> Configured]
  /\ DOMAIN Signed \subseteq {"signed", "edited"} /\ Range(Signed) \subseteq Configured
  /\ DOMAIN Webhooks \subseteq STRING /\ Range(Webhooks) \subseteq Configured
  /\ MaxItems \in Nat /\ MaxPosts \in Nat
  /\ {"self", "public"} \subseteq Configured

VARIABLES
  world,    \* the newest item a sensor could see; the items of a duty are numbered by age
  cursor,   \* the stored watermark of each duty
  ingest,   \* the process call in progress
  posts,    \* where each webhook post is
  rows,     \* of each duty's items: how often each was stored, and with what trust
  health,   \* of each duty
  secrets,  \* of each provider
  kept,     \* history: posts whose call ended well: what came of it was stored
  hit       \* history: items and posts in the hands of a call that failed, that was
            \* lost, or whose duty was gone

ingestVars == <<world, cursor, ingest, posts, rows, health, secrets, kept, hit>>
vars == <<dutyVars, wheelVars, ingestVars, accidents>>

Items == 1 .. MaxItems
Posts == 1 .. MaxPosts
Item(id, n) == <<"item", id, n>>
Post(n) == <<"post", n>>

Waiting == [at |-> "idle", duty |-> CHOOSE d \in Definitions : TRUE, post |-> 0,
            todo |-> <<>>, sensed |-> {}, ran |-> "signed", read |-> "signed"]
Stages == {"idle", "secrets", "advance", "seed", "store"}

NoRow == [times |-> 0, tier |-> "public"]

\* Every variable keeps its type.
TypeOK ==
  /\ DutiesTypeOK /\ WheelTypeOK
  /\ accidents \in 0 .. MaxAccidents
  /\ world \in 0 .. MaxItems
  /\ cursor \in [Ids -> 0 .. MaxItems]
  /\ ingest \in [at : Stages, duty : Definitions, post : 0 .. MaxPosts, todo : Seq(STRING),
                 sensed : SUBSET Items, ran : Scripts, read : Scripts]
  /\ \A n \in DOMAIN channel : channel[n].post <= MaxPosts
  /\ posts \in [Posts -> [at : {"none", "routed", "accepted"}, id : Ids]]
  /\ rows \in [Ids \X Items -> [times : Nat, tier : Configured]]
  /\ kept \subseteq Posts
  /\ hit \subseteq ({"item"} \X Ids \X Items) \cup ({"post"} \X Posts)

Init ==
  /\ DutiesInit /\ WheelInit
  /\ accidents = 0
  /\ world = 0
  /\ cursor = [d \in Ids |-> 0]
  /\ ingest = Waiting
  /\ posts = [p \in Posts |-> [at |-> "none", id |-> CHOOSE d \in Ids : TRUE]]
  /\ rows = [i \in Ids \X Items |-> NoRow]
  /\ health = [d \in Ids |-> NeverFired]
  /\ secrets = [s \in Providers |-> Unchecked]
  /\ kept = {} /\ hit = {}

-----------------------------------------------------------------------------
(* The webhook listener: the route is looked up, the body read, the trigger   *)
(* sent; between them the routes may change. Only a sent post is accepted.    *)

RoutePost(p) ==
  /\ posts[p].at = "none"
  /\ \E d \in routes : posts' = [posts EXCEPT ![p] = [at |-> "routed", id |-> d.id]]
  /\ UNCHANGED <<dutyVars, wheelVars, world, cursor, ingest, rows, health, secrets, kept, hit,
                 accidents>>

AcceptPost(p) ==
  /\ posts[p].at = "routed" /\ Len(channel) < Capacity
  /\ channel' = Append(channel, [id |-> posts[p].id, post |-> p])
  /\ posts' = [posts EXCEPT ![p].at = "accepted"]
  /\ UNCHANGED <<dutyVars, clock, wheel, fires, excused, world, cursor, ingest, rows, health,
                 secrets, kept, hit, accidents>>

-----------------------------------------------------------------------------
(* The consumer: Ingestor::run and process.                                 *)

\* What the call in progress holds: its post, and the items it has advanced past.
Held ==
  {Post(p) : p \in {ingest.post} \ {0}} \cup
  {Item(ingest.duty.id, n) : n \in IF ingest.at \in {"seed", "store"} THEN ingest.sensed ELSE {}}

outside == <<dutyVars, clock, wheel, fires, excused, world, posts>>

EndsOk ==
  /\ ingest' = Waiting
  /\ health' = [health EXCEPT ![ingest.duty.id] = StimulusOk(@)]
  /\ kept' = kept \cup ({ingest.post} \ {0})
EndsErr ==
  /\ ingest' = Waiting
  /\ health' = [health EXCEPT ![ingest.duty.id] = StimulusErr(@)]
  /\ hit' = hit \cup Held

\* A trigger is taken. A duty that is gone is dropped, and counts as a success.
TakeGone ==
  /\ ingest.at = "idle" /\ channel # <<>> /\ Lookup(Head(channel).id) = {}
  /\ channel' = Tail(channel)
  /\ health' = [health EXCEPT ![Head(channel).id] = StimulusOk(Fired(@))]
  /\ hit' = hit \cup {Post(p) : p \in {Head(channel).post} \ {0}}
  /\ UNCHANGED <<outside, cursor, ingest, rows, secrets, kept, accidents>>

\* A duty without a sensor has its candidate at once: the post, or an empty one.
Take(d) ==
  /\ ingest.at = "idle" /\ channel # <<>> /\ d \in Lookup(Head(channel).id)
  /\ channel' = Tail(channel)
  /\ health' = [health EXCEPT ![d.id] = Fired(@)]
  /\ ingest' = [Waiting EXCEPT !.duty = d, !.post = Head(channel).post, !.todo = d.secrets,
                               !.at = IF HasSensor(d) THEN "secrets" ELSE "seed"]
  /\ UNCHANGED <<outside, cursor, rows, secrets, kept, hit, accidents>>

\* SecretsBroker::env_for, one provider of the scope at a time.
MaterializeSecret ==
  /\ ingest.at = "secrets" /\ ingest.todo # <<>> /\ Head(ingest.todo) \in Providers
  /\ secrets' = [secrets EXCEPT ![Head(ingest.todo)] = SecretOk(@)]
  /\ ingest' = [ingest EXCEPT !.todo = Tail(@)]
  /\ UNCHANGED <<outside, channel, cursor, rows, health, kept, hit, accidents>>

\* The first provider that fails ends the call; so does a name nobody configured,
\* which no provider's health is charged for.
SecretFails ==
  /\ ingest.at = "secrets" /\ ingest.todo # <<>>
  /\ \/ /\ Head(ingest.todo) \in Providers /\ Accident
        /\ secrets' = [secrets EXCEPT ![Head(ingest.todo)] = SecretErr(@)]
     \/ /\ Head(ingest.todo) \notin Providers
        /\ UNCHANGED <<secrets, accidents>>
  /\ EndsErr
  /\ UNCHANGED <<outside, channel, cursor, rows, kept>>

\* get_cursor and SubprocessSensor::run: the script as it is now runs, and yields what is
\* newer than the watermark it finds in its environment. The call is the only one that
\* moves the watermark.
Sense ==
  /\ ingest.at = "secrets" /\ ingest.todo = <<>>
  /\ LET since == IF ingest.duty.cursor THEN cursor[ingest.duty.id] ELSE 0 IN
       ingest' = [ingest EXCEPT !.at = "advance", !.ran = script, !.sensed = since + 1 .. world]
  /\ UNCHANGED <<outside, channel, cursor, rows, health, secrets, kept, hit, accidents>>

Watermark(sensed) == Max(sensed)

\* Mutant: the watermark is put off to when the candidates are stored.
AdvanceLater ==
  /\ ingest.at = "advance"
  /\ ingest' = [ingest EXCEPT !.at = "seed"]
  /\ UNCHANGED <<outside, channel, cursor, rows, health, secrets, kept, hit, accidents>>

\* Mutant: the watermark is the newest item there is by now.
AdvanceToNewest ==
  /\ ingest.at = "advance"
  /\ cursor' = [cursor EXCEPT ![ingest.duty.id] = world]
  /\ ingest' = [ingest EXCEPT !.at = "seed"]
  /\ UNCHANGED <<outside, channel, rows, health, secrets, kept, hit, accidents>>

\* set_cursor, at discovery; an empty poll leaves the watermark alone.
AdvanceCursor ==
  /\ ingest.at = "advance"
  /\ cursor' = IF ingest.duty.cursor /\ ingest.sensed # {}
               THEN [cursor EXCEPT ![ingest.duty.id] = Watermark(ingest.sensed)]
               ELSE cursor
  /\ ingest' = [ingest EXCEPT !.at = "seed"]
  /\ UNCHANGED <<outside, channel, rows, health, secrets, kept, hit, accidents>>

\* payload_seed reads the script again, to look up what it was signed for.
ReadScript ==
  /\ ingest.at = "seed"
  /\ IF HasSensor(ingest.duty) /\ ingest.sensed = {} THEN EndsOk
     ELSE /\ ingest' = [ingest EXCEPT !.at = "store", !.read = script]
          /\ UNCHANGED <<health, kept>>
  /\ UNCHANGED <<outside, channel, cursor, rows, secrets, hit, accidents>>

\* What is not signed or registered is public; a provider nobody configured, whose
\* secret no sensor gets, the agent's own.
ScriptTrust(version) == IF version \in DOMAIN Signed THEN Signed[version] ELSE "public"
WebhookTrust(path) == IF path \in DOMAIN Webhooks THEN Webhooks[path] ELSE "public"
SecretTrust(name) == IF name \in Providers THEN TrustOf[name] ELSE "self"

\* Mutant: a sensor is trusted as its script is, whatever it fetched with.
ScriptSeed(d, read) == IF HasSensor(d) THEN ScriptTrust(read) ELSE "self"

\* The trust of a duty's candidates: what the script was signed for, met with that of
\* each secret it fetched with; a post's is its path's, a self-prompt's the agent's own.
Seed(d, read) ==
  IF HasSensor(d)
  THEN LET met[n \in 0 .. Len(d.secrets)] ==
             IF n = 0 THEN ScriptTrust(read) ELSE Meet(met[n - 1], SecretTrust(d.secrets[n]))
       IN  met[Len(d.secrets)]
  ELSE IF d.trigger = "webhook" THEN WebhookTrust(d.path) ELSE "self"

\* Bus::ingest, one sensed candidate: its own label may only lower the seed.
StoreItem ==
  /\ ingest.at = "store" /\ ingest.sensed # {}
  /\ LET n == Min(ingest.sensed) IN
       /\ \E own \in Configured :
            rows' = [rows EXCEPT ![<<ingest.duty.id, n>>] =
                       [times |-> @.times + 1,
                        tier |-> Meet(own, Seed(ingest.duty, ingest.read))]]
       /\ IF ingest.sensed = {n} THEN EndsOk
          ELSE ingest' = [ingest EXCEPT !.sensed = @ \ {n}] /\ UNCHANGED <<health, kept>>
  /\ UNCHANGED <<outside, channel, cursor, secrets, hit, accidents>>

\* The candidate of a duty without a sensor.
StoreOther ==
  /\ ingest.at = "store" /\ ingest.sensed = {}
  /\ EndsOk
  /\ UNCHANGED <<outside, channel, cursor, rows, secrets, hit, accidents>>

\* A statement of the queue fails, or the sensor does: the call ends, its rest is dropped.
CallFails ==
  /\ \/ ingest.at \in {"advance", "store"}
     \/ ingest.at = "secrets" /\ ingest.todo = <<>>
  /\ Accident /\ EndsErr
  /\ UNCHANGED <<outside, channel, cursor, rows, secrets, kept>>

Consume ==
  \/ TakeGone
  \/ \E d \in Definitions : Take(d)
  \/ MaterializeSecret \/ SecretFails
  \/ Sense \/ AdvanceCursor \/ ReadScript
  \/ StoreItem \/ StoreOther
  \/ CallFails

-----------------------------------------------------------------------------
(* The world, and the loss of the process.                                  *)

NewItem ==
  /\ world < MaxItems
  /\ world' = world + 1
  /\ UNCHANGED <<dutyVars, wheelVars, cursor, ingest, posts, rows, health, secrets, kept, hit,
                 accidents>>

\* Accepted posts die with the channel; a sender without an answer may post again.
Crash ==
  /\ Accident
  /\ DutiesBoot /\ WheelBoot
  /\ ingest' = Waiting
  /\ posts' = [p \in Posts |->
                 IF posts[p].at = "routed" THEN [posts[p] EXCEPT !.at = "none"] ELSE posts[p]]
  /\ health' = [d \in Ids |-> NeverFired]
  /\ secrets' = [s \in Providers |-> Unchecked]
  /\ hit' = hit \cup Held \cup {Post(channel[n].post) : n \in {m \in DOMAIN channel :
                                                                channel[m].post # 0}}
  /\ UNCHANGED <<world, cursor, rows, kept>>

Next ==
  \/ (EditStimuli \/ EditScript) /\ UNCHANGED <<wheelVars, ingestVars>>
  \/ Watch /\ UNCHANGED <<wheelVars, ingestVars, accidents>>
  \/ (\E r \in reloads : Reload(r)) /\ UNCHANGED <<wheelVars, ingestVars, accidents>>
  \/ (Wheel \/ WheelTick) /\ UNCHANGED <<ingestVars, accidents>>
  \/ \E p \in Posts : RoutePost(p) \/ AcceptPost(p)
  \/ Consume
  \/ NewItem
  \/ Crash

Spec == Init /\ [][Next]_vars

-----------------------------------------------------------------------------

\* Every sensor a duty of this id may have declares a watermark.
Watermarked(id) == \A d \in Definitions : d.id = id /\ HasSensor(d) => d.cursor

\* An item of a duty with a watermark is stored at most once, over polls, failures and
\* crashes: it is behind the watermark before anything can go wrong with it
\* (Ingestor::process, get_cursor and set_cursor).
NoItemTwice ==
  \A i \in Ids \X Items : Watermarked(i[1]) => rows[i].times <= 1

\* Nothing is passed over: an item behind the watermark was stored, and so was an accepted
\* post, or they are still in hand, or a failure, a crash or a duty taken away hit them.
NothingUnheard ==
  /\ \A d \in Ids, n \in Items :
       n <= cursor[d] => rows[<<d, n>>].times > 0 \/ Item(d, n) \in hit \cup Held
  /\ \A p \in Posts : posts[p].at = "accepted" =>
       \/ p \in kept \/ Post(p) \in hit \cup Held
       \/ \E n \in DOMAIN channel : channel[n].post = p

\* What a sensor brings is trusted no more than the script that sensed it and the secrets
\* it fetched with, unless the script was changed before it was read for its trust
\* (payload_seed, Bus::ingest's clamp).
SensedTrust ==
  [][\A i \in Ids \X Items : rows'[i].times > rows[i].times /\ ingest.ran = ingest.read =>
       /\ Rank(rows'[i].tier) <= Rank(ScriptTrust(ingest.ran))
       /\ \A n \in DOMAIN ingest.duty.secrets :
            Rank(rows'[i].tier) <= Rank(SecretTrust(ingest.duty.secrets[n]))]_vars
=============================================================================
