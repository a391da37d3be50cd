------------------------------- MODULE Webhooks -------------------------------
(***************************************************************************)
(* Outbound webhooks: the subscriptions of an importer                     *)
(* (apps/api/src/routes/importers.ts), the deliveries that a finished job  *)
(* starts (queue.ts) and their attempts (services/webhooks.ts), which wait *)
(* for each other in timers of one process.                                *)
(***************************************************************************)
EXTENDS Integers

CONSTANTS
  Subs,          \* subscriptions
  Hooks,         \* pairs of an event of a job and a subscription it is for
  SubOf,         \* the subscription of each
  BACKOFFS,      \* entries of BACKOFF_DELAYS_MS: 5
  MAX_MISHAPS    \* bound of the model: restarts and errors of the database

ASSUME WebhooksAssumption ==
  /\ SubOf \in [Hooks -> Subs] /\ BACKOFFS \in Nat \ {0} /\ MAX_MISHAPS \in Nat

VARIABLES
  webhook_subscriptions,  \* table: none, active, deleted
  webhook_deliveries,     \* table: status of each attempt's row
  hook,                   \* what the process is doing for each delivery
  received,               \* attempts the subscriber has had the request of
  postedLate,             \* history: attempts made after the subscription was gone
  forgotten,              \* history: deliveries a restart or a failed insert ended
  mishaps                 \* bound of the model

hookVars == <<webhook_subscriptions, webhook_deliveries, hook, received, postedLate,
              forgotten, mishaps>>

-----------------------------------------------------------------------------

Attempts == 1..BACKOFFS

Hook == [at : {"none", "posting", "inserting", "waiting", "ended"}, attempt : 0..BACKOFFS,
         ok : BOOLEAN]

HookAt(h, place) == hook[h].at = place

Subscribed(h) == webhook_subscriptions[SubOf[h]] = "active"

EndHook(h) == hook' = [hook EXCEPT ![h].at = "ended"]

Mishap == mishaps < MAX_MISHAPS /\ mishaps' = mishaps + 1

-----------------------------------------------------------------------------

(* POST /:id/webhook-subscriptions *)
Subscribe(s) ==
  /\ webhook_subscriptions[s] = "none"
  /\ webhook_subscriptions' = [webhook_subscriptions EXCEPT ![s] = "active"]
  /\ UNCHANGED <<webhook_deliveries, hook, received, postedLate, forgotten, mishaps>>

(* DELETE .../:subId; its deliveries go with it (ON DELETE CASCADE). *)
Unsubscribe(s) ==
  /\ webhook_subscriptions[s] = "active"
  /\ webhook_subscriptions' = [webhook_subscriptions EXCEPT ![s] = "deleted"]
  /\ webhook_deliveries' = [h \in Hooks |->
       IF SubOf[h] = s THEN [a \in Attempts |-> "none"] ELSE webhook_deliveries[h]]
  /\ UNCHANGED <<hook, received, postedLate, forgotten, mishaps>>

(* dispatchWebhookEvent: the subscription is read once, for all attempts. *)
Dispatch(h) ==
  /\ HookAt(h, "none") /\ Subscribed(h)
  /\ hook' = [hook EXCEPT ![h] = [at |-> "posting", attempt |-> 1, ok |-> FALSE]]
  /\ UNCHANGED <<webhook_subscriptions, webhook_deliveries, received, postedLate,
                 forgotten, mishaps>>

(* fetch: the subscriber has the request or not, and its answer comes back in *)
(* time or not.                                                              *)
PostHook(h) ==
  /\ HookAt(h, "posting")
  /\ \E ok, reached \in BOOLEAN :
       /\ ok => reached
       /\ hook' = [hook EXCEPT ![h].at = "inserting", ![h].ok = ok]
       /\ received' = IF reached THEN [received EXCEPT ![h] = @ \cup {hook[h].attempt}]
                      ELSE received
  /\ postedLate' = IF Subscribed(h) THEN postedLate
                   ELSE [postedLate EXCEPT ![h] = @ + 1]
  /\ UNCHANGED <<webhook_subscriptions, webhook_deliveries, forgotten, mishaps>>

(* Mutant of CanRetry: to the last entry of the table, for which no timer is set. *)
CanRetryToTheEnd(h) == ~hook[h].ok /\ hook[h].attempt < BACKOFFS + 1

(* The last entry of BACKOFF_DELAYS_MS is never waited for. *)
CanRetry(h) == ~hook[h].ok /\ hook[h].attempt < BACKOFFS - 1

RowStatus(h) ==
  IF hook[h].ok THEN "success" ELSE IF CanRetry(h) THEN "pending_retry" ELSE "failed"

(* A retry needs a delay: the table has none for an attempt past its end. *)
AfterAttempt(h) ==
  IF CanRetry(h) /\ hook[h].attempt < BACKOFFS THEN "waiting" ELSE "ended"

(* INSERT INTO webhook_deliveries, and the timer of the next attempt *)
InsertDelivery(h) ==
  /\ HookAt(h, "inserting") /\ Subscribed(h)
  /\ webhook_deliveries' = [webhook_deliveries EXCEPT ![h][hook[h].attempt] = RowStatus(h)]
  /\ hook' = [hook EXCEPT ![h].at = AfterAttempt(h)]
  /\ UNCHANGED <<webhook_subscriptions, received, postedLate, forgotten, mishaps>>

(* Mutant of InsertRefused: the attempts go on without a row. *)
InsertIgnored(h) ==
  /\ HookAt(h, "inserting") /\ ~Subscribed(h)
  /\ hook' = [hook EXCEPT ![h].at = AfterAttempt(h)]
  /\ UNCHANGED <<webhook_subscriptions, webhook_deliveries, received, postedLate,
                 forgotten, mishaps>>

(* The subscription is gone, the foreign key refuses the row: no timer is set. *)
InsertRefused(h) ==
  /\ HookAt(h, "inserting") /\ ~Subscribed(h)
  /\ EndHook(h)
  /\ UNCHANGED <<webhook_subscriptions, webhook_deliveries, received, postedLate,
                 forgotten, mishaps>>

InsertBreaks(h) ==
  /\ HookAt(h, "inserting")
  /\ Mishap
  /\ EndHook(h)
  /\ forgotten' = forgotten \cup {h}
  /\ UNCHANGED <<webhook_subscriptions, webhook_deliveries, received, postedLate>>

(* The timer fires. *)
RetryHook(h) ==
  /\ HookAt(h, "waiting")
  /\ hook' = [hook EXCEPT ![h].at = "posting", ![h].attempt = @ + 1, ![h].ok = FALSE]
  /\ UNCHANGED <<webhook_subscriptions, webhook_deliveries, received, postedLate,
                 forgotten, mishaps>>

(* The process ends, and its timers with it. *)
RestartHooks ==
  LET lost == {h \in Hooks : hook[h].at \in {"posting", "inserting", "waiting"}}
  IN /\ lost # {}
     /\ Mishap
     /\ hook' = [h \in Hooks |-> IF h \in lost THEN [hook[h] EXCEPT !.at = "ended"]
                                 ELSE hook[h]]
     /\ forgotten' = forgotten \cup lost
     /\ UNCHANGED <<webhook_subscriptions, webhook_deliveries, received, postedLate>>

-----------------------------------------------------------------------------

HooksInit ==
  /\ webhook_subscriptions = [s \in Subs |-> "none"]
  /\ webhook_deliveries = [h \in Hooks |-> [a \in Attempts |-> "none"]]
  /\ hook = [h \in Hooks |-> [at |-> "none", attempt |-> 0, ok |-> FALSE]]
  /\ received = [h \in Hooks |-> {}] /\ postedLate = [h \in Hooks |-> 0]
  /\ forgotten = {} /\ mishaps = 0

HooksNext ==
  \/ RestartHooks
  \/ \E s \in Subs : Subscribe(s) \/ Unsubscribe(s)
  \/ \E h \in Hooks : \/ Dispatch(h) \/ PostHook(h) \/ InsertDelivery(h) \/ InsertRefused(h)
                     \/ InsertBreaks(h) \/ RetryHook(h)

HooksSpec == HooksInit /\ [][HooksNext]_hookVars

-----------------------------------------------------------------------------

HooksTypeOK ==
  /\ webhook_subscriptions \in [Subs -> {"none", "active", "deleted"}]
  /\ webhook_deliveries \in
       [Hooks -> [Attempts -> {"none", "success", "failed", "pending_retry"}]]
  /\ hook \in [Hooks -> Hook]
  /\ received \in [Hooks -> SUBSET Attempts] /\ postedLate \in [Hooks -> Nat]
  /\ forgotten \subseteq Hooks

(* The log of a delivery is true: it says success once, as its last row, and   *)
(* only of what the subscriber has had; and a row that promises a retry has    *)
(* the next row, an attempt or a timer behind it, unless a restart or a failed *)
(* insert forgot the delivery.                                                 *)
LogIsTrue ==
  \A h \in Hooks, a \in Attempts :
    /\ webhook_deliveries[h][a] = "success" =>
         /\ a \in received[h]
         /\ \A b \in Attempts : b > a => webhook_deliveries[h][b] = "none"
    /\ webhook_deliveries[h][a] = "pending_retry" /\ h \notin forgotten =>
         \/ \E b \in Attempts : b = a + 1 /\ webhook_deliveries[h][b] # "none"
         \/ HookAt(h, "waiting") /\ hook[h].attempt = a
         \/ hook[h].at \in {"posting", "inserting"} /\ hook[h].attempt = a + 1

(* A subscriber that has unsubscribed hears of each event once more at most:   *)
(* the attempt that finds the subscription gone is the last.                   *)
OneLatePost == \A h \in Hooks : postedLate[h] <= 1

=============================================================================
