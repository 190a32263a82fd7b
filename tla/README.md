# A verification of the telltheworld notification service

This directory models the notification service of telltheworld (`apps/teller`,
with the packages it uses) and its client, the ecommerce service
(`apps/ecommerce`), in TLA+, checks the model with TLC on small instances, and
proves with TLAPS, for every instance, the safety properties, the action properties
and the refinement that TLC checks.
Paths below are relative to the root of the repository; `biz/` and `data/` are
short for `apps/teller/internal/biz/` and `apps/teller/internal/data/`.

## The system

A client asks the **teller server** (gRPC) to send one or many notifications.
The server inserts one row per notification in PostgreSQL and publishes one
message per notification to a **NATS JetStream** stream. **Worker** processes
share one durable pull consumer of that stream. A worker that receives a
message claims the row with a conditional UPDATE, sends to every destination in
a goroutine of its own through the **provider** of its channel, records each
result in the row, releases the row with a final status, and acknowledges the
message. Every worker also runs a **cleanup** ticker that makes rows that have
been in processing for more than five minutes pending again.

The **ecommerce service** (HTTP and gRPC) turns four kinds of events into one
SendToUser call each and reports its outcome as a success flag. Both services
put a recovery and a validator middleware in front of their handlers; the
validators are generated from rules in the `.proto` files.

| Part | State it keeps | Operations | Interacts by |
|---|---|---|---|
| server API (`service/notification.go`, `server/grpc.go`) | none | SendToUser, BulkSendToUser, GetNotificationStatus, Boardcast (a stub) | calls the use case under a one second deadline |
| use case (`biz/notification.go`) | progress of a call | save, publish one by one, mark failed, reply | statements on the table, publishes |
| repository and table (`data/notification.go`) | one row per notification | Save, BulkSave, UpdateStatus, UpdateChannelResult, Claim, Release, ResetStuck | one atomic statement each, UpdateChannelResult two |
| JetStream pubsub (`pkg/wpubsub/nats_pubsub.go`) | messages, delivery counts, unanswered batches | Publish, Fetch, Ack, Nak, redelivery | at-least-once messages |
| worker (`biz/notification_worker.go`) | the handler, its goroutines, its decision | processNotification, sendToChannel, updateChannelStatus, determineFinalStatus, cleanup | all of the above |
| worker process (`cmd/worker/main.go`) | whether it runs, whether its context is cancelled | start, signal, exit | cancels the worker's context, does not wait for it |
| providers (`biz/*provider.go`) | none | Send, GetProvider | called by the goroutines |
| in-memory pubsub (`pkg/wpubsub/memory_pubsub.go`) | subscribers, closed | Publish, Subscribe, unsubscribe, Close | a read-write lock; goroutines under the publisher's context |
| WPubSub (`pkg/wpubsub/wpubsub.go`), built by no binary | subscribers | Publish, Subscribe, Close | a read-write lock; goroutines |
| ecommerce service (`apps/ecommerce`) | the calls under way | SendChatMessage, TriggerPurchase, SendPaymentReminder, SendShippingUpdate | one SendToUser call per event, under its own deadline |
| validators (`apis/*/v1/*.pb.validate.go`) | none | Validate, ValidateAll of each message | called by the middleware of both servers |
| health check (`pkg/healthcheck`) | none | HealthzCheck, PingCheck | pings in goroutines |
| transport, wiring, utilities, rest of the generated code | none of interest | construction | |

### What is hard about it, and what makes it correct

* **Row and message are two stores.** Nothing is transactional across them:
  the row may exist without a message, a message may be stored although the
  publish returned an error, and acknowledging a message removes the only
  trigger a notification has. *UnclaimedKeepsMessage, AcceptedSettles, SentIsFinal.*
* **At-least-once delivery and slow workers.** A message is delivered again
  after 30 seconds without an answer, also when it only waits behind others of
  its batch, and a claim is reset after five minutes even if its worker lives.
  *ExclusiveClaim, DeliveriesBounded, ClaimsCounted.*
* **Read, compute, write back.** UpdateChannelResult saves every column of a row
  it read earlier, concurrently with its siblings, with other workers, with the
  cleanup and with the server. *NeverReopened, SentMeansDelivered,
  ResultIsKept, RecordedSuccessIsSent, ClaimsCounted, ReplyIsValid.*
* **Two services, two sets of rules.** The ecommerce service accepts an event by
  its own validator and builds from it a request the teller's validator must
  accept; a request may pass a validator and still make a handler panic, alone
  or inside a bulk call. *EventsFit, RefusedLeavesNothing, StoredAsAsked.*
* **Who is told what.** A deadline or a broken connection ends the wait of the
  caller, not the work of the teller, and either process may die meanwhile. A
  caller told of a failure may find its notification delivered; one told of
  success must not find it missing, and an id that a bulk reply leaves out should
  be marked. *SuccessIsStored, SkippedIsMarked, EveryCallIsAnswered.*
* **Failures in the middle.** A statement may fail although it was committed;
  a process may die or be told to stop at any point. *ProcessingIsOwned,
  StuckIsReset, StuckIsReclaimed, GracefulShutdown.*
* **Schedules and retries.** *NotBeforeSchedule, ScheduledIsSent, FailedIsRetried.*
* **Goroutines around a lock and a channel.** Publish, Subscribe and Close of
  the in-memory pubsubs race; HealthzCheck collects errors from goroutines with
  receives that do not block. *RegistryOK, MessageReachesSubscribers,
  NoStartAfterClose, NoSubscriptionLost, EveryHandlerRuns, AnswerIsRight,
  AlwaysAnswers.*

`PROJECT.json` lists each hazard at the line where it bites.

## The modules

| Module | Models | Extends |
|---|---|---|
| `Deployment` | notifications, worker identities, the budget of faults | |
| `NotificationTable` | the row, what each statement makes of it, what GetNotificationStatus answers | `Deployment` |
| `NATSPubSub` | the stream and its consumer | `Deployment` |
| `NotificationServer` | SendToUser and BulkSendToUser | `NotificationTable` |
| `NotificationWorker` | the handler, its goroutines, the cleanup, the process | `NotificationTable` |
| `Teller` | the composition, the subscription loop, fairness, `TypeOK` | the three above |
| `NotificationLifecycle` | the abstract promise about one notification | |
| `TellerProperties` | the properties, the refinement mapping | `Teller` |
| `TellerInvariant` | the inductive invariants `Inv`, `DeliveryInv`, `TriggerInv`, `PaidInv`, `HeldInv`, `DecisionInv` | `TellerProperties` |
| `MessageValidation` | what the generated validators have in common | |
| `TellerMessages` | the validators of the teller's messages | `MessageValidation` |
| `StatusReplies` | the reply of GetNotificationStatus, `ReplyIsValid` | `TellerInvariant`, `TellerMessages` |
| `MCTeller` | the values of the constants for TLC | `StatusReplies` |
| `EcommerceMessages` | the validators of the ecommerce requests | `MessageValidation` |
| `Ecommerce` | from an ecommerce request to the SendToUser request | `EcommerceMessages`, `TellerMessages` |
| `EventPath` | a call on its way through both services, deadlines, crashes | `NotificationServer`, `NATSPubSub`, `Ecommerce` |
| `EventProperties` | what the callers may rely on, the inductive invariants `PathInv`, `FailureInv` | `EventPath` |
| `MCEvents` | the requests and events for TLC | `EventProperties` |
| `MemoryPubSub` | the in-memory pubsub, one topic | |
| `HealthCheck` | HealthzCheck, its goroutines and its channel | |
| `WPubSub` | the other in-memory pubsub, one topic | |
| `MCPackages` | one of the pubsubs next to the health check, for TLC | `MemoryPubSub`, `WPubSub`, `HealthCheck` |
| `TellerProofs` | `Inv` and what follows from it | `TellerInvariant`, TLAPS |
| `TriggerProofs` | schedules and messages | `TellerProofs` |
| `ClaimProofs` | exclusive claims, releases, the limit on deliveries | `TellerProofs` |
| `ValidationProofs` | what the validators accept; lemmas only | `TellerMessages`, TLAPS |
| `DeliveryProofs` | truthful rows, valid replies | `TellerProofs`, `StatusReplies`, `ValidationProofs` |
| `LifecycleProofs` | the refinement of `NotificationLifecycle` | `DeliveryProofs`, `TriggerProofs` |
| `EventProofs` | the path of a call | `EventProperties`, `ValidationProofs` |
| `PackageProofs` | the two in-memory pubsubs, the health check | `MemoryPubSub`, `WPubSub`, `HealthCheck`, TLAPS |

### State

* `row[n]` is the row of notification n: `status` (or "absent"), `worker`
  (`processing_worker_id`), `started` (`processing_started_at` is set),
  `attempts`, `sentAt` (`sent_at` is set) and `results`, a function from
  channels, because UpdateChannelResult keeps one entry per channel. The texts
  and the timestamps themselves are left out. `claims` and `sends` are history
  variables: how often a row was claimed, what the providers delivered.
* `request`, `unpublished`, `failing`, `accepted`, `expired` follow each call of
  the server. SendToUser is the case of a batch of one.
* `message`, `deliveries`, `inbox` are the stream, the consumer's delivery count
  and what each worker fetched and has not answered. A message is identified
  with its notification: it is published at most once.
* `phase`, `job` follow a worker's loop, `step`, `outcome`, `copy` its
  goroutines (`copy` is the row UpdateChannelResult read), `final` what
  determineFinalStatus returned, `stopping` the cancelled contexts, `due` the
  notifications whose `schedule_at` has passed.
* In `EventPath`, `stage` says where each call stands, `event` and `call` hold
  the ecommerce request and the teller request it consists of, `answer` and
  `listed` what its client was told, and `content` the columns of a row that the
  worker side leaves out: title, body, ref_id, schedule_at and channels. A
  string is its number of characters, all that a validator or a column looks at.

### Actions

One action per step that another process can observe. A statement is one
action; the code between two statements belongs to the one before it or after
it. UpdateChannelResult is two actions (`ReadRow`, `SaveRow`); the provider call
is one (`Send`). Each statement has a variant that fails, and where the code
reacts differently to a failure, that variant leaves open whether the statement
was committed (`SaveRowsFails`, `ClaimFails`, `ServerPublishFails`). A failure
costs one of `MaxFaults` faults, except when the context of the statement is
already cancelled: then it fails without any (`StatementFails`, `CallFails`).
determineFinalStatus reads with `context.Background()` and so does not depend on
the worker's context. A process that restarts takes a new identity (host name
plus random characters), so it is another member of `Workers`.

Channels in `Flaky` have a provider that may return an error. The providers
shipped here (`email_provider.go`, `push_provider.go`) are placeholders that
always succeed; sendToChannel handles the error their interface allows, and so
does the model.

A validator is an operator that lists the rules of its message in their order:
`Errors` is the set of the fields whose rule is broken, the first one only
(Validate) or all of them (ValidateAll). What a message may hold at all is a set of
records (`SendToUserRequest`, `EcommerceRequest`), translated from the generated
structs. The lengths of the texts that the ecommerce service composes are computed
from those of the caller's data (`BodyText`, `RefPrefix`, `getDestinations`); the
number of items of a purchase is printed in at most `MaxDigits` digits, which only
the sum of five or more of the largest 32-bit quantities could exceed.

`EventPath` wraps the server's actions in the path of a call. It begins with the
decoding of the body and the ecommerce validator, goes through the teller's
(`RefuseCall`), the panic on a request without a notification, which the recovery
middleware turns into an error (`RecoverPanic`), and ends with an answer that the
ecommerce service rewrites to a success flag (`Told`). A call whose context is
done (`ContextDone`) is given up by its caller at any moment after that
(`GiveUp`); if the teller was serving it, it is "abandoned": the handler goes on,
sees its own context cancelled sooner or later (`CallerGone`), and nobody hears its
answer. Where `EventPath` ends, `Teller` begins: it starts from rows and messages
as these calls leave them, and the workers play no part here.

In `MemoryPubSub` every caller is a goroutine that makes one call. `op` says
where it stands, and who holds the lock follows from that: `RLock` and `Lock`
are the guards of the actions that acquire it, and each call is split into the
steps it makes under the lock, so that a lock released too early would show.
What Publish does under the lock is the go statement for each handler
(`StartHandler`); the goroutine calls its handler in a step of its own, without the
lock, at any time after it (`CallHandler`), also after Publish or Close returned.
So `NoStartAfterClose` says that after Close returned no goroutine is started any
more, not that no handler is called. unsubscribe takes the lock and removes
nothing, as its comment at `memory_pubsub.go:87` says. In `WPubSub` a Publish
holds the lock for one read, which is one action; Subscribe and Close are two
actions each, so that a lock that does not exclude would show. In `HealthCheck`, `errsCH` is the set of sources whose
error the channel holds (a source sends at most one), and `ping` says where each
goroutine stands; a check of no or one source is answered without goroutines.

`Prompt` makes the five minutes an assumption. With `Prompt = FALSE` any claim
may be five minutes old, so a live worker may lose its row at any step. With
`Prompt = TRUE` a worker that is still at work has not used up its five minutes.

## What is checked

All bounds are constants of the configurations. `CHECK_DEADLOCK` is off
everywhere: a service without work waits for it.

| Run | Instance | Shows |
|---|---|---|
| `core` | 1 notification to 2 channels, 2 workers, 1 fault, 2 attempts, 3 deliveries, the e-mail provider may fail, `Prompt` FALSE, 2.6 M states | `ClaimsCounted`, `ProcessingIsOwned`, `DeliveriesBounded`, `SentMeansDelivered`, `UnclaimedKeepsMessage`, `NeverReopened`, `PaidInv`, refinement of `NotificationLifecycle` |
| `batch` | 2 notifications in one bulk call, one scheduled, batches of up to 2, 1 fault, 1.4 M states | `NotBeforeSchedule`, `UnclaimedKeepsMessage` across a batch, `Inv`, `TriggerInv` |
| `liveness` | 2 notifications, one to two addresses that share the unreliable channel, 2 workers, batches of 2, no fault, 166 k states | `AcceptedSettles`, `RecordedSuccessIsSent`, `ReplyIsValid`, `DeliveryInv` |
| `recovery` | 3 workers, 2 faults, failing provider, `Prompt` TRUE, 208 k states | `ExclusiveClaim`, `StuckIsReset`, `Inv`, `HeldInv` |
| `packages` | 3 goroutines on one topic of either pubsub, checks of 0 to 3 sources, 395 k states | `RegistryOK`, `MessageReachesSubscribers`, `NoStartAfterClose`, `MemoryInv`; `NoSubscriptionLost`, `EveryHandlerRuns`, `WPubSubInv`; `AnswerIsRight`, `SendNeverBlocks`, `AlwaysAnswers`, `HealthInv` |
| `events` | one call out of 19 events, 8 SendToUser requests or a garbled body, and one out of 9 bulk, status and broadcast requests or a garbled body, 3 notifications, 2 faults, 124 k states | `SuccessIsStored`, `SkippedIsMarked`, `RefusedLeavesNothing`, `StoredAsAsked`, `EventsFit`, `EveryCallIsAnswered`, `PathTypeOK`, `PathInv` |

The bounds are small but reach what they are meant to: two workers are enough
for every pair of claimant, slow claimant and cleaner; two attempts reach the
limit of ResetStuckNotifications; more deliveries than attempts let a message
arrive after its row was settled; one fault of any kind at any point covers
each committed-but-failed statement, and two cover a failure in the recovery
from another. Three workers with two faults leave one worker to recover the rows
of the other two. `core` and `batch` use the symmetry of the workers, which is sound
there: the two temporal properties of `core` are action and refinement properties without
fairness, and no constant distinguishes workers.

In `events` the requests are chosen at both sides of each limit: the longest text,
order id and address that fit and the shortest that do not, amounts that are
zero, negative and NaN, every value of the enumerations and one outside, present
and absent notifications and destinations, schedules before and after now. Two
calls are enough, because calls share no row; the second one is a bulk call of
up to two requests so that one may fail after or beside the other. The destinations
of a row are those of its request; the constants of `NotificationTable` about
destinations, attempts and channels, which only workers use, play no part. Two faults
reach a publish whose status update fails too, and a deadline next to a crash.

In `packages` three goroutines are a publisher, a subscriber and a closer, the
three whose order matters; three sources let two pings fail while a third is
still running. The modules share no state; one run checks them together, and
`pubsub` says which of the two implementations the process was built with.

**Fairness** (`FairSpec`, for the liveness runs): calls and worker loops that can
go on do (WF per call and per worker); the broker redelivers what is not
answered; the cleanup, a 30 second ticker in every worker, eventually resets each
row that it can; schedules come due. No fault is ever obliged to happen, and a
stopped process is not obliged to come back. `AlwaysAnswers` assumes that the
health check goes on (WF of its next-state relation), that is, that every ping
returns. In `EventPath` (`FairSpec`) each call goes on as long as some step of it
can be taken (WF of `CallStep` per call): a goroutine of either service, or the
client library noticing a deadline or a broken connection. No client has to make
a call, and no fault has to happen.

### Where the documentation promises more than the code does

Each is a run in which TLC finds the property violated:

| Run | Property | Promise | What happens |
|---|---|---|---|
| `v_result` | `ResultIsKept` | `docs/ARCHITECTURE.md:21` "Per-channel status tracking" | two goroutines read the row before either saves it; the second save erases the first result |
| `v_final` | `SentIsFinal` | `docs/ARCHITECTURE.md:369` "sent --> [*]: Final State" | a publish that was stored but returned an error: the notification is sent, then UpdateStatus overwrites it with failed |
| `v_graceful` | `GracefulShutdown` | `apps/teller/cmd/worker/main.go:93` "Cancel context to trigger graceful shutdown" | main does not wait for Start; the process ends with a claim in hand |
| `v_reclaim` | `StuckIsReclaimed` | `docs/ARCHITECTURE.md:665` "Stuck notifications can be reclaimed" | the reset row has no message any more: its redelivery was acknowledged while the row was in processing |
| `v_schedule` | `ScheduledIsSent` | `docs/ARCHITECTURE.md:19` "Scheduled notifications" | the message of a notification that is not due is acknowledged and nothing looks at the row again |
| `v_retry` | `FailedIsRetried` | `docs/ARCHITECTURE.md:366` "failed --> processing: Retry (attempt < max)" | a delivery that failed settles the row as failed at once and its message is acknowledged; the reset only selects rows in processing |

These are also the reason why some properties that hold are stated as narrowly
as they are: `StuckIsReset` speaks of the row leaving processing, not of another
attempt, and of rows with an attempt left, since a row whose last attempt dies with
its worker is not selected by the reset and stays in processing;
`UnclaimedKeepsMessage` excludes scheduled notifications;
`RecordedSuccessIsSent` holds without faults, since determineFinalStatus takes a
read that fails for a notification that failed;
`NotificationLifecycle` lets a settled outcome be revised;
`MessageReachesSubscribers` speaks of subscriptions made before the publish;
`AcceptedSettles` is checked without faults, since a broker that gives up after
`MaxDeliver` immediate redeliveries, or a crash after the claim, leaves a row
that nothing triggers again; `SkippedIsMarked` allows an unmarked row if the
context of the call was done or two things failed, since the UpdateStatus after a
failed publish uses the same context and its error is discarded: such a row, like
one whose server died before it published, stays pending and nothing looks for it;
`SuccessIsStored` has no converse, since a caller that
is told of a failure may have a notification that is stored and delivered all the
same; `ReplyIsValid` speaks of provider errors of up to 1000 characters, because
the worker stores an error whole and nothing validates a reply; `EventsFit` states
the lengths at which an event is accepted by one API and refused by the other (an
order id of more than 30 characters, 31 in a payment reminder, so that no UUID
fits), and no more: an amount that is not a number passes both validators, because the
rule `gt: 0` is generated as a refusal of `<= 0`.

## What is proved

Every invariant, action property and refinement that a passing run checks is also a
theorem, for every value of the constants that satisfies their named assumptions:

* `DeploymentAssumption`, `TableAssumption`, `NATSAssumption`, `ServerAssumption`,
  `WorkerAssumption`: finite sets where the code has finite sets, a non-empty list
  of destinations as the request validator demands, limits at least one, the calls'
  notifications disjoint because their ids are fresh;
* `StatusAssumption`: the table's channels are those of the API;
* `TellerMessagesAssumption`, `EcommerceMessagesAssumption`: a nil pointer is no
  message;
* `PathAssumption`: a call makes well-typed requests, one notification for each;
* `HealthAssumption`: finitely many data sources.

| Module | Theorem | Statement |
|---|---|---|
| `TellerProofs` | `InvHolds` | `Spec => []Inv` |
| | `TypeCorrect` | `Spec => []TypeOK` |
| | `AttemptsBounded` | `Spec => []ClaimsCounted` |
| | `StuckRowsCanBeFound` | `Spec => []ProcessingIsOwned` |
| | `SettledStays` | `Spec => NeverReopened` |
| `DeliveryProofs` | `DeliveryInvHolds` | `Spec => []DeliveryInv` |
| | `SentIsTruthful` | `Spec => []SentMeansDelivered` |
| | `RepliesAreValid` | `Spec => []ReplyIsValid` |
| `TriggerProofs` | `TriggerInvHolds` | `Spec => []TriggerInv` |
| | `ScheduleRespected` | `Spec => []NotBeforeSchedule` |
| | `UnclaimedNotForgotten` | `Spec => []UnclaimedKeepsMessage` |
| `ClaimProofs` | `PaidInvHolds` | `Spec => []PaidInv` |
| | `DeliveriesLimited` | `Spec => []DeliveriesBounded` |
| | `HeldInvHolds` | `Spec => []HeldInv` |
| | `ClaimsExclude` | `Spec => [](Prompt => ExclusiveClaim)` |
| | `SuccessSurvivesRelease` | if `Prompt` and `MaxFaults = 0`: `Spec => RecordedSuccessIsSent` |
| `LifecycleProofs` | `ServiceImplementsLifecycle` | `Spec => ImplementsLifecycle` |
| `EventProofs` | `PathInvHolds` | `Spec => []PathInv` |
| | `PathTypeCorrect` | `Spec => []PathTypeOK` |
| | `SuccessMeansStored` | `Spec => []SuccessIsStored` |
| | `SkippedNotSilent` | `Spec => []SkippedIsMarked` |
| | `RefusalIsClean` | `Spec => []RefusedLeavesNothing` |
| | `StoredContentRight` | `Spec => []StoredAsAsked` |
| | `LimitsAreTheseOnly` | `Spec => []EventsFit` |
| `PackageProofs` | `MemoryInvHolds` | `MemorySpec => []MemoryInv` |
| | `CloseEmptiesRegistry` | `MemorySpec => []RegistryOK` |
| | `PublishReachesAll` | `MemorySpec => []MessageReachesSubscribers` |
| | `OnlyTheRestAfterClose` | `MemorySpec => NoStartAfterClose` |
| | `WPubSubInvHolds` | `WPubSubSpec => []WPubSubInv` |
| | `SubscriptionsKept` | `WPubSubSpec => []NoSubscriptionLost` |
| | `HandlersRun` | `WPubSubSpec => []EveryHandlerRuns` |
| | `HealthInvHolds` | `HealthSpec => []HealthInv` |
| | `AnswerTellsErrors` | `HealthSpec => []AnswerIsRight` |
| | `NoSendWaits` | `HealthSpec => []SendNeverBlocks` |

`ValidationProofs` holds lemmas only: for each message a validator accepts it if and
only if every rule holds, so Validate and ValidateAll accept the same messages.

**`Inv`, the invariant of the service.** None of the properties is inductive alone.
`ClaimsCounted` would be broken by a save of an old copy of the row, if that copy
could make the row pending again; it cannot, because WithResult always chooses
sent or failed, which needs that a goroutine about to save holds an answer
(`HandlerInv`). It would be broken by inserting a row that exists, which needs
that a new call's rows are absent and were never claimed (`CallInv`). A write to
an absent row, by a worker or by UpdateStatus, would create one with a status;
that rows of a publishing call and of a working handler exist is part of the
same two. The bound on deliveries in `TypeOK` needs that a message waits only
while a delivery is left (`BrokerInv`). `Inv` is their conjunction. `TellerProofs`
states what each statement does to a row (`SettlingStep`, `ClaimingStep`,
`ResettingStep`), then one lemma per action that it preserves `Inv`, then the
theorems. `SettledStays` follows from `Inv` with the same lemmas. The other
invariants of the service are inductive relative to `Inv`.

**`DeliveryInv`: what the table tells is true.** Copies of rows, answers of providers
and pending decisions are *truthful*: what they call sent was delivered. This is
kept because deliveries are only ever added, so a copy does not become false by
getting old (`QuietStep`, `SendDelivery`).

**`TriggerInv`: a row and its message.** That no provider is called early needs that
a handler past its schedule check has a notification that is due, and that a row
still unclaimed when its message is acknowledged belongs to a scheduled
notification. Both are statements about what a handler remembers (`JobInv`)
against a row that others change meanwhile; they are kept because a row, once
stored, is never absent again, and once claimed, never unclaimed (`claims` only grows).

**`PaidInv`: deliveries are paid by claims.** `DeliveriesBounded` says nothing of a
goroutine that is about to send. What is kept is that the deliveries made to a
destination *plus* the goroutines about to make one do not exceed the claims of the
row: a claim adds one of each, a send turns one into the other, and a worker that
ends only forgets some. With `ClaimsCounted` the deliveries are at most
`MaxAttempts`, whether or not workers are prompt.

**`HeldInv`: a claim excludes.** Under `Prompt` the row names the worker that works on
it, and so does each copy a goroutine will write back, since UpdateChannelResult
writes the worker column too: without the last part, a worker whose claim was
reset could name itself again. Two workers cannot both be named.

**`DecisionInv`: a decision is up to date.** What determineFinalStatus returned is still
what the row says when it is released: its own goroutines are done, and nobody else
writes the row (`HeldInv`). `RowWritten` says which steps change results or give up
a row; `RecordedSuccessIsSent` follows.

**The refinement.** `LifecycleProofs` first says which change of the statuses, claims and
deliveries is which step of `NotificationLifecycle` (`IsCreate`, `IsAttempt`,
`IsSettle`, `IsRecover`, `IsDeliver`, or `NothingChanges`), then finds that change
in each action. A save of an old row is a settlement that needs `DeliveryInv` (it
may say sent only of what was delivered), a delivery needs `TriggerInv` (the row was
claimed), and UpdateStatus and the reset need `Inv`.

**`PathInv`: a call.** It is one statement per call, in four parts: how far the server
got with its notifications and what the stream has of them (`ProgressInv`), which
requests the call consists of (`CallInv`), where it stands and what its caller was
told (`StageInv`), and what its rows contain (`ContentInv`). Almost every step is
about one call and the notifications of two calls differ, so the lemmas have two
halves: the step's own call, and `CallUntouched` for all others. `SuccessIsStored`
needs that an id becomes accepted only by a publish that stored its message and
that only a publish that failed marks its row. `RefusedLeavesNothing` and
`StoredAsAsked` need that a handler runs only for a call whose every request the
validator accepted (`Admitted`), `EventsFit` the arithmetic of the texts
(`EventFits`, `BodyLimit`). `SkippedIsMarked` needs a second invariant, `FailureInv`,
relative to `PathInv`: a publish that failed cost a fault or came after the end of
the call's context, and each id the loop has passed is accepted, marked, or the
victim of a second such failure.

**`MemoryInv` and `WPubSubInv`: locks.** A Publish of the in-memory pubsub that looked the
topic up holds the read lock until a goroutine is started for every handler, so
nobody appends or closes meanwhile, and what it has not started yet is still owed to it
(`PublishProgress`). In WPubSub one goroutine at a time holds a list it will write
back (`OneHolder`), and that list is the map's (`ListUpToDate`).

**`HealthInv`: no error lost.** The errors that occurred are those in the channel,
those collected and those a goroutine still holds (`ErrorsKept`). When the loop
begins no goroutine is left, and the receives left to it are at least the errors in
the channel, so a loop that never blocks still misses none. A source sends
at most once and only before it is done, so the buffer, one place per source,
always has room (`SendNeverBlocks`).

**Only model-checked.** Liveness under fairness (`AcceptedSettles`, `StuckIsReset`,
`EveryCallIsAnswered`, `AlwaysAnswers`): out of reach of the provers, like ENABLED.
No module here defines a RECURSIVE operator, and nothing is proved by induction
over data: `ItemCount`, a fold, is left opaque, and `Digits` bounds what it prints.
The `v_` runs refute what they check, so there is nothing to prove.

## What is not modelled

* PingCheck, which always answers success.
* JetStream's MaxAge of seven days and MaxAckPending, the order inside a batch
  (any order is allowed), Fetch errors (the loop tries again), and a provider
  that never returns.
* Failures of ResetStuckNotifications: they change nothing and the next tick
  tries again.
* What a handler of the in-memory pubsub does with its context, which is its
  publisher's and may be cancelled before the handler starts.
* Validators without a rule: those of WillPushReply, BulkSendToUserReply and the
  ecommerce responses. They accept everything, and nothing calls them.
* The accessors, descriptors and clients' stubs of the generated code beyond the
  step of a call they perform, and the configuration messages.
* The merge of query parameters into an HTTP body (BindQuery) and the metadata of
  an event: the former yields another request of the same kind, the latter is
  read by nobody.
* How a provider formats or transmits a message: the providers of the repository
  are placeholders.
* Wiring, tracing, logging, path selectors, configuration and the utility packages
  (wgorm, wemail, wid, hash): they hold no state of the service.

## Plan

1. *Done:* the path of a notification through server, broker, worker and table;
   its safety, liveness and refinement runs; the inductive invariants; what
   GetNotificationStatus answers about it.
2. *Done:* the shared packages (`MemoryPubSub`, `WPubSub`, `HealthCheck`).
3. *Done:* the ecommerce service, the validators of both APIs and the path of a
   call through both services.
4. *Done:* the proofs about the teller, with the refinement of
   `NotificationLifecycle`.
5. *Done:* the proofs about the shared packages, for any number of goroutines and
   sources.
6. *Done:* the proofs about the validators and about `EventPath`, for any set of
   requests.
7. What is left: that the store `EventPath` leaves behind is one `Teller` may start
   from, that is, that its steps, with calls, stages and contents hidden, are steps
   of the server and broker of `Teller`, so that a success told to an ecommerce
   client and the fate of the notification after it are one argument; and the safety
   halves of the liveness properties (what `AcceptedSettles` needs of a state in
   which no step of a worker is left).
