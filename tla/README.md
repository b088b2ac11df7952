# A TLA+ model of TeamBoard

TeamBoard is a collaboration platform built of Go services (auth, project,
task, document, notification, plugin, board registry) that share nothing but a
RabbitMQ topic exchange and a few internal HTTP calls.  Each service owns a
PostgreSQL database; every business transaction that others should know of also
inserts a row into that database's `outbox` table, and a worker publishes the
rows.  This directory models the parts whose correctness depends on the order in
which several actors take their steps, checks them with TLC and proves the
central results with TLAPS.

* [Inventory](#inventory): the components, their state and what is hard in them
* [Plan](#plan): modules, composition, what is open
* [Modules](#modules): how each model corresponds to the code
* [Runs](#runs): what is checked, with which bounds
* [Proofs](#proofs): what holds for every value of the constants
* [Findings](#findings): where the code and its documentation disagree
* [Limits](#limits): what is not modelled, what stays with TLC

Paths without a directory of their own are under `services/domain`; `project.md`
and the like are under `docs/services`.

## Inventory

| Component (source) | State | Operations | What is hard | What makes it correct |
|---|---|---|---|---|
| Transactional outbox (`shared/go/outbox`) | `outbox` rows: id, `occurred_at`, `published_at` | `InsertEvent` in a business transaction; `Worker.processBatch` on a ticker | publishes *inside* a database transaction; replicas poll one table; any step can fail | a committed event is published, an uncommitted one never; nothing recorded as published is lost |
| Event bus (`shared/go/eventbus`) | exchange, one durable queue per service, unacked message per consumer, `processed_events` | `Publish` with confirms, `Subscribe`/`handle`, `IdempotentHandler`, `SetupTopology` | at-least-once delivery, requeue, redelivery, expiry after 24 h | every event is handled, duplicates are absorbed as far as the code can |
| Project: members, permissions (`project`) | `project_members`, `known_users`; Redis `perms:*` with a 60 s TTL | members CRUD, last-owner check, `GetPermissions` through the cache, `user.deleted` consumer | checks outside the transaction they guard; cache filled from a read that is already stale | a project keeps an owner; a stale permission lives at most one TTL |
| Project: invitations | `invitations`, the pool of connections | invite, accept, decline | the status is written outside the transaction, on a second connection | status and outcome agree; a transaction finds its connection |
| Project: boards, columns (`service_boards`, `boardtypeclient`), board registry (`boardregistry`) | `board_types`; `boards`, `board_columns`; in-process cache of board types | type register, update, delete; board and column CRUD, type resolution with cache and `boardtype.*` invalidation | a patch writes the whole row it read; writes and events not in one transaction; a fetch in flight while the type changes | no change lost that was made alone; no stale type after its invalidation |
| Task: tasks (`task`) | `tasks` (position strings), `known_boards`, `known_columns` | task CRUD, move, fractional ranks, consumers of project events | read-compute-write of positions; handlers of several statements; permissions from a cache | order as the clients put it; events tell the rows; nothing left of who or what is gone |
| Task: comments, attachments | `comments`, mentions, `comment_history`, `task_attachments` | comment CRUD, attach, remove, `document.deleted` | what an edit archives was read before its transaction; a document looked up before it is attached | no body lost, no attachment of a document whose deletion was handled |
| Document (`document`) | `documents`, `document_versions`, S3 objects | two-phase upload (initiate, PUT, confirm), versions, delete, cleanup worker | client, confirm and cleanup race on one upload; object store and database are not atomic | an active document has its object; abandoned uploads are collected |
| Plugin: webhooks (`plugin`) | `webhooks`, `deliveries`, circuit breakers | enqueue per event, five delivery workers, retry with backoff, dead letters, breaker | workers pick without a lock; status updates without a guard; event enqueued twice | each delivery ends delivered or dead; at most eight attempts |
| Notification (`notification`) | `notifications`, WebSocket hub per instance, backplane in Redis | dispatch of every event to rows and frames, subscribe/unsubscribe, mark read | an event handled again; slow consumers, a connection that closes while it is sent to, a subscription checked before a membership change | who is concerned has his row, is pushed it once, and an open connection misses nothing |
| Listings (document, notification, plugin, task, MCP server) | cursors | pages of rows that come and go | equal `created_at`, a cursor that is not decoded | a row that stays is listed once |
| Auth: sessions (`auth`) | password, refresh tokens, reset tokens, OAuth clients and codes | login, refresh with rotation, logout, reset, OAuth authorization and code exchange, limit on logins | hardly a transaction: read, revoke and issue are statements of their own; time stamps of several clocks | one token per session; an old password is out after a reset; one-time tokens work once |
| Token verification (`auth/keys`, `shared/go/authmiddleware`, `authclient`) | `signing_keys`, cached key sets, personal access tokens, cached introspections | `EnsureActiveKey`, `Key`, `Introspect` | replicas that start together; answers that arrive in the other order | a valid token's key is found; an ended token is refused after one TTL |
| Permission clients (`projectclient`) and the MCP server's `requireAuth` | a cache per instance, behind the project service's own | ask, cache, evict | a cache filled from a cache; the eviction reaches only one | access ends when both TTLs have passed |
| Service processes (`cmd/server/main.go`) | what is open, goroutines, the HTTP server | start, signal, drain, close | a signal at any moment; deferred calls against goroutines | what is used is closed last |
| Gateway, `httputil`, `observability`, `servicetoken`, API handlers, MCP tools, frontend | none that outlives a request | routing, DTOs, logging, protocol adaptation | nothing a model checker would add to | - |

Interactions: services call `project` for permissions and `auth` for users over
HTTP; everything else travels as events.  `project` produces `project.*`,
`board.*`, `column.*`; `task`, `document`, `notification` and `plugin` keep
projections of them.

## Plan

In order of importance:

1. `EventDelivery` (abstract) and `OutboxBus` (detailed, refines it): the path
   every other component relies on. Proofs in `EventProofs`. *Done.*
2. `ProjectMembers`: membership, last owner, permission cache. Proofs in
   `ProjectMembersProofs`. *Done.*
   `Invitations` beside it, with `InvitationsProofs`. *Done.*
3. `WebhookDelivery`: workers, retry, breaker, deletion. Proofs in
   `WebhookDeliveryProofs`. *Done.*
4. `DocumentUpload` with the cleanup worker and the object store. Proofs in
   `DocumentProofs`. *Done.*
5. `FractionalRank` (pure functions), `ProjectBoards`, and `TaskBoard`, which
   composes both with the projections of the task service, with the proofs of all
   three in `TaskBoardProofs`; `TaskDiscussion`, with `TaskDiscussionProofs`. *Done.*
6. `EventDispatch` (pure) and `Notifications`, with proofs in `EventProofs`;
   `Listings`, with proofs in `DocumentProofs`. *Done.*
7. `TokenVerification` and `AuthSessions`, `LoginLimit`, `McpGate`,
   `PermissionChain`, `ServiceProcess`, and their composition `MCServices`. Proofs
   in `ServicesProofs`. *Done.*
8. Open. The composition of `OutboxBus` with the projections: `TaskBoard` has a
   queue of its own that redelivers but keeps order.

The abstract specifications are `EventDelivery`, which `OutboxBus` refines, and,
in `TaskBoard`, the list `wanted` of tasks as the clients put them, which the
positions are checked against.

## Modules

`MC<Module>` extends `<Module>` with the symmetry set and the values its
configurations use; `<Module>Proofs` extends it with the theorems. The MC modules
of `TaskBoard`, `Notifications` and the services define *scenarios*: a behaviour
chooses one and stays in it, so that each run covers several groups of
operations, each with its own bounds, without multiplying them. In every module an
error, a lost answer or the end of a process is a `Fault`, bounded by a constant,
that may fall between any two steps; a definition marked `mutant:` is a plausible
wrong version of the one below it and takes part in no specification.

### `EventDelivery` and `OutboxBus`

`EventDelivery` is the promise services make each other: events are `recorded`
and take `effects`, at least once, never without having been recorded.

`OutboxBus` is how the code keeps it: one producing service with its `outbox`
table and a worker per replica, one durable queue, one consuming service with a
consumer per replica.

| In the model | In the code |
|---|---|
| `txState`, `txRows`, `BeginTx`, `InsertEvent`, `CommitTx`, `RollbackTx` | `WithTransaction` with `outbox.InsertEvent`; `occurred_at` is `NOW()`, the start of the transaction |
| `SelectBatch`, `Publish`, `MarkPublished`, `CommitBatch`, `BatchFails`, `PublishFails` | `Worker.processBatch`: select `FOR UPDATE SKIP LOCKED`, publish and mark row by row, commit; any error rolls back the marks and not the messages |
| `connected`, `LoseProducer`, `LoseConsumer`, `Restart...` | one `amqp.Dial` per process, no reconnection: only a restart connects again |
| `bound`, `SetupTopology` | the queue exists from the consumer's first start on; before it messages are dropped |
| `Deliver`, `HasProcessed`, `Inner`, `MarkProcessed`, `Ack`, `Requeue` | `consumer.handle` around `IdempotentHandler`; `processed_events` is written after the handler's effect |
| `Expire` | `x-message-ttl` of the queue |

The database and the broker (`InQueue`, `Unacked`, the loss of a connection) are
external and modelled by what the code relies on.

### `ProjectMembers`

The members of one project. A request runs through `pc`: `CacheGet`,
`GetMemberRole`, `CacheSet` are `GetPermissions`; `CheckKnown`, `CheckSelf`,
`GetMember`, `CountOwners` are the checks of `AddMember`, `UpdateMemberRole` and
`RemoveMember` in the code's order; `Commit` is their transaction and
`CacheDelete` the eviction after it; `SoftDelete` and `InsertProjectDeleted` are
`DeleteProject`, whose two writes share no transaction. `UserRegistered`,
`RemoveAllMemberships`, `MarkKnownUserDeleted` and `UserDeletedAgain` are the
consumer of the auth service's events. A `PermissionSet` is represented by its
role, from which the code computes it; a failed read gives the denial the code
takes it for.

### `WebhookDelivery`

The webhooks and deliveries of one project. `StartEvent`, `EnqueueOne`,
`EnqueueFails`, `MarkEventProcessed`, `EventAgain` are `EnqueueForEvent` under
the idempotent handler; `Pick`, `LoadWebhook`, `Admit`, `Post`, `Apply`,
`DisableGone`, `MarkDead`, `Reject` are one pass of `DeliverNext`, statement by
statement, and `RecordFails` and `Restart` what may cut it short. A worker keeps
what it read (`job`, `count`, `url`): the row may change under it. The circuit
breaker is gobreaker's: `breaker`, `failures`, its generation (`current`), its
`OpenTimeout` and `ClosedInterval`. Time is only an order: `BecomeDue` lets
`next_attempt_at` come, and `before` keeps which due row is first.

### `DocumentUpload`

One document. `CheckProject` and `CreateDocument` are `InitiateUpload`;
`ReadDocument` begins `InitiateNewVersion` (`ReadMax`, `InsertVersion`),
`ConfirmUpload` (`ReadVersion`, `HeadObject`, `SetCurrentVersion`),
`RestoreVersion` (`ReadVersion`, `SetCurrentVersion`) and `DeleteDocument`. A
request keeps the status it read (`seen`), with which `ConfirmUpload` later
chooses its statement. `Put` is the client's upload with a URL it holds.
`ListPendingVersions` to `HardDelete` are one `runOnce` of the cleanup worker,
one per replica; each list is kept in `clean` while rows change. The project's
deletion is `SoftDeleteByProject` and `MarkKnownProjectDeleted`. Time is three
facts: `old` (a version is past the grace period of two hours and its URL, good
for fifteen minutes, has expired), `due` (deleted thirty days ago) and their
order.

### `Invitations`

The invitations of one project. `MayInvite`, `CheckMember`, `CheckPending`,
`Begin`, `CreateInvitation` and `Commit` are `CreateInvitation` of the service;
`GetInvitationByToken`, `Begin`, `UpdateInvitationStatus` and `Commit` are
`AcceptInvitation` and `DeclineInvitation`. The repository that `WithTransaction`
hands out runs these statements on the pool: what they write to `rows` is
committed at once and needs a second connection, while `held` counts those that
transactions hold. `Commit` is the rest of the transaction, which can still be
rolled back. `answers`, `sent`, `refused` and `contested` are history.

### `FractionalRank`

`Between` and the functions it calls, over sequences of indices into an alphabet
of `Base` characters. `Midpoint` is written over positions that are extended
without end, by 0 below and by `Base` above, which is what the code's loop does.

### `ProjectBoards` and `TaskBoard`

`ProjectBoards`: one board type in the registry, its copies in the project
service's instances, and the requests that make a board after it. A request on
the type (`edit`) reads with `GetBoardType` and writes the whole row in its
transaction. A request on the board (`order`) resolves the type (`GetType`,
`FetchType`, `StoreType`), then writes; `CreateBoard` and `CreateColumn` write
their events in the transaction, `UpdateBoard` and `DeleteBoard` afterwards
(`InsertOutboxEvent`), where they may be lost. `HandleBoardTypeChanged` runs in one
instance, because the queue is shared.

`TaskBoard` extends it with the task service. `inbox` is its queue, whose first
message is handled statement by statement and again from the first one when a
statement fails: `UpsertKnownBoard`, `UpsertInitialColumn`, `MarkBoardDeleted`,
`SoftDeleteTasks`, `HandleMemberRemoved`, `HandleUserDeleted`,
`HandleColumnUpserted`. A request reads in the code's order (the task, the
column, the neighbours or the last position, the permission of an assignee from
`projectclient`'s cache) and commits in one step. `wanted` is the order the
clients asked for, `told` what the outbox events tell, `excused` and `silent` the
tasks for which the code promises no more.

### `TaskDiscussion`

The comments and attachments of one task. `Begin...` is what an operation reads
before its transaction; `CreateComment`, `UpdateComment` (with `ClearMentions`,
whose `DELETE` sees the snapshot its statement began with), `DeleteComment`,
`AddAttachment` and `RemoveAttachment` are the transactions.
`HandleDocumentDeleted` detaches the documents, `HandleUserRegistered` and
`MarkKnownUserDeleted` keep `known_users`.

### `EventDispatch` and `Notifications`

`EventDispatch` is pure: `Written` gives the payload a service writes for a deed
(who did what to whom), and `Dispatch` what the dispatcher makes of that payload:
whom it tells and on which channels.

`Notifications`: an instance handles an event row by row (`TakeEvent`,
`CreateNotification`, `BroadcastToUser`, `BroadcastToChannel`,
`MarkEventProcessed`, `Acknowledge`; `RequeueEvent` and `Crash` cut it short).
`log` is what was published to Redis, each frame with its place in it, by which
the properties tell two frames of one text apart; each instance `Route`s the next frame to the connections it collects under the hub's
lock (`targets`) and `Send`s to one after another without it. A connection is
registered, opened, subscribed and closed by the goroutines that do so in the
code; its channel holds `BufSize` frames and is closed when it is full. A send to
a closed channel is a `Panic`, which ends the process.

### `Listings`

A client reads a listing page by page, each page one statement, while rows
appear, leave and move. Each of the four listings has its own cursor, filter and
limit, as its service has; `ListTasks` is the MCP server's loop around the
tasks' listing.

### `TokenVerification` and `AuthSessions`

`TokenVerification`: the signing keys that replicas create when they start
together, the key set a service fetches (`LookupCached`, `FetchKeys`,
`StoreKeys`, `LookupAgain` are `Key`, which releases its lock during the
request), and the introspection of personal access tokens with its cache.

`AuthSessions` extends it with the requests of one user. Only `Register` has a
transaction, so each statement is an action: `Refresh` reads, then
`RevokeRefreshToken`, `SignAccessToken` and `IssuePair` follow;
`ConfirmPasswordReset` reads, then `UpdatePasswordHash`,
`MarkPasswordResetTokenUsed` and `RevokeAllUserTokens`. `RegisterClient`,
`AuthorizeForm`, `AuthorizeSubmit`, `StoreCode`, `TokenAuthCode` and
`ConsumeCode` are the OAuth endpoints.

### `LoginLimit`, `McpGate`, `PermissionChain`, `ServiceProcess`

Four small modules about what every service relies on, in which time is counted
in ticks. `LoginLimit` is the sliding window of login attempts in Redis, whose
times are taken by the replicas. `McpGate` is the MCP server's cache of accepted
session tokens. `PermissionChain` is a membership as seen through two caches, the
one of the project service (`shared`) and the one of a caller (`copy`), and the
download URL given out on its strength. `ServiceProcess` is `main` of each of the
seven services as a list of steps, with its goroutines and requests.

## Runs

| Run | Question | Properties | Bounds | States |
|---|---|---|---|---|
| `outbox_replicas` | is a published event lost, an uncommitted one sent, or one handled twice without a failure? | `ImplementsEventDelivery`, `NoLoss`, `OnlyCommittedLeave`, `DuplicatesNeedFaults` | 2 events, 2 transactions, 2 workers, 2 consumers, a fault on each side, an expiry; the queue may not exist yet | 1.10 M |
| `outbox_delivery` | do duplicates get through, can an event overtake one that happened before it, and does each arrive? | `DuplicatesAbsorbed`, `CausalOrder`, `DeliveredWhenConnected` | 3 events, 2 transactions, 1 worker, 1 consumer, batch of 2, a fault on each side | 785 k |
| `members_sequential` | does one request at a time keep an owner and a fresh cache? | `RequestsKeepOwner`, `StaleOnlyBeforeEviction`, `CacheConverges` | 2 users, 1 request, 3 changes, 1 fault, 1 account that may be deleted | 397 k |
| `invitations` | do status and outcome agree, and does a transaction find its connection? | `AnswersAgree`, `OnePending`, `ConnectionLeft` | 2 users, 2 invitations, 2 requests, a pool of 3, 1 change, 1 fault | 3.67 M |
| `webhook_workers` | what do two workers on one row do to it? | `DeliveredWasAccepted`, `DeadForAReason` | 1 webhook, 2 URLs, 1 event, 2 rows, 2 workers, 2 attempts, breaker threshold 2, 1 change | 639 k |
| `webhook_one_worker` | does an event reach every webhook, and do deliveries end, once, within their attempts? | `AtMostMaxAttempts`, `ProcessedIsEnqueued`, `FinalStaysFinal`, `EveryDeliveryEnds` | 2 webhooks, 1 URL, 1 event, 2 rows, 1 worker, 2 attempts, threshold 1, 1 fault | 127 k |
| `documents_races` | what do requests, cleanup and the store do to each other? | `CurrentHasObject`, `OneUploader`, `NoOrphans` | 2 requests, 2 cleanup workers, 2 versions, 1 fault | 1.97 M |
| `documents_liveness` | do uploads end and deleted documents go? | `EveryUploadEnds`, `DeletedIsCollected` | 1 request, 2 cleanup workers, 2 versions, 1 fault | 104 k |
| `tasks` | do positions keep the clients' order, do events tell the rows, is anything left of who or what is gone, do board types follow the registry? | `OrderKept`, `EventsTell`, `DeparturesHandled`, `TypesFollow` | alphabet of 4, 3 tasks, 2 columns, 1 user, 2 requests, 2 editors, 2 instances, 2 requests on the board, 5 scenarios | 439 k |
| `discussion` | is a body lost, an attachment left, a removal untold? | `CommentsKept`, `AttachmentsFollow` | 2 comments, 2 attachments, 3 bodies, 2 users, 1 document, 2 requests at once, 4 in all | 953 k |
| `services` | do tokens, codes, passwords, caches and processes end when they should? | `OneTokenPerSession`, `PasswordsGuard`, `UsedOnce`, `RefreshFindsKey`, `AnswersEnd`, `ClosedLast` | below | 880 k |
| `notifications` | does everyone concerned get his row and his push, and a listing each row once? | `StoredForAll`, `PushesArrive`, `SubscribedMembers`, `ListedOnce` | 2 instances, 3 users, 2 events, 2 connections, channels of 2 frames, 6 scenarios; listings of 3 rows, 2 of which change | 1.05 M |

`services` composes the modules from `AuthSessions` to `ServiceProcess`, ten
scenarios of which six are those of the auth service (`MCServices`): 2 replicas, 1
service, 1 personal token, 2 verifications, 3 refresh tokens, 2 reset tokens, 1
code, 1 client with 3 kinds of URI, 2 requests at once of 3 to 5; 3 logins of which
2 are allowed in a window of 3 ticks, with a call of 1 tick and clocks that differ
by 1; 3 bearers and 2 requests at an MCP server whose cache is cleared at 1
entry; 2 questions of the document service about a member who may leave, each TTL
1 tick; and the seven processes with 2 requests each.

Why these bounds are enough to be interesting. Every race in the code is between
two actors on one row, so two workers, consumers, requests or replicas show it;
a third only repeats it. Two events or versions are the least that can be in a
wrong order, three events let a batch of two be followed by another; three tasks
are two neighbours and one between. One fault suffices for every "fails in
between". A threshold of one opens the breaker at the first failure, and two
attempts make the first and the last differ; a channel of two frames is full
after the reply and one push. An alphabet of four has, like that of 62, a middle, a
first and a last character and one that is none of them. The times of
`AttemptsLimited`, `GateCloses` and `AccessEnds` are tight: with any of them less
by one tick TLC finds a violation. The theorems carry the safety results they are
about beyond these bounds.

Composite properties. `EventsTell`, `DeparturesHandled`, `TypesFollow`,
`CommentsKept`, `AttachmentsFollow`, `PushesArrive`, `PasswordsGuard` and
`AnswersEnd` are conjunctions of two or three named parts, each stated on its own
in its module.

Fairness. A ticker that ticks (`Worker.Run`, the cleanup worker, the delivery
workers' poll), an HTTP request or a POST with a timeout that ends, and time that
passes (a TTL, `next_attempt_at`, the breaker's timeout, the grace period) are
weakly fair. Clients, failures, restarts and the administration of webhooks are
not. `DeliveredWhenConnected` assumes that connections are there in the end,
because nothing in the code restores them; `EventDelivery`'s own liveness is
therefore an assumption on the operators of the platform (see Findings).
`RetentionEnds` is fair as time is, and its guard says that thirty days are
longer than any request or cleanup run.

Deadlock is checked for the documents, where time always goes on or a request can
start, and for the invitations, where it is the question. The other models stop
when their bounded requests and faults are used up, and say
`CHECK_DEADLOCK FALSE`.

## Proofs

`tlapm` proves, for every value of the constants that satisfies the assumptions of
the module (`ConstantsAssumption`; `NotificationsAssumption`, `LimitAssumption` and
their like elsewhere):

| Module | Theorem | Rests on |
|---|---|---|
| `EventProofs` | `TypeCorrect`, `PublishedNotLost`, `UncommittedStay` | what each worker has locked, marked and published, for each place in `processBatch` and `handle`: a row marked in an open batch has been confirmed by the broker; a message held or queued is of a committed row |
| `EventProofs` | `Refinement` | `UncommittedStay`: an inner handler's run is a step of `EventDelivery`, everything else a commit or a stutter |
| `EventProofs` | `DuplicatesBounded` | `CountInv`: the effects an event has had, its copies in the queue and the handlers about to run it together exceed the faults by one at most, and by none while its row can still be published (`LockInv`) |
| `EventProofs` | `OneConsumerAbsorbs` | a single consumer, as a hypothesis. `AbsorbInv`: an event not in `processed_events` has had at most one effect for each failure of the consumer, and one more while its record is being written; a handler that outlives its connection has had the failure that pays for it |
| `EventProofs` | `CausesFirst` | a single worker and a single consumer, as hypotheses. `LockInv`: what a worker has locked is unpublished and its own; `ClockInv`: a row's `occurred_at` is before its commit; `CausalInv`: an event that another depends on is in its batch or published, ahead of it in the queue or already handled |
| `EventProofs` | `EverybodyFindsHisRow` | `StoreInv`: whom a job's event concerns is on its list or has had a row, whoever has a row is concerned, and what is processed is complete, through duplicates, requeues and the end of the instance. `DeedTells` is the table of `Dispatch`: what is told of a deed, and to whom |
| `EventProofs` | `EveryPushArrives` | `OnceInv`: a frame for a user is of a row there is or was, and the row a job is about to push has not been pushed (`PushesAreRows`), and no other instance is about to push it. `HubOK`: an instance is no further than the log, and sends its last frame to connections of its own; a connection that follows has been sent, or holds, what is for its user between its registration and that place (`Complete`), and how a frame is added to it at either end |
| `EventProofs` | `OnlyMembersSubscribed` | `SubscribedInv`: the same of a connection whose reader has a positive answer in hand |
| `ProjectMembersProofs` | `TypeCorrect` | - |
| `ProjectMembersProofs` | `OwnerKeptSequentially`, `FreshSequentially` | one request at a time, stated as a hypothesis of the theorem: what a request has counted or read is still true when it commits or caches (an account's deletion may take an owner; `RequestsKeepOwner` says so) |
| `InvitationsProofs` | `ConnectionAlwaysLeft` | `held` is the number of requests inside a transaction, each of which holds one connection |
| `InvitationsProofs` | `AnswersStayInAgreement` | `AnswerInv`: one request at most has an invitation in hand that is not contested; it is pending while that request may still mark it, and unanswered until that request commits |
| `InvitationsProofs` | `OnePendingInvitation` | `InviteInv`: without faults, one request at most is inviting a user who is not contested, and past its look for pending rows there are none |
| `WebhookDeliveryProofs` | `TypeCorrect`, `Accepted` | `BusyOK`, `JobExists`: a worker that is busy has an existing row; an answer is recorded before its row |
| `WebhookDeliveryProofs` | `NothingOfAnEventIsLost` | `EnqueueInv`: a handler that has listed the webhooks has, for each of them, a row or the webhook still to do |
| `WebhookDeliveryProofs` | `GivenUpForAReason` | `ReasonInv`: a worker's count is never ahead of its row's, and one that is about to give a delivery up has seen its webhook inactive |
| `WebhookDeliveryProofs` | `FinalStaysAlone`, `AttemptsBounded` | a single worker and no change of webhooks, as hypotheses: the count the worker read is the row's; the POSTs never outnumber the attempts counted |
| `DocumentProofs` | `TypeCorrect`, `CurrentStored`, `KeyNotShared`, `NothingOrphaned` | `IInv`: once the retention has ended no request, no expiry and no live URL is left (`SettledOK`), objects go only then (`PurgeOK`), what a request found is still there (`FoundOK`), a URL is given out once and with its row (`HolderOK`), and a row goes after its objects (`PurgedOK`) |
| `DocumentProofs` | `EachIsListedOnce` | `ReadingsInScope`, as a hypothesis: no two deliveries have one time, and a board has no more tasks than a page. `ListingInv`: the cursor is that of the row sent last, what was sent is in order, and each row that stayed has been sent or comes after the cursor. `InOrderIs`: a sequence in which `n - 1` rows come before the `n`-th has all of them, in order; `PagesAreGood`: what a page and its cursor say of the rest |
| `TaskDiscussionProofs` | `CommentsAlwaysKept`, `AttachmentsAlwaysFollow` | `Requests`: what an edit, an attachment or a removal has read is still so, unless it is marked stale, and then what it writes about is excused |
| `TaskBoardProofs` | `BetweenIsBetween` | for positions of any length over an alphabet of any size from 4 on: where there is room, `Between` answers with a position strictly between its arguments; the order of strings is total and transitive, and the first place where two differ decides |
| `TaskBoardProofs` | `TypesAreFollowed` | `BoardsInv`: what an editor is about to write is valid, and is what its patch makes of the registry's row unless that changed since it read it (`Edited`); a definition on its way to an instance is the registry's once the events are handled (`FetchedIsCurrent`) |
| `TaskBoardProofs` | `DeparturesAreHandled` | `DepartInv`: whoever is assigned to a task, or is about to be, is a member or his departure is still to be handled; a deleted board is about to be told of, has its event in the queue or is known to be deleted, and then it has no tasks once the event is handled, and no request to create one that is not marked stale |
| `TaskBoardProofs` | `StatesAreTold` | `TellInv`: the status a request has seen is the row's, and that a request has written is what it is about to tell of, unless it is marked stale; two requests between row and event of one task are not both without the mark |
| `TaskBoardProofs` | `OrderIsKept` | `BetweenIsBetween` and, as a hypothesis, `OnlyBefore = FALSE`: clients name both neighbours of the place, or its only one. `OrderInv`: the neighbours a client named are still neighbours when the request reads them (`GapIsThere`), and the position it got is before the task it names and after all that precede that (`PositionFits`), unless it is marked stale; and what the database makes of a column is what `wanted` says |
| `ServicesProofs` | `RefreshAlwaysFindsKey` | `KeyInv`: the keys that tokens were signed with, that replicas sign with and that services look for have been stored; the answer to a service that looks for one holds it |
| `ServicesProofs` | `OneTokenOfASession` | `SessionInv`: what makes the next token is one that is not revoked or a refresh that has revoked one, and a session that is not among the `parallel` ones has at most one of both |
| `ServicesProofs` | `EachIsUsedOnce` | `CodeInv`: a code is of a claim that was registered and allowed, and its one exchange is in progress or done once it is gone; `ResetInv`: one confirmation of a reset token at most, after which it is over or about to be marked. Hypothesis: the clients there are at first have only allowed URIs, as registration admits no others |
| `ServicesProofs` | `PasswordsAreGuarded` | `PasswordInv`: passwords only get newer, and a token of an older one that works was issued late; `LimitInv`: an attempt's own time differs little from when it ended, that of one that was allowed is kept for as long as it counts, and each that is kept is of an attempt that has ended |
| `ServicesProofs` | `NoAnswerForEver` | `PatInv`: an answer about to be kept is of a live token or marked late; `GateInv`: no entry of the MCP server's cache outlives its token by more than a call and the TTL; `ChainInv`: the same along the two caches of a membership and the URL, once the member has left |
| `ServicesProofs` | `EverythingIsClosedLast` | `ProcessInv`: what main has opened is what it stands behind, and requests and goroutines are at work only while it stands there; each of the seven lists of steps is shown to open what its goroutines use first and to close it last (`EachOrdered`) |

`EachAlone` of `ServicesProofs` says that a behaviour of the composition `MCServices`
is, seen by itself, a behaviour of `AuthSessions`, of `LoginLimit`, of `McpGate` and
of `PermissionChain`, so that what is proved of a module holds where it is composed.

Neither `CurrentHasObject` nor `NoOrphans` is inductive. The first fails from a
state in which a request is about to confirm a version whose object is being
collected, the second from one with an upload under way after the list of
objects was made; both are excluded only by the retention period, and that is
what `SettledOK` says.

The hypotheses of the sequential theorems are needed: `MembersLastOwner.cfg`,
`WebhookFinal.cfg` and `WebhookStarved.cfg` show what two requests or workers do.
So is that of `OrderIsKept`: `TaskBoardDrop.cfg` shows what becomes of the order when
the client names only the task to insert before. And so is that of `EachIsListedOnce`
for deliveries and tasks, whose cursors skip rows without it (`MCSmallPages`, under
Findings); the listings of documents and notifications need none.

The theorems about `TaskBoard` are about requests that overlap: each read is followed
by an action of whoever comes in between, and what such an action changes marks the
request `stale`. `Ground`, under them all, says which values rows, requests and events
may have, how far a handler has come (`HandlerOK`) and what a request at each of its
statements has already read (`Placed`). Of the registry, `BoardsAssumption` asks only
that the definitions it starts with are valid, as `Register` admits no others.

With TLC only: every liveness property (`DeliveredWhenConnected`,
`CacheConverges`, `EveryDeliveryEnds`, `EveryUploadEnds`, `DeletedIsCollected`), which are
out of the provers' reach. Every invariant of the runs is stated by a theorem.
`TypeOK` is in no run: it is proved where there is a theorem `TypeCorrect`, and can be
added to the other configurations.

## Findings

The following configurations are kept for these, to be run by hand
(`tlc -config X.cfg MC<Module>`); TLC finds each property violated:

| Configuration | Property | The documentation says | The code |
|---|---|---|---|
| `MembersLastOwner.cfg` | `OwnerKept` | `project.md:110`: one owner at least must stay | the owners are counted before the transaction that removes one (`project/internal/domain/service_impl.go:286`); two owners who leave at once both count two |
| `MembersDeletedUser.cfg` | `DeletedUserIsNoMember` | `project.md:1218`: all memberships of a deleted user go | `AddMember` checked the user before (`:186`) |
| `MembersDeletedUser.cfg` with | `MembershipAnnounced` | `project.md:1218`: an event per membership | none is written (`consumer.go:85`) |
| `MembersDeletedUser.cfg` with `MaxFaults = 1` and | `DeletionAnnounced` | `project.md:1678`: no change without its outbox row | `DeleteProject` ignores the error of the insert (`:164`) |
| `MembersDeletedUser.cfg` with two requests and | `StaleOnlyBeforeEviction` | `project.md:1143`: eviction takes effect at once | a value read before the change is stored after the eviction (`:75`) |
| `OutboxReconnect.cfg` | `DeliveredUnaided` | `shared.md:459`: a lost connection is reconnected with backoff | dials once; `Subscribe` returns and `main` logs |
| `OutboxInsertOrder.cfg` | `InsertOrder` | `project.md:1690`: events of a transaction are published in insert order | `occurred_at` is equal for them, the tie is broken by a random id (`outbox.go:109`) |
| `WebhookFinal.cfg` | `FinalStaysFinal` | `plugin.md:273`: delivered and dead are final | two workers pick one row, the later outcome wins (`postgres.go:161`) |
| `WebhookAttempts.cfg` | `DeadAfterAllAttempts` | `worker.go:100`: "without incrementing attempt" | `RescheduleDelivery` increments it: during an outage of its receiver a delivery uses up its attempts untried |
| `WebhookDuplicates.cfg` | `NoDuplicateDeliveries` | `plugin.md:1351`: no duplicate pending deliveries | inserts and the mark are separate, with no unique key (`service_impl.go:344`) |
| `WebhookFinal.cfg` with `MaxChanges = 1` and | `AuditKept` | `plugin.md:273`: finished deliveries stay for audit | they are deleted with their webhook |
| `WebhookStarved.cfg` | `EveryDeliveryEnds` | `plugin.md:620`: 33 hours at most | with two workers a dead delivery can be rescheduled for ever and take each probe of the breaker |
| `DocumentCleanup.cfg` | `CleanupSparesConfirmed` | `document.md:1469`: `WHERE id = $1 AND status = 'pending'` | the cleanup updates by id alone (`querier.go:245`, `:139`) what it listed earlier: a version confirmed in between becomes failed, a document activated in between is deleted |
| `DocumentRaces.cfg` with | `StatesSeparate` | `document.md:361`: three separate states | a confirmation that read the status before a deletion makes the document active with `deleted_at` set (`service_upload.go:198`) |
| `TaskBoardDrop.cfg` | `PositionsDiffer` | `task.md:615`: different positions; `task.md:564`: clients name both neighbours | the frontend names only the task to insert before, so `Between` is asked for a place before it, whatever is there: a second task dropped there gets the same position |

Definitions that state what the documentation says, for a reader to add to a
configuration; each is violated:

* Tasks. `PositionsDiffer` in `TaskBoard.cfg`: two moves at once to one place.
  `EveryAssigneeTold` (`task.md:1346`) and `NoTaskOnDeletedBoard` (`:1349`): the
  handlers of `user.deleted`, `board.deleted` and `document.deleted` write no
  events, and `CreateTask` on a board that is being deleted succeeds.
  `EveryEditKept` (`:2046`): `UpdateComment` archives the body it read before its
  transaction.
* Boards. `EveryCopyInvalidated` (`project.md:1176`): one instance gets the event.
  `ConfigAdmitted` (`boardregistry.md:43`, `:159`): `UpdateBoard` does not validate.
* Invitations. `RefusalKeepsPending`, `PendingWasSent` and `AnsweredOnce`: the
  status is written outside the transaction. With `PoolSize = 2` two acceptances
  deadlock.
* Notifications. `NoPanic`: a send to a connection that another goroutine has
  closed panics (`connection.go:44`). `ConnectedFirst` (`notification.md:237`,
  `:531`): a push can precede the reply. `ToldAsDocumented` (`:705`, `:708`): the
  payload of `task.commented` has no assignee, so he is not told; that of
  `task.unassigned` names `assigned_by`, so who unassigns himself is.
* Sessions. `OneTokenAlways` (`auth.md:1470`): two refreshes with one token at once
  both get one.
* Listings. `ListedOnce` with `Readings <- MCSmallPages`: the tasks' cursor is
  encoded and its text compared with positions (`handlers_tasks.go:97`,
  `queries.go:65`; `task.md:1986`), so that page two skips or repeats tasks and the
  MCP server repeats pages up to its bound of 500; the deliveries' cursor ignores
  the id (`plugin/internal/repository/postgres.go:193`).

Met while reading, without a property:

* `dto.go:25` of the task service and `tools/tasks.go:229` of the MCP server
  describe `before` and `after` the other way round.
* `CreateTask` never asks whether the assignee is a member.
* A deleted project keeps its boards and memberships. `board.updated` is not bound
  by the task service (`task.md:1348`); nobody produces `column.updated`,
  `column.deleted` (`:1351`) or `user.deleted`.
* `UpdateBoard` and `DeleteBoard` discard the error of the insert of their event. The
  position of a board is read before its transaction, so two can be equal.
* An upload begun before `project.deleted` is handled creates its document after
  the project's documents were deleted (`document/internal/events/consumer.go:68`).
* An invitation that expired stays pending, so its user can never be invited again.
  Accepting one asks neither for the project's deletion nor for `known_users`.
* `replaced_by` is never set: the update looks for a token that is not revoked.
  There is no `auth.suspicious_activity` (`auth.md`, 8.2), no rotation of keys and
  no cleanup (7.2, 8.3).
* The login limit counts attempts that succeed (`auth.md:94`), counts two in one
  millisecond once (`redis_limiter.go:37`), and lets everyone pass when Redis fails.
* The breakers of the permission and introspection clients count an aborted request
  or an invalid token as a failure, open after five in a row (not above 50 %,
  `task.md:711`), and nothing retries (`:710`). `InvalidateCache` is called by nobody
  (`project.md:1178`).
* `auth` and `plugin` survive a server that cannot listen. A shutdown does not wait
  for WebSockets. The MCP server handles no signal.
* A crash between the row and the push of a notification: it is never pushed. A
  failed insert is logged and the event marked as processed. A notification that
  was deleted comes back when its event is delivered again.
  `UnsubscribeUserFromProject` and `DeleteNotificationsByProject` are called by
  nobody (`notification.md:1033`, `:1626`), and anyone may subscribe to a board or a
  task. A connection whose registration Redis refuses stays in the hub, closed.

## Limits

* One project, one document, one board, one user's sessions, one queue at a time.
  Two projects or documents share no row; two queues share only the worker that
  publishes to the exchange, and a service that binds no queue loses nothing it
  ever had.
* A business transaction is one step where its rows are locked: PostgreSQL
  serialises two that write one row. Where its statements bypass it (invitations)
  or see an older snapshot (mentions) they are steps of their own.
* The permission check of the document and plugin services is one call with no
  effect on their state; a request it denies is a request not made.
* `uploadURLTTL` is shorter than `pendingGracePeriod`, so a URL has expired when
  its version is old; clocks of replicas are taken to agree to that margin.
* The sizes S3 reports: an upload URL is signed for the declared size, so an
  object that exists has it, and `ErrUploadSizeMismatch` does not occur.
* `ListPendingDocuments` and `ListPendingVersions` are unlimited in the code; of
  `batchSize` in `hardDeleteExpired` one document never sees more than a delay.
* Positions are compared as bytes. The images run `postgres:16-alpine`, whose
  collation does so; a locale's collation would order upper and lower case
  otherwise, and `ORDER BY position` would not agree with `Between`.
* `TaskBoard`'s queue keeps the order of the events; that the outbox can deliver
  them in another is the subject of `CausalOrder`.
* Not modelled: `Register` (one transaction), `UpdateProject`, `RotateSecret`,
  `RenameDocument` (they change what no other step reads); the registry of
  connections in Redis, which is written and never read; listings of one page;
  calendar boards, whose tasks have no column; malformed messages and frames.
  Handlers, DTOs, gateway, MCP tools (but for `ListTasks`) and frontend keep no
  state beyond a request.
