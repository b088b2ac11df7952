------------------------------ MODULE OutboxBus ------------------------------
(***************************************************************************)
(* The path of a domain event from the transaction that produces it to the *)
(* handler that consumes it: shared/go/outbox (InsertEvent, Worker),       *)
(* shared/go/eventbus (publisher, topology, consumer, IdempotentHandler).  *)
(*                                                                         *)
(* One producing service, its outbox table, its outbox workers (one per    *)
(* replica), the RabbitMQ queue of one consuming service, and the          *)
(* consumers on it (one per replica).  Every database statement and every  *)
(* broker round trip is a step of its own, so that an error or a crash can *)
(* fall between any two of them.                                           *)
(***************************************************************************)
EXTENDS Naturals, Sequences, FiniteSets

CONSTANTS
  Event,              \* outbox row ids; their order is the order of the UUIDs
  Tx,                 \* business transactions, each run once
  Worker,             \* outbox workers
  Consumer,           \* consumers on the queue
  BatchSize,          \* Config.BatchSize
  MaxRows,            \* bound: events a transaction inserts
  MaxProducerFaults,  \* bound: failed publishes, marks, commits, lost connections
  MaxConsumerFaults,  \* bound: failed handlers, lost connections
  MaxExpiries,        \* bound: messages that outlive x-message-ttl
  QueueDeclared       \* has the consuming service started before the producer?

ASSUME ConstantsAssumption ==
  /\ Event \subseteq Nat \ {0}
  /\ Worker \cap Consumer = {}
  /\ BatchSize \in Nat \ {0}
  /\ MaxRows \in Nat \ {0}
  /\ MaxProducerFaults \in Nat
  /\ MaxConsumerFaults \in Nat
  /\ MaxExpiries \in Nat
  /\ QueueDeclared \in BOOLEAN

NoEvent == 0

VARIABLES
  clock,        \* the producing database's clock
  txState,      \* of each transaction: "idle", "open" or "done"
  txStart,      \* what NOW() returns in it: its start time
  txRows,       \* the events it inserted, in the order of the inserts
  committed,    \* outbox rows of committed transactions
  occurredAt,   \* column occurred_at
  committedAt,  \* history: when the row's transaction committed
  published,    \* rows whose published_at is set and committed
  wpc,          \* where each worker is in processBatch
  lock,         \* rows the worker's transaction has locked (FOR UPDATE)
  marked,       \* rows among them it has set published_at on, not committed
  bound,        \* is the consumer's queue declared and bound?
  connected,    \* workers and consumers whose AMQP connection is alive
  queue,        \* messages ready in the queue
  holding,      \* the unacknowledged message of each consumer (Qos 1)
  cpc,          \* where each consumer is in handle and IdempotentHandler
  processed,    \* event ids in processed_events
  effects,      \* history: completed runs of the inner handler per event
  dropped,      \* history: events the broker discarded
  producerFaults, consumerFaults, expiries

txVars == <<clock, txState, txStart, txRows, committed, occurredAt, committedAt>>
workerVars == <<published, wpc, lock, marked>>
brokerVars == <<bound, connected, queue, dropped, expiries>>
consumerVars == <<holding, cpc, processed, effects>>
vars == <<txVars, workerVars, brokerVars, consumerVars,
          producerFaults, consumerFaults>>

RowsOf(t) == {txRows[t][i] : i \in DOMAIN txRows[t]}
IsIn(e, q) == \E i \in DOMAIN q : q[i] = e
InQueue(e) == IsIn(e, queue)
Held(e) == \E c \in Consumer : holding[c] = e
Unacked(e) == \E c \in Consumer \cap connected : holding[c] = e

RowBeforeById(e, f) == e < f                        \* mutant: ORDER BY id

(* ORDER BY occurred_at ASC, id ASC *)
RowBefore(e, f) == \/ occurredAt[e] < occurredAt[f]
                   \/ occurredAt[e] = occurredAt[f] /\ e < f

UnpublishedDirty ==                                 \* mutant: READ UNCOMMITTED
  (committed \cup UNION {RowsOf(t) : t \in Tx}) \ published

(* WHERE published_at IS NULL, as a READ COMMITTED transaction sees it *)
Unpublished == committed \ published

UnlockedAnyway(S) == S                              \* mutant: no FOR UPDATE

(* FOR UPDATE SKIP LOCKED *)
Unlocked(S) == S \ UNION {lock[w] : w \in Worker}

(* LIMIT: the first BatchSize rows of S *)
IsFirstBatch(B, S) ==
  /\ Cardinality(B) = IF Cardinality(S) < BatchSize THEN Cardinality(S) ELSE BatchSize
  /\ \A e \in B, f \in S \ B : RowBefore(e, f)

(* the row the loop over the batch has reached *)
IsCurrent(w, e) == /\ e \in lock[w] \ marked[w]
                   /\ \A f \in lock[w] \ marked[w] : f = e \/ RowBefore(e, f)

-----------------------------------------------------------------------------
Init ==
  /\ clock = 0
  /\ txState = [t \in Tx |-> "idle"]
  /\ txStart = [t \in Tx |-> 0]
  /\ txRows = [t \in Tx |-> <<>>]
  /\ committed = {}
  /\ occurredAt = [e \in Event |-> 0]
  /\ committedAt = [e \in Event |-> 0]
  /\ published = {}
  /\ wpc = [w \in Worker |-> "idle"]
  /\ lock = [w \in Worker |-> {}]
  /\ marked = [w \in Worker |-> {}]
  /\ bound = QueueDeclared
  /\ connected = Worker \cup Consumer
  /\ queue = <<>>
  /\ holding = [c \in Consumer |-> NoEvent]
  /\ cpc = [c \in Consumer |-> "idle"]
  /\ processed = {}
  /\ effects = [e \in Event |-> 0]
  /\ dropped = {}
  /\ producerFaults = 0
  /\ consumerFaults = 0
  /\ expiries = 0

-----------------------------------------------------------------------------
(* The producing service's business transactions. *)

BeginTx(t) ==
  /\ txState[t] = "idle"
  /\ clock' = clock + 1
  /\ txState' = [txState EXCEPT ![t] = "open"]
  /\ txStart' = [txStart EXCEPT ![t] = clock + 1]
  /\ UNCHANGED <<txRows, committed, occurredAt, committedAt, workerVars, brokerVars,
                 consumerVars, producerFaults, consumerFaults>>

(* outbox.InsertEvent: a row with a fresh id; occurred_at DEFAULT NOW(). *)
InsertEvent(t, e) ==
  /\ txState[t] = "open"
  /\ Len(txRows[t]) < MaxRows
  /\ e \notin committed
  /\ \A u \in Tx : e \notin RowsOf(u)
  /\ txRows' = [txRows EXCEPT ![t] = Append(@, e)]
  /\ occurredAt' = [occurredAt EXCEPT ![e] = txStart[t]]
  /\ UNCHANGED <<clock, txState, txStart, committed, committedAt, workerVars,
                 brokerVars, consumerVars, producerFaults, consumerFaults>>

CommitTx(t) ==
  /\ txState[t] = "open"
  /\ txRows[t] # <<>>
  /\ clock' = clock + 1
  /\ txState' = [txState EXCEPT ![t] = "done"]
  /\ committed' = committed \cup RowsOf(t)
  /\ committedAt' = [e \in Event |-> IF e \in RowsOf(t) THEN clock + 1 ELSE committedAt[e]]
  /\ UNCHANGED <<txStart, txRows, occurredAt, workerVars, brokerVars, consumerVars,
                 producerFaults, consumerFaults>>

(* The handler returns an error, or the service stops. *)
RollbackTx(t) ==
  /\ txState[t] = "open"
  /\ txState' = [txState EXCEPT ![t] = "done"]
  /\ txRows' = [txRows EXCEPT ![t] = <<>>]
  /\ UNCHANGED <<clock, txStart, committed, occurredAt, committedAt, workerVars,
                 brokerVars, consumerVars, producerFaults, consumerFaults>>

-----------------------------------------------------------------------------
(* outbox.Worker.processBatch *)

SelectBatch(w) ==
  /\ wpc[w] = "idle"
  /\ LET ready == Unlocked(Unpublished) IN
     /\ ready # {}
     /\ \E B \in SUBSET ready : IsFirstBatch(B, ready) /\ lock' = [lock EXCEPT ![w] = B]
  /\ wpc' = [wpc EXCEPT ![w] = "publish"]
  /\ UNCHANGED <<txVars, published, marked, brokerVars, consumerVars,
                 producerFaults, consumerFaults>>

(* The exchange routes the message to the queue if the queue is bound; the *)
(* publisher does not set the mandatory flag, so an unroutable message is  *)
(* confirmed and discarded.                                                *)
BrokerAccepts(e) ==
  /\ queue' = IF bound THEN Append(queue, e) ELSE queue
  /\ dropped' = IF bound THEN dropped ELSE dropped \cup {e}
  /\ UNCHANGED <<bound, connected, expiries>>

PublishUnconfirmed(w) ==                            \* mutant: no wait for the confirm
  /\ wpc[w] = "publish"
  /\ w \in connected
  /\ \E e \in lock[w] : IsCurrent(w, e) /\ (BrokerAccepts(e) \/ UNCHANGED brokerVars)
  /\ wpc' = [wpc EXCEPT ![w] = "mark"]
  /\ UNCHANGED <<txVars, published, lock, marked, consumerVars,
                 producerFaults, consumerFaults>>

(* Publisher.Publish returns nil: the broker has confirmed the message. *)
Publish(w) ==
  /\ wpc[w] = "publish"
  /\ w \in connected
  /\ \E e \in lock[w] : IsCurrent(w, e) /\ BrokerAccepts(e)
  /\ wpc' = [wpc EXCEPT ![w] = "mark"]
  /\ UNCHANGED <<txVars, published, lock, marked, consumerVars,
                 producerFaults, consumerFaults>>

MarkPublished(w) ==
  /\ wpc[w] = "mark"
  /\ \E e \in lock[w] :
       /\ IsCurrent(w, e)
       /\ marked' = [marked EXCEPT ![w] = @ \cup {e}]
       /\ wpc' = [wpc EXCEPT ![w] = IF lock[w] \subseteq marked[w] \cup {e}
                                    THEN "commit" ELSE "publish"]
  /\ UNCHANGED <<txVars, published, lock, brokerVars, consumerVars,
                 producerFaults, consumerFaults>>

CommitBatch(w) ==
  /\ wpc[w] = "commit"
  /\ published' = published \cup marked[w]
  /\ lock' = [lock EXCEPT ![w] = {}]
  /\ marked' = [marked EXCEPT ![w] = {}]
  /\ wpc' = [wpc EXCEPT ![w] = "idle"]
  /\ UNCHANGED <<txVars, brokerVars, consumerVars, producerFaults, consumerFaults>>

ProducerFault == /\ producerFaults < MaxProducerFaults
                 /\ producerFaults' = producerFaults + 1
ConsumerFault == /\ consumerFaults < MaxConsumerFaults
                 /\ consumerFaults' = consumerFaults + 1

(* The deferred Rollback: every lock and every mark of the batch is undone. *)
Rollback(w) ==
  /\ lock' = [lock EXCEPT ![w] = {}]
  /\ marked' = [marked EXCEPT ![w] = {}]
  /\ wpc' = [wpc EXCEPT ![w] = "idle"]
  /\ UNCHANGED <<txVars, published, consumerVars, consumerFaults>>

(* Publish returns an error: the message did not reach the broker, or it   *)
(* did and the confirm was lost.                                           *)
PublishFails(w) ==
  /\ wpc[w] = "publish"
  /\ w \in connected
  /\ \/ UNCHANGED brokerVars
     \/ \E e \in lock[w] : IsCurrent(w, e) /\ BrokerAccepts(e)
  /\ ProducerFault
  /\ Rollback(w)

(* The publisher opens its channel once; when the connection is gone every *)
(* publish is an error and every batch is rolled back.                     *)
PublishRefused(w) ==
  /\ wpc[w] = "publish"
  /\ w \notin connected
  /\ Rollback(w)
  /\ UNCHANGED <<brokerVars, producerFaults>>

(* The UPDATE or the COMMIT fails. *)
BatchFails(w) ==
  /\ wpc[w] \in {"mark", "commit"}
  /\ UNCHANGED brokerVars
  /\ ProducerFault
  /\ Rollback(w)

LoseProducer(w) ==
  /\ w \in connected
  /\ connected' = connected \ {w}
  /\ ProducerFault
  /\ UNCHANGED <<txVars, workerVars, bound, queue, dropped, expiries, consumerVars,
                 consumerFaults>>

(* The producing service's process is restarted and dials anew (a crash is *)
(* LoseProducer directly followed by this).                                *)
RestartProducer(w) ==
  /\ w \notin connected
  /\ connected' = connected \cup {w}
  /\ Rollback(w)
  /\ UNCHANGED <<bound, queue, dropped, expiries, producerFaults>>

-----------------------------------------------------------------------------
(* The queue: SetupTopology declares it, RabbitMQ keeps it. *)

SetupTopology ==
  /\ ~ bound
  /\ bound' = TRUE
  /\ UNCHANGED <<txVars, workerVars, connected, queue, dropped, expiries, consumerVars,
                 producerFaults, consumerFaults>>

(* x-message-ttl: the message at the head is older than 24 hours and goes  *)
(* to the dead-letter exchange, to which no queue is bound.                *)
Expire ==
  /\ expiries < MaxExpiries
  /\ queue # <<>>
  /\ expiries' = expiries + 1
  /\ dropped' = dropped \cup {Head(queue)}
  /\ queue' = Tail(queue)
  /\ UNCHANGED <<txVars, workerVars, bound, connected, consumerVars, producerFaults,
                 consumerFaults>>

Deliver(c) ==
  /\ cpc[c] = "idle"
  /\ c \in connected
  /\ queue # <<>>
  /\ holding' = [holding EXCEPT ![c] = Head(queue)]
  /\ queue' = Tail(queue)
  /\ cpc' = [cpc EXCEPT ![c] = "check"]
  /\ UNCHANGED <<txVars, workerVars, bound, connected, dropped, expiries, processed,
                 effects, producerFaults, consumerFaults>>

-----------------------------------------------------------------------------
(* eventbus.IdempotentHandler around the service's handler *)

HasProcessedUnchecked(c) ==                         \* mutant: no duplicate check
  /\ cpc[c] = "check"
  /\ cpc' = [cpc EXCEPT ![c] = "apply"]
  /\ UNCHANGED <<txVars, workerVars, brokerVars, holding, processed, effects,
                 producerFaults, consumerFaults>>

HasProcessed(c) ==
  /\ cpc[c] = "check"
  /\ cpc' = [cpc EXCEPT ![c] = IF holding[c] \in processed THEN "ack" ELSE "apply"]
  /\ UNCHANGED <<txVars, workerVars, brokerVars, holding, processed, effects,
                 producerFaults, consumerFaults>>

Inner(c) ==
  /\ cpc[c] = "apply"
  /\ effects' = [effects EXCEPT ![holding[c]] = @ + 1]
  /\ cpc' = [cpc EXCEPT ![c] = "record"]
  /\ UNCHANGED <<txVars, workerVars, brokerVars, holding, processed,
                 producerFaults, consumerFaults>>

MarkProcessed(c) ==
  /\ cpc[c] = "record"
  /\ processed' = processed \cup {holding[c]}
  /\ cpc' = [cpc EXCEPT ![c] = "ack"]
  /\ UNCHANGED <<txVars, workerVars, brokerVars, holding, effects,
                 producerFaults, consumerFaults>>

Ack(c) ==
  /\ cpc[c] = "ack"
  /\ holding' = [holding EXCEPT ![c] = NoEvent]
  /\ cpc' = [cpc EXCEPT ![c] = "idle"]
  /\ UNCHANGED <<txVars, workerVars, brokerVars, processed, effects,
                 producerFaults, consumerFaults>>

(* A step of the handler returns an error and the message is nacked with   *)
(* requeue: it is back at the head of the queue (the nack on a connection  *)
(* that is gone does nothing, the message is back already).                *)
Requeue(c) ==
  /\ cpc[c] # "idle"
  /\ ConsumerFault
  /\ queue' = IF c \in connected THEN <<holding[c]>> \o queue ELSE queue
  /\ holding' = [holding EXCEPT ![c] = NoEvent]
  /\ cpc' = [cpc EXCEPT ![c] = "idle"]
  /\ UNCHANGED <<txVars, workerVars, bound, connected, dropped, expiries, processed,
                 effects, producerFaults>>

LoseConsumerUnseen(c) ==                            \* mutant: autoAck
  /\ c \in connected
  /\ connected' = connected \ {c}
  /\ ConsumerFault
  /\ UNCHANGED <<txVars, workerVars, bound, queue, dropped, expiries, consumerVars,
                 producerFaults>>

(* The consumer's connection is lost and the broker requeues what it had   *)
(* not acknowledged.  A handler that is running does not notice and goes   *)
(* on; Subscribe returns once it is done, and nobody calls it again.       *)
LoseConsumer(c) ==
  /\ c \in connected
  /\ connected' = connected \ {c}
  /\ ConsumerFault
  /\ queue' = IF cpc[c] = "idle" THEN queue ELSE <<holding[c]>> \o queue
  /\ UNCHANGED <<txVars, workerVars, bound, dropped, expiries, consumerVars,
                 producerFaults>>

(* The consuming service's process is restarted; a handler that was still  *)
(* running dies with the old process.                                      *)
RestartConsumer(c) ==
  /\ c \notin connected
  /\ connected' = connected \cup {c}
  /\ holding' = [holding EXCEPT ![c] = NoEvent]
  /\ cpc' = [cpc EXCEPT ![c] = "idle"]
  /\ UNCHANGED <<txVars, workerVars, bound, queue, dropped, expiries, processed,
                 effects, producerFaults, consumerFaults>>

-----------------------------------------------------------------------------
TxNext(t) == \/ BeginTx(t) \/ CommitTx(t) \/ RollbackTx(t)
             \/ \E e \in Event : InsertEvent(t, e)
WorkerProgress(w) == \/ SelectBatch(w) \/ Publish(w) \/ MarkPublished(w)
                     \/ CommitBatch(w) \/ PublishRefused(w)
ConsumerProgress(c) == \/ Deliver(c) \/ HasProcessed(c) \/ Inner(c)
                       \/ MarkProcessed(c) \/ Ack(c)
WorkerTrouble(w) == \/ PublishFails(w) \/ BatchFails(w)
                    \/ LoseProducer(w) \/ RestartProducer(w)
ConsumerTrouble(c) == Requeue(c) \/ LoseConsumer(c) \/ RestartConsumer(c)

Next == \/ \E t \in Tx : TxNext(t)
        \/ \E w \in Worker : WorkerProgress(w) \/ WorkerTrouble(w)
        \/ SetupTopology
        \/ Expire
        \/ \E c \in Consumer : ConsumerProgress(c) \/ ConsumerTrouble(c)

Spec == Init /\ [][Next]_vars

(* Worker.Run calls processBatch on every tick and Subscribe loops over    *)
(* the deliveries for as long as the services run, so neither stops while  *)
(* it has work.  Business transactions and faults owe nothing, and neither *)
(* does a restart: no code reconnects, and an operator may be late.        *)
FairSpec == /\ Spec
            /\ \A w \in Worker : WF_vars(WorkerProgress(w))
            /\ \A c \in Consumer : WF_vars(ConsumerProgress(c))

-----------------------------------------------------------------------------
(* Properties *)

TypeOK ==
  /\ clock \in Nat
  /\ txState \in [Tx -> {"idle", "open", "done"}]
  /\ txStart \in [Tx -> Nat]
  /\ txRows \in [Tx -> Seq(Event)]
  /\ committed \subseteq Event
  /\ occurredAt \in [Event -> Nat]
  /\ committedAt \in [Event -> Nat]
  /\ published \subseteq Event
  /\ wpc \in [Worker -> {"idle", "publish", "mark", "commit"}]
  /\ lock \in [Worker -> SUBSET Event]
  /\ marked \in [Worker -> SUBSET Event]
  /\ bound \in BOOLEAN
  /\ connected \subseteq Worker \cup Consumer
  /\ queue \in Seq(Event)
  /\ holding \in [Consumer -> Event \cup {NoEvent}]
  /\ cpc \in [Consumer -> {"idle", "check", "apply", "record", "ack"}]
  /\ processed \subseteq Event
  /\ effects \in [Event -> Nat]
  /\ dropped \subseteq Event
  /\ producerFaults \in 0..MaxProducerFaults
  /\ consumerFaults \in 0..MaxConsumerFaults
  /\ expiries \in 0..MaxExpiries

(* An event recorded as published is not lost: until the consumer has      *)
(* recorded it as processed it is in the queue or unacknowledged at a      *)
(* consumer, unless the broker itself discarded it.  This is what waiting  *)
(* for the broker's confirm before the mark is for (publisher.go:48-51),   *)
(* across rollbacks of the batch, requeues, lost connections and restarts. *)
NoLoss ==
  \A e \in published : InQueue(e) \/ Unacked(e) \/ e \in processed \/ e \in dropped

(* Nothing of a transaction that did not commit leaves the service: every  *)
(* message in the queue, at a consumer or discarded, and every effect, is  *)
(* of a committed outbox row.                                              *)
OnlyCommittedLeave ==
  /\ \A e \in Event : InQueue(e) \/ Held(e) \/ effects[e] > 0 => e \in committed
  /\ processed \cup dropped \subseteq committed

(* With any number of workers and consumers, an event's handler completes  *)
(* at most once more than there were faults: without a failure somewhere,  *)
(* FOR UPDATE SKIP LOCKED and the acknowledgement keep it at exactly one.  *)
DuplicatesNeedFaults == \A e \in Event : effects[e] <= 1 + producerFaults + consumerFaults

(* A single consumer absorbs the duplicates the outbox produces when a     *)
(* batch is rolled back after some of its rows reached the broker: only a  *)
(* failure on its own side, between the effect and its record in           *)
(* processed_events, can repeat an effect.                                 *)
DuplicatesAbsorbed == \A e \in Event : effects[e] <= 1 + consumerFaults

(* e happened before f: its transaction had committed when f's began. *)
HappenedBefore(e, f) == /\ {e, f} \subseteq committed
                        /\ committedAt[e] < occurredAt[f]

(* With one worker and one consumer an event never takes effect before an  *)
(* event that happened before it, whatever fails and is retried: the       *)
(* worker gives up the rest of a batch at the first error and the consumer *)
(* does not go past a message that failed.                                 *)
CausalOrder ==
  \A e, f \in Event :
    HappenedBefore(e, f) /\ effects[f] > 0 => effects[e] > 0 \/ e \in dropped

(* docs/services/project.md:1690 asks more: the events of one transaction  *)
(* are published in the order of their inserts, because the outbox sorts   *)
(* by occurred_at.                                                         *)
InsertOrder ==
  \A t \in Tx : \A i, j \in DOMAIN txRows[t] :
    i < j /\ effects[txRows[t][j]] > 0
      => effects[txRows[t][i]] > 0 \/ txRows[t][i] \in dropped

(* The path implements at-least-once delivery: whatever fails, a committed *)
(* event is never withdrawn and only committed events take effect.         *)
Promise == INSTANCE EventDelivery WITH recorded <- committed, effects <- effects
ImplementsEventDelivery == Promise!Spec

(* Once the faults are over and every process has its connection, every    *)
(* committed event takes effect.                                           *)
DeliveredWhenConnected ==
  <>[](Worker \cup Consumer \subseteq connected) => Promise!Delivery

(* docs/specifications/shared.md:459 promises more: a lost connection is   *)
(* noticed by NotifyClose and reconnected, so delivery goes on unaided.    *)
DeliveredUnaided == Promise!Delivery
=============================================================================
