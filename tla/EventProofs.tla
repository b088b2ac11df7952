----------------------------- MODULE EventProofs -----------------------------
(***************************************************************************)
(* Theorems about the events between the services.                         *)
(*                                                                         *)
(* Of OutboxBus, for every set of events, transactions, workers and        *)
(* consumers, every batch size and every number of faults: the types,      *)
(* that a published event is not lost, that only committed events leave    *)
(* the producer, that every step is a step of EventDelivery, and that      *)
(* nothing is handled more often than the faults account for; and, for a   *)
(* single consumer, that it absorbs what is sent again, and in what order  *)
(* the events of a single worker take effect there.                        *)
(*                                                                         *)
(* Of Notifications, for every set of instances, users, events and         *)
(* connections and every scenario: whom an event concerns finds it in his  *)
(* list, is pushed it once and misses no push, and only who is or was a    *)
(* member is subscribed to a project's channel.                            *)
(***************************************************************************)
EXTENDS OutboxBus, Notifications, FiniteSetTheorems, SequenceTheorems, TLAPS

USE ConstantsAssumption DEF NoEvent

-----------------------------------------------------------------------------
(* Membership in the queue under the three operations the broker performs. *)

(* A published message is in the queue, and so is everything before it. *)
LEMMA IsInAppend ==
  ASSUME NEW S, NEW q \in Seq(S), NEW x \in S, NEW e
  PROVE  IsIn(e, Append(q, x)) <=> e = x \/ IsIn(e, q)
<1>1. /\ Len(Append(q, x)) = Len(q) + 1
      /\ DOMAIN Append(q, x) = 1 .. Len(q) + 1
      /\ DOMAIN q = 1 .. Len(q)
      /\ Len(q) \in Nat
  OBVIOUS
<1>2. /\ Append(q, x)[Len(q) + 1] = x
      /\ \A i \in 1 .. Len(q) : Append(q, x)[i] = q[i]
  OBVIOUS
<1>3. \A i \in 1 .. Len(q) + 1 : i = Len(q) + 1 \/ i \in 1 .. Len(q)
  BY <1>1
<1> QED BY <1>1, <1>2, <1>3 DEF IsIn

(* Taking the head of the queue leaves everything but the head. *)
LEMMA IsInTail ==
  ASSUME NEW S, NEW q \in Seq(S), q # <<>>, NEW e
  PROVE  IsIn(e, q) <=> e = Head(q) \/ IsIn(e, Tail(q))
<1>1. /\ Len(q) \in Nat \ {0}
      /\ DOMAIN q = 1 .. Len(q)
      /\ DOMAIN Tail(q) = 1 .. Len(q) - 1
      /\ Head(q) = q[1]
      /\ \A i \in 1 .. Len(q) - 1 : Tail(q)[i] = q[i + 1]
  OBVIOUS
<1>2. ASSUME IsIn(e, q) PROVE e = Head(q) \/ IsIn(e, Tail(q))
  <2>1. PICK i \in 1 .. Len(q) : q[i] = e
    BY <1>1, <1>2 DEF IsIn
  <2>2. CASE i = 1
    BY <2>1, <2>2, <1>1
  <2>3. CASE i # 1
    <3>1. i - 1 \in 1 .. Len(q) - 1 /\ (i - 1) + 1 = i
      BY <2>3, <1>1
    <3> QED BY <3>1, <2>1, <1>1 DEF IsIn
  <2> QED BY <2>2, <2>3
<1>3. ASSUME e = Head(q) PROVE IsIn(e, q)
  BY <1>1, <1>3 DEF IsIn
<1>4. ASSUME IsIn(e, Tail(q)) PROVE IsIn(e, q)
  <2>1. PICK i \in 1 .. Len(q) - 1 : Tail(q)[i] = e
    BY <1>1, <1>4 DEF IsIn
  <2>2. i + 1 \in 1 .. Len(q) /\ q[i + 1] = e
    BY <2>1, <1>1
  <2> QED BY <2>2, <1>1 DEF IsIn
<1> QED BY <1>2, <1>3, <1>4

(* A requeued message is in the queue, and so is everything behind it. *)
LEMMA IsInPrepend ==
  ASSUME NEW S, NEW q \in Seq(S), NEW x \in S, NEW e
  PROVE  IsIn(e, <<x>> \o q) <=> e = x \/ IsIn(e, q)
<1> DEFINE r == <<x>> \o q
<1>1. /\ r \in Seq(S)
      /\ Len(r) = Len(q) + 1
      /\ Len(q) \in Nat
      /\ DOMAIN r = 1 .. Len(q) + 1
      /\ DOMAIN q = 1 .. Len(q)
  OBVIOUS
<1>2. r[1] = x /\ \A i \in 1 .. Len(q) : r[i + 1] = q[i]
  OBVIOUS
<1>3. \A i \in 1 .. Len(q) + 1 : i = 1 \/ (i - 1 \in 1 .. Len(q) /\ i = (i - 1) + 1)
  BY <1>1
<1>4. \A i \in 1 .. Len(q) : i + 1 \in 1 .. Len(q) + 1
  BY <1>1
<1>5. 1 \in 1 .. Len(q) + 1
  BY <1>1
<1>6. IsIn(e, r) => e = x \/ IsIn(e, q)
  <2> SUFFICES ASSUME NEW i \in 1 .. Len(q) + 1, r[i] = e PROVE e = x \/ IsIn(e, q)
    BY <1>1 DEF IsIn
  <2>1. CASE i = 1
    BY <2>1, <1>2
  <2>2. CASE i - 1 \in 1 .. Len(q) /\ i = (i - 1) + 1
    BY <2>2, <1>1, <1>2 DEF IsIn
  <2> QED BY <2>1, <2>2, <1>3
<1>7. e = x \/ IsIn(e, q) => IsIn(e, r)
  BY <1>1, <1>2, <1>4, <1>5 DEF IsIn
<1> QED BY <1>6, <1>7

-----------------------------------------------------------------------------
(* Beside its type, a consumer that is handling a message holds one, and   *)
(* no other consumer does: what it nacks is an event, what it fetches does *)
(* not overwrite another message.                                          *)
HoldingOK == \A c \in Consumer : IF cpc[c] = "idle" THEN holding[c] = NoEvent
                                                   ELSE holding[c] \in Event
TypeInv == TypeOK /\ HoldingOK

(* Every step keeps the types. *)
LEMMA TypeStep == TypeInv /\ [Next]_vars => TypeInv'
<1> SUFFICES ASSUME TypeInv, [Next]_vars PROVE TypeInv'
  OBVIOUS
<1> USE DEF TypeInv, HoldingOK, TypeOK, txVars, workerVars, brokerVars, consumerVars
<1>1. ASSUME NEW t \in Tx, BeginTx(t) PROVE TypeInv'
  BY <1>1 DEF BeginTx
<1>2. ASSUME NEW t \in Tx, NEW e \in Event, InsertEvent(t, e) PROVE TypeInv'
  <2>1. txRows' \in [Tx -> Seq(Event)]
    BY <1>2 DEF InsertEvent
  <2>2. occurredAt' \in [Event -> Nat]
    BY <1>2 DEF InsertEvent
  <2> QED BY <1>2, <2>1, <2>2 DEF InsertEvent
<1>3. ASSUME NEW t \in Tx, CommitTx(t) PROVE TypeInv'
  <2>1. committed' \subseteq Event
    <3>1. txRows[t] \in Seq(Event)
      OBVIOUS
    <3>2. RowsOf(t) \subseteq Event
      BY <3>1 DEF RowsOf
    <3> QED BY <1>3, <3>2 DEF CommitTx
  <2>2. committedAt' \in [Event -> Nat] /\ clock' \in Nat
    BY <1>3 DEF CommitTx
  <2>3. txState' \in [Tx -> {"idle", "open", "done"}]
    BY <1>3 DEF CommitTx
  <2> QED BY <1>3, <2>1, <2>2, <2>3 DEF CommitTx
<1>4. ASSUME NEW t \in Tx, RollbackTx(t) PROVE TypeInv'
  <2>1. txRows' \in [Tx -> Seq(Event)]
    BY <1>4 DEF RollbackTx
  <2> QED BY <1>4, <2>1 DEF RollbackTx
<1>5. ASSUME NEW w \in Worker, SelectBatch(w) PROVE TypeInv'
  <2>1. Unlocked(Unpublished) \subseteq Event
    BY DEF Unlocked, Unpublished
  <2>2. PICK B \in SUBSET Unlocked(Unpublished) : lock' = [lock EXCEPT ![w] = B]
    BY <1>5 DEF SelectBatch
  <2>3. lock' \in [Worker -> SUBSET Event]
    BY <2>1, <2>2
  <2>4. /\ wpc' = [wpc EXCEPT ![w] = "publish"]
        /\ UNCHANGED <<txVars, published, marked, brokerVars, consumerVars, producerFaults,
                       consumerFaults>>
    BY <1>5 DEF SelectBatch
  <2>5. wpc' \in [Worker -> {"idle", "publish", "mark", "commit"}]
    BY <2>4
  <2>6. /\ UNCHANGED <<clock, txState, txStart, txRows, committed, occurredAt, committedAt>>
        /\ UNCHANGED <<published, marked, bound, connected, queue, dropped, expiries>>
        /\ UNCHANGED <<holding, cpc, processed, effects, producerFaults, consumerFaults>>
    BY <2>4
  <2>7. HoldingOK'
    BY <2>6
  <2> QED BY <2>3, <2>5, <2>6, <2>7, SMTT(20)
<1>6. ASSUME NEW w \in Worker, Publish(w) PROVE TypeInv'
  BY <1>6, SMTT(30) DEF Publish, BrokerAccepts, IsCurrent
<1>7. ASSUME NEW w \in Worker, MarkPublished(w) PROVE TypeInv'
  BY <1>7 DEF MarkPublished, IsCurrent
<1>8. ASSUME NEW w \in Worker, CommitBatch(w) PROVE TypeInv'
  BY <1>8 DEF CommitBatch
<1>9. ASSUME NEW w \in Worker, PublishFails(w) PROVE TypeInv'
  <2>1. /\ queue' \in Seq(Event)
        /\ dropped' \subseteq Event
        /\ UNCHANGED <<bound, connected, expiries>>
    <3>1. CASE UNCHANGED brokerVars
      BY <3>1
    <3>2. CASE \E e \in lock[w] : IsCurrent(w, e) /\ BrokerAccepts(e)
      <4>1. PICK e \in lock[w] : BrokerAccepts(e)
        BY <3>2
      <4>2. e \in Event
        BY <4>1
      <4> QED BY <4>1, <4>2 DEF BrokerAccepts
    <3> QED BY <1>9, <3>1, <3>2 DEF PublishFails
  <2>2. producerFaults' \in 0..MaxProducerFaults
    BY <1>9 DEF PublishFails, ProducerFault
  <2>3. /\ lock' \in [Worker -> SUBSET Event]
        /\ marked' \in [Worker -> SUBSET Event]
        /\ wpc' \in [Worker -> {"idle", "publish", "mark", "commit"}]
    BY <1>9 DEF PublishFails, Rollback
  <2> QED BY <1>9, <2>1, <2>2, <2>3 DEF PublishFails, Rollback
<1>10. ASSUME NEW w \in Worker, BatchFails(w) PROVE TypeInv'
  <2>1. producerFaults' \in 0..MaxProducerFaults
    BY <1>10 DEF BatchFails, ProducerFault
  <2>2. /\ lock' \in [Worker -> SUBSET Event]
        /\ marked' \in [Worker -> SUBSET Event]
        /\ wpc' \in [Worker -> {"idle", "publish", "mark", "commit"}]
    BY <1>10 DEF BatchFails, Rollback
  <2> QED BY <1>10, <2>1, <2>2 DEF BatchFails, Rollback
<1>11. ASSUME SetupTopology PROVE TypeInv'
  BY <1>11 DEF SetupTopology
<1>12. ASSUME Expire PROVE TypeInv'
  <2>1. queue' \in Seq(Event) /\ Head(queue) \in Event
    BY <1>12 DEF Expire
  <2>2. dropped' \subseteq Event
    BY <1>12, <2>1 DEF Expire
  <2>3. expiries' \in 0..MaxExpiries
    BY <1>12 DEF Expire
  <2> QED BY <1>12, <2>1, <2>2, <2>3 DEF Expire
<1>13. ASSUME NEW c \in Consumer, Deliver(c) PROVE TypeInv'
  <2>1. queue' \in Seq(Event) /\ Head(queue) \in Event
    BY <1>13 DEF Deliver
  <2> QED BY <1>13, <2>1 DEF Deliver
<1>14. ASSUME NEW c \in Consumer, HasProcessed(c) PROVE TypeInv'
  BY <1>14 DEF HasProcessed
<1>15. ASSUME NEW c \in Consumer, Inner(c) PROVE TypeInv'
  <2>1. holding[c] \in Event
    BY <1>15 DEF Inner
  <2>2. effects' \in [Event -> Nat]
    <3>1. effects' = [effects EXCEPT ![holding[c]] = effects[holding[c]] + 1]
      BY <1>15 DEF Inner
    <3>2. effects \in [Event -> Nat]
      OBVIOUS
    <3> HIDE DEF TypeInv, TypeOK, HoldingOK, consumerVars, txVars, workerVars, brokerVars
    <3>3. effects[holding[c]] \in Nat
      BY <2>1, <3>2
    <3>4. effects[holding[c]] + 1 \in Nat
      BY <3>3
    <3> QED BY <2>1, <3>1, <3>2, <3>4
  <2> QED BY <1>15, <2>2, SMTT(20) DEF Inner
<1>16. ASSUME NEW c \in Consumer, MarkProcessed(c) PROVE TypeInv'
  BY <1>16 DEF MarkProcessed
<1>17. ASSUME NEW c \in Consumer, Ack(c) PROVE TypeInv'
  BY <1>17 DEF Ack
<1>18. ASSUME NEW c \in Consumer, Requeue(c) PROVE TypeInv'
  <2>1. holding[c] \in Event
    BY <1>18 DEF Requeue
  <2>2. queue' \in Seq(Event)
    BY <1>18, <2>1 DEF Requeue
  <2>3. consumerFaults' \in 0..MaxConsumerFaults
    BY <1>18 DEF Requeue, ConsumerFault
  <2>4. /\ holding' \in [Consumer -> Event \cup {NoEvent}]
        /\ cpc' \in [Consumer -> {"idle", "check", "apply", "record", "ack"}]
        /\ HoldingOK'
    BY <1>18 DEF Requeue
  <2> QED BY <1>18, <2>2, <2>3, <2>4 DEF Requeue
<1>19. ASSUME NEW w \in Worker, PublishRefused(w) PROVE TypeInv'
  <2>1. /\ lock' \in [Worker -> SUBSET Event]
        /\ marked' \in [Worker -> SUBSET Event]
        /\ wpc' \in [Worker -> {"idle", "publish", "mark", "commit"}]
    BY <1>19 DEF PublishRefused, Rollback
  <2> QED BY <1>19, <2>1 DEF PublishRefused, Rollback
<1>20. ASSUME NEW w \in Worker, LoseProducer(w) PROVE TypeInv'
  <2>1. producerFaults' \in 0..MaxProducerFaults
    BY <1>20 DEF LoseProducer, ProducerFault
  <2> QED BY <1>20, <2>1 DEF LoseProducer
<1>21. ASSUME NEW w \in Worker, RestartProducer(w) PROVE TypeInv'
  <2>1. /\ lock' \in [Worker -> SUBSET Event]
        /\ marked' \in [Worker -> SUBSET Event]
        /\ wpc' \in [Worker -> {"idle", "publish", "mark", "commit"}]
    BY <1>21 DEF RestartProducer, Rollback
  <2> QED BY <1>21, <2>1 DEF RestartProducer, Rollback
<1>22. ASSUME NEW c \in Consumer, LoseConsumer(c) PROVE TypeInv'
  <2>1. consumerFaults' \in 0..MaxConsumerFaults
    BY <1>22 DEF LoseConsumer, ConsumerFault
  <2>2. queue' \in Seq(Event)
    <3>1. CASE cpc[c] = "idle"
      BY <1>22, <3>1 DEF LoseConsumer
    <3>2. CASE cpc[c] # "idle"
      <4>1. holding[c] \in Event /\ queue' = <<holding[c]>> \o queue
        BY <1>22, <3>2 DEF LoseConsumer
      <4> QED BY <4>1
    <3> QED BY <3>1, <3>2
  <2> QED BY <1>22, <2>1, <2>2 DEF LoseConsumer
<1>23. ASSUME NEW c \in Consumer, RestartConsumer(c) PROVE TypeInv'
  BY <1>23 DEF RestartConsumer
<1>24. CASE UNCHANGED vars
  BY <1>24 DEF vars
<1> QED BY <1>1, <1>2, <1>3, <1>4, <1>5, <1>6, <1>7, <1>8, <1>9, <1>10, <1>11, <1>12,
           <1>13, <1>14, <1>15, <1>16, <1>17, <1>18, <1>19, <1>20, <1>21, <1>22, <1>23,
           <1>24
        DEF Next, TxNext, WorkerProgress, WorkerTrouble, ConsumerProgress, ConsumerTrouble

(* Every variable keeps its type, and every fault counter its bound. *)
THEOREM TypeCorrect == Spec => []TypeOK
<1>1. Init => TypeInv
  BY DEF Init, TypeInv, TypeOK, HoldingOK
<1>2. TypeInv => TypeOK
  BY DEF TypeInv
<1> QED BY <1>1, <1>2, TypeStep, PTL DEF Spec

-----------------------------------------------------------------------------
(* The lists of actions a step is one of, so that a proof can treat those  *)
(* that leave its invariant's variables alone together.                    *)
LEMMA NextCases ==
  ASSUME NEW P, [Next]_vars,
         \A t \in Tx : BeginTx(t) \/ CommitTx(t) \/ RollbackTx(t) => P,
         \A t \in Tx, e \in Event : InsertEvent(t, e) => P,
         \A w \in Worker : SelectBatch(w) \/ Publish(w) \/ MarkPublished(w) \/ CommitBatch(w) => P,
         \A w \in Worker : PublishFails(w) \/ BatchFails(w) => P,
         \A w \in Worker : PublishRefused(w) \/ LoseProducer(w) \/ RestartProducer(w) => P,
         SetupTopology \/ Expire => P,
         \A c \in Consumer : Deliver(c) \/ HasProcessed(c) \/ Inner(c) => P,
         \A c \in Consumer : MarkProcessed(c) \/ Ack(c) \/ Requeue(c) => P,
         \A c \in Consumer : LoseConsumer(c) \/ RestartConsumer(c) => P,
         UNCHANGED vars => P
  PROVE  P
BY DEF Next, TxNext, WorkerProgress, WorkerTrouble, ConsumerProgress, ConsumerTrouble

-----------------------------------------------------------------------------
(* An uncommitted transaction's rows are its own and not in the table yet. *)
RowsFresh ==
  /\ \A t \in Tx : txState[t] # "done" => RowsOf(t) \cap committed = {}
  /\ \A t, u \in Tx : t # u => RowsOf(t) \cap RowsOf(u) = {}

LEMMA FreshStep == TypeInv /\ RowsFresh /\ [Next]_vars => RowsFresh'
<1> SUFFICES ASSUME TypeInv, RowsFresh, [Next]_vars PROVE RowsFresh'
  OBVIOUS
<1>0. TypeOK
  BY DEF TypeInv
<1>1. ASSUME NEW t \in Tx, BeginTx(t) PROVE RowsFresh'
  <2>1. \A u \in Tx : RowsOf(u)' = RowsOf(u)
    BY <1>1 DEF BeginTx, RowsOf
  <2>2. committed' = committed /\ \A u \in Tx : txState'[u] # "done" => txState[u] # "done"
    BY <1>0, <1>1 DEF BeginTx, TypeOK
  <2> QED BY <2>1, <2>2 DEF RowsFresh
<1>2. ASSUME NEW t \in Tx, NEW e \in Event, InsertEvent(t, e) PROVE RowsFresh'
  <2>1. /\ txRows' = [txRows EXCEPT ![t] = Append(@, e)]
        /\ UNCHANGED <<txState, committed>>
        /\ e \notin committed
        /\ \A u \in Tx : e \notin RowsOf(u)
    BY <1>2 DEF InsertEvent
  <2>2. /\ txRows \in [Tx -> Seq(Event)]
        /\ txRows[t] \in Seq(Event)
    BY <1>0 DEF TypeOK
  <2>3. RowsOf(t)' = RowsOf(t) \cup {e}
    <3>1. \A x : IsIn(x, Append(txRows[t], e)) <=> x = e \/ IsIn(x, txRows[t])
      BY <2>2, IsInAppend
    <3>2. txRows'[t] = Append(txRows[t], e)
      BY <2>1, <2>2
    <3>3. \A x : x \in RowsOf(t)' <=> IsIn(x, Append(txRows[t], e))
      BY <3>2 DEF RowsOf, IsIn
    <3>4. \A x : x \in RowsOf(t) <=> IsIn(x, txRows[t])
      BY DEF RowsOf, IsIn
    <3> QED BY <3>1, <3>3, <3>4
  <2>4. \A u \in Tx : u # t => RowsOf(u)' = RowsOf(u)
    BY <2>1, <2>2 DEF RowsOf
  <2> QED BY <2>1, <2>3, <2>4 DEF RowsFresh
<1>3. ASSUME NEW t \in Tx, CommitTx(t) PROVE RowsFresh'
  <2>1. \A u \in Tx : RowsOf(u)' = RowsOf(u)
    BY <1>3 DEF CommitTx, RowsOf
  <2>2. \A u \in Tx : txState'[u] # "done" => u # t /\ txState[u] # "done"
    BY <1>0, <1>3 DEF CommitTx, TypeOK
  <2>3. committed' = committed \cup RowsOf(t)
    BY <1>3 DEF CommitTx
  <2> QED BY <2>1, <2>2, <2>3 DEF RowsFresh
<1>4. ASSUME NEW t \in Tx, RollbackTx(t) PROVE RowsFresh'
  <2>1. RowsOf(t)' = {} /\ \A u \in Tx : u # t => RowsOf(u)' = RowsOf(u)
    BY <1>0, <1>4 DEF RollbackTx, RowsOf, TypeOK
  <2>2. committed' = committed /\ \A u \in Tx : txState'[u] # "done" => txState[u] # "done"
    BY <1>0, <1>4 DEF RollbackTx, TypeOK
  <2> QED BY <2>1, <2>2 DEF RowsFresh
<1>5. ASSUME UNCHANGED <<txState, txRows, committed>> PROVE RowsFresh'
  BY <1>5 DEF RowsFresh, RowsOf
<1> QED
  <2>1. \A w \in Worker : SelectBatch(w) \/ Publish(w) \/ MarkPublished(w) \/ CommitBatch(w)
          => UNCHANGED <<txState, txRows, committed>>
    BY DEF SelectBatch, Publish, MarkPublished, CommitBatch, txVars
  <2>2. \A w \in Worker : PublishFails(w) \/ BatchFails(w)
          => UNCHANGED <<txState, txRows, committed>>
    BY DEF PublishFails, BatchFails, Rollback, txVars
  <2>3. \A w \in Worker : PublishRefused(w) \/ LoseProducer(w) \/ RestartProducer(w)
          => UNCHANGED <<txState, txRows, committed>>
    BY DEF PublishRefused, LoseProducer, RestartProducer, Rollback, txVars
  <2>4. \A c \in Consumer : LoseConsumer(c) \/ RestartConsumer(c)
          => UNCHANGED <<txState, txRows, committed>>
    BY DEF LoseConsumer, RestartConsumer, txVars
  <2>5. SetupTopology \/ Expire => UNCHANGED <<txState, txRows, committed>>
    BY DEF SetupTopology, Expire, txVars
  <2>6. \A c \in Consumer : Deliver(c) \/ HasProcessed(c) \/ Inner(c)
          => UNCHANGED <<txState, txRows, committed>>
    BY DEF Deliver, HasProcessed, Inner, txVars
  <2>7. \A c \in Consumer : MarkProcessed(c) \/ Ack(c) \/ Requeue(c)
          => UNCHANGED <<txState, txRows, committed>>
    BY DEF MarkProcessed, Ack, Requeue, txVars
  <2>8. UNCHANGED vars => UNCHANGED <<txState, txRows, committed>>
    BY DEF vars, txVars
  <2> QED BY <1>1, <1>2, <1>3, <1>4, <1>5, <2>1, <2>2, <2>5, <2>6, <2>7, <2>8,
             <2>3, <2>4, NextCases

-----------------------------------------------------------------------------
(* What is at the broker or beyond it belongs to a committed row, because  *)
(* the rows a worker locks do.                                             *)
LeaveInv ==
  /\ \A w \in Worker : lock[w] \subseteq committed
  /\ OnlyCommittedLeave

LEMMA LeaveStep == TypeInv /\ LeaveInv /\ [Next]_vars => LeaveInv'
<1> SUFFICES ASSUME TypeInv, LeaveInv, [Next]_vars PROVE LeaveInv'
  OBVIOUS
<1>0. TypeOK /\ HoldingOK
  BY DEF TypeInv
<1>1. ASSUME NEW t \in Tx, BeginTx(t) \/ CommitTx(t) \/ RollbackTx(t) PROVE LeaveInv'
  <2>1. committed \subseteq committed'
    BY <1>1 DEF BeginTx, CommitTx, RollbackTx
  <2>2. UNCHANGED <<lock, marked, queue, holding, effects, processed, dropped>>
    BY <1>1 DEF BeginTx, CommitTx, RollbackTx, workerVars, brokerVars, consumerVars
  <2> QED BY <2>1, <2>2 DEF LeaveInv, OnlyCommittedLeave, InQueue, IsIn, Held
<1>2. ASSUME NEW t \in Tx, NEW e \in Event, InsertEvent(t, e) PROVE LeaveInv'
  <2>1. UNCHANGED <<committed, lock, marked, queue, holding, effects, processed, dropped>>
    BY <1>2 DEF InsertEvent, workerVars, brokerVars, consumerVars
  <2> QED BY <2>1 DEF LeaveInv, OnlyCommittedLeave, InQueue, IsIn, Held
<1>3. ASSUME NEW e \in committed, BrokerAccepts(e),
             UNCHANGED <<committed, holding, effects, processed>>
      PROVE  OnlyCommittedLeave'
  <2>1. e \in Event /\ queue \in Seq(Event)
    BY <1>0 DEF TypeOK
  <2>2. \A f : InQueue(f)' => f = e \/ InQueue(f)
    BY <1>3, <2>1, IsInAppend DEF BrokerAccepts, InQueue
  <2>3. dropped' \subseteq dropped \cup {e}
    BY <1>3 DEF BrokerAccepts
  <2> QED BY <1>3, <2>2, <2>3 DEF LeaveInv, OnlyCommittedLeave, Held
<1>4. ASSUME UNCHANGED <<committed, brokerVars, holding, effects, processed>>
      PROVE  OnlyCommittedLeave'
  BY <1>4 DEF LeaveInv, OnlyCommittedLeave, InQueue, IsIn, Held, brokerVars
<1>5. ASSUME NEW w \in Worker, SelectBatch(w) PROVE LeaveInv'
  <2>1. Unlocked(Unpublished) \subseteq committed
    BY DEF Unlocked, Unpublished
  <2>2. PICK B \in SUBSET Unlocked(Unpublished) : lock' = [lock EXCEPT ![w] = B]
    BY <1>5 DEF SelectBatch
  <2>3. UNCHANGED <<committed, brokerVars, holding, effects, processed>>
    BY <1>5 DEF SelectBatch, txVars, consumerVars
  <2> QED BY <1>0, <2>1, <2>2, <2>3, <1>4 DEF LeaveInv, TypeOK
<1>6. ASSUME NEW w \in Worker, Publish(w) PROVE LeaveInv'
  <2>1. UNCHANGED <<committed, holding, effects, processed, lock>>
    BY <1>6 DEF Publish, txVars, consumerVars
  <2>2. \E e \in committed : BrokerAccepts(e)
    BY <1>6 DEF Publish, LeaveInv
  <2> QED BY <2>1, <2>2, <1>3 DEF LeaveInv
<1>7. ASSUME NEW w \in Worker, MarkPublished(w) \/ CommitBatch(w) PROVE LeaveInv'
  <2>1. UNCHANGED <<committed, brokerVars, holding, effects, processed>>
    BY <1>7 DEF MarkPublished, CommitBatch, txVars, consumerVars
  <2>2. lock' = lock \/ lock' = [lock EXCEPT ![w] = {}]
    BY <1>7 DEF MarkPublished, CommitBatch
  <2> QED BY <1>0, <2>1, <2>2, <1>4 DEF LeaveInv, TypeOK
<1>8. ASSUME NEW w \in Worker, PublishFails(w) \/ BatchFails(w) PROVE LeaveInv'
  <2>1. UNCHANGED <<committed, holding, effects, processed>>
    BY <1>8 DEF PublishFails, BatchFails, Rollback, txVars, consumerVars
  <2>2. lock' = [lock EXCEPT ![w] = {}]
    BY <1>8 DEF PublishFails, BatchFails, Rollback
  <2>3. UNCHANGED brokerVars \/ \E e \in committed : BrokerAccepts(e)
    BY <1>8 DEF PublishFails, BatchFails, LeaveInv
  <2>4. OnlyCommittedLeave'
    BY <2>1, <2>3, <1>3, <1>4
  <2> QED BY <1>0, <2>1, <2>2, <2>4 DEF LeaveInv, TypeOK
<1>9. ASSUME SetupTopology \/ Expire PROVE LeaveInv'
  <2>1. UNCHANGED <<committed, holding, effects, processed, lock>>
    BY <1>9 DEF SetupTopology, Expire, txVars, consumerVars, workerVars
  <2>2. CASE SetupTopology
    BY <2>1, <2>2 DEF SetupTopology, LeaveInv, OnlyCommittedLeave, InQueue, IsIn, Held
  <2>3. CASE Expire
    <3>1. /\ queue \in Seq(Event) /\ queue # <<>> /\ queue' = Tail(queue)
          /\ dropped' = dropped \cup {Head(queue)}
      BY <1>0, <2>3 DEF Expire, TypeOK
    <3>2. \A f : InQueue(f) <=> f = Head(queue) \/ InQueue(f)'
      BY <3>1, IsInTail DEF InQueue
    <3>3. Head(queue) \in Event
      BY <3>1
    <3> QED BY <2>1, <3>1, <3>2, <3>3 DEF LeaveInv, OnlyCommittedLeave, Held
  <2> QED BY <1>9, <2>2, <2>3
<1>10. ASSUME NEW c \in Consumer, Deliver(c) PROVE LeaveInv'
  <2>1. UNCHANGED <<committed, effects, processed, lock, dropped>>
    BY <1>10 DEF Deliver, txVars, workerVars
  <2>2. /\ queue \in Seq(Event) /\ queue # <<>> /\ queue' = Tail(queue)
        /\ holding' = [holding EXCEPT ![c] = Head(queue)]
    BY <1>0, <1>10 DEF Deliver, TypeOK
  <2>3. \A f : InQueue(f) <=> f = Head(queue) \/ InQueue(f)'
    BY <2>2, IsInTail DEF InQueue
  <2>4. \A f : Held(f)' => Held(f) \/ f = Head(queue)
    BY <1>0, <2>2 DEF Held, TypeOK
  <2> QED BY <2>1, <2>3, <2>4 DEF LeaveInv, OnlyCommittedLeave
<1>11. ASSUME NEW c \in Consumer, HasProcessed(c) \/ Ack(c) PROVE LeaveInv'
  <2>1. UNCHANGED <<committed, effects, processed, lock, dropped, queue>>
    BY <1>11 DEF HasProcessed, Ack, txVars, workerVars, brokerVars
  <2>2. holding' = holding \/ holding' = [holding EXCEPT ![c] = NoEvent]
    BY <1>11 DEF HasProcessed, Ack
  <2>3. \A f \in Event : Held(f)' => Held(f)
    BY <1>0, <2>2 DEF Held, TypeOK
  <2> QED BY <2>1, <2>3 DEF LeaveInv, OnlyCommittedLeave, InQueue, IsIn
<1>12. ASSUME NEW c \in Consumer, Inner(c) \/ MarkProcessed(c) PROVE LeaveInv'
  <2>1. UNCHANGED <<committed, lock, dropped, queue, holding>>
    BY <1>12 DEF Inner, MarkProcessed, txVars, workerVars, brokerVars
  <2>2. holding[c] \in committed
    <3>1. cpc[c] # "idle"
      BY <1>12 DEF Inner, MarkProcessed
    <3>2. holding[c] \in Event /\ Held(holding[c])
      BY <1>0, <3>1 DEF HoldingOK, Held
    <3> QED BY <3>2 DEF LeaveInv, OnlyCommittedLeave
  <2>3. processed' \subseteq processed \cup {holding[c]}
    BY <1>12 DEF Inner, MarkProcessed
  <2>4. \A f \in Event : effects'[f] = effects[f] \/ f = holding[c]
    BY <1>0, <1>12 DEF Inner, MarkProcessed, TypeOK
  <2> QED BY <2>1, <2>2, <2>3, <2>4 DEF LeaveInv, OnlyCommittedLeave, InQueue, IsIn, Held
<1>13. ASSUME NEW c \in Consumer, Requeue(c) PROVE LeaveInv'
  <2>1. UNCHANGED <<committed, effects, processed, lock, dropped>>
    BY <1>13 DEF Requeue, txVars, workerVars
  <2>2. /\ queue \in Seq(Event) /\ holding[c] \in Event
        /\ queue' = <<holding[c]>> \o queue \/ queue' = queue
        /\ holding' = [holding EXCEPT ![c] = NoEvent]
    BY <1>0, <1>13 DEF Requeue, TypeOK, HoldingOK
  <2>3. \A f : InQueue(f)' => Held(f) \/ InQueue(f)
    BY <2>2, IsInPrepend DEF InQueue, IsIn, Held
  <2>4. \A f \in Event : Held(f)' => Held(f)
    BY <1>0, <2>2 DEF Held, TypeOK
  <2> QED BY <2>1, <2>3, <2>4 DEF LeaveInv, OnlyCommittedLeave
<1>14. ASSUME NEW c \in Consumer, LoseConsumer(c) PROVE LeaveInv'
  <2>1. UNCHANGED <<committed, effects, processed, lock, dropped, holding>>
    BY <1>14 DEF LoseConsumer, txVars, workerVars, consumerVars
  <2>2. CASE cpc[c] = "idle"
    <3>1. queue' = queue
      BY <1>14, <2>2 DEF LoseConsumer
    <3> QED BY <2>1, <3>1 DEF LeaveInv, OnlyCommittedLeave, InQueue, IsIn, Held
  <2>3. CASE cpc[c] # "idle"
    <3>1. queue \in Seq(Event) /\ holding[c] \in Event /\ queue' = <<holding[c]>> \o queue
      BY <1>0, <1>14, <2>3 DEF LoseConsumer, TypeOK, HoldingOK
    <3>2. \A f : InQueue(f)' => Held(f) \/ InQueue(f)
      BY <3>1, IsInPrepend DEF InQueue, Held
    <3> QED BY <2>1, <3>2 DEF LeaveInv, OnlyCommittedLeave, Held
  <2> QED BY <2>2, <2>3
<1>15. ASSUME NEW c \in Consumer, RestartConsumer(c) PROVE LeaveInv'
  <2>1. UNCHANGED <<committed, effects, processed, lock, dropped, queue>>
    BY <1>15 DEF RestartConsumer, txVars, workerVars
  <2>2. \A f \in Event : Held(f)' => Held(f)
    BY <1>0, <1>15 DEF RestartConsumer, Held, TypeOK
  <2> QED BY <2>1, <2>2 DEF LeaveInv, OnlyCommittedLeave, InQueue, IsIn
<1>16. ASSUME NEW w \in Worker, PublishRefused(w) \/ LoseProducer(w) \/ RestartProducer(w)
       PROVE  LeaveInv'
  <2>1. UNCHANGED <<committed, effects, processed, dropped, queue, holding>>
    BY <1>16 DEF PublishRefused, LoseProducer, RestartProducer, Rollback, txVars,
                 brokerVars, consumerVars
  <2>2. lock' = lock \/ lock' = [lock EXCEPT ![w] = {}]
    BY <1>16 DEF PublishRefused, LoseProducer, RestartProducer, Rollback, workerVars
  <2>3. OnlyCommittedLeave'
    BY <2>1 DEF LeaveInv, OnlyCommittedLeave, InQueue, IsIn, Held
  <2> QED BY <1>0, <2>1, <2>2, <2>3 DEF LeaveInv, TypeOK
<1>17. ASSUME UNCHANGED vars PROVE LeaveInv'
  BY <1>17 DEF vars, txVars, workerVars, brokerVars, consumerVars,
               LeaveInv, OnlyCommittedLeave, InQueue, IsIn, Held
<1> QED BY <1>1, <1>2, <1>5, <1>6, <1>7, <1>8, <1>9, <1>10, <1>11, <1>12, <1>13, <1>17,
           <1>14, <1>15, <1>16, NextCases

-----------------------------------------------------------------------------
(* Where an event is once the broker has accepted it.  A message leaves    *)
(* the consumer's hands by acknowledgement only after it was recorded as   *)
(* processed, so an event that has got there stays there.                  *)
Reached(e) == InQueue(e) \/ Unacked(e) \/ e \in processed \/ e \in dropped
AckedProcessed == \A c \in Consumer : cpc[c] = "ack" => holding[c] \in processed

LEMMA AckedStep == TypeInv /\ AckedProcessed /\ [Next]_vars => AckedProcessed'
<1> SUFFICES ASSUME TypeInv, AckedProcessed, [Next]_vars PROVE AckedProcessed'
  OBVIOUS
<1>0. TypeOK
  BY DEF TypeInv
<1>1. ASSUME NEW c \in Consumer,
             Deliver(c) \/ HasProcessed(c) \/ Inner(c) \/ MarkProcessed(c) \/ Ack(c) \/ Requeue(c)
      PROVE  AckedProcessed'
  <2>1. \A d \in Consumer : d # c => cpc'[d] = cpc[d] /\ holding'[d] = holding[d]
    BY <1>0, <1>1 DEF Deliver, HasProcessed, Inner, MarkProcessed, Ack, Requeue, TypeOK
  <2>2. processed \subseteq processed'
    BY <1>1 DEF Deliver, HasProcessed, Inner, MarkProcessed, Ack, Requeue
  <2>3. cpc'[c] = "ack" => holding'[c] \in processed'
    BY <1>0, <1>1 DEF Deliver, HasProcessed, Inner, MarkProcessed, Ack, Requeue, TypeOK
  <2> QED BY <2>1, <2>2, <2>3 DEF AckedProcessed
<1>2. ASSUME UNCHANGED consumerVars PROVE AckedProcessed'
  BY <1>2 DEF AckedProcessed, consumerVars
<1>3. \A t \in Tx : BeginTx(t) \/ CommitTx(t) \/ RollbackTx(t) => UNCHANGED consumerVars
  BY DEF BeginTx, CommitTx, RollbackTx
<1>4. \A t \in Tx, e \in Event : InsertEvent(t, e) => UNCHANGED consumerVars
  BY DEF InsertEvent
<1>5. \A w \in Worker : SelectBatch(w) \/ Publish(w) \/ MarkPublished(w) \/ CommitBatch(w)
        => UNCHANGED consumerVars
  BY DEF SelectBatch, Publish, MarkPublished, CommitBatch
<1>6. \A w \in Worker : PublishFails(w) \/ BatchFails(w) => UNCHANGED consumerVars
  BY DEF PublishFails, BatchFails, Rollback
<1>7. \A w \in Worker : PublishRefused(w) \/ LoseProducer(w) \/ RestartProducer(w)
        => UNCHANGED consumerVars
  BY DEF PublishRefused, LoseProducer, RestartProducer, Rollback
<1>8. ASSUME NEW c \in Consumer, LoseConsumer(c) \/ RestartConsumer(c) PROVE AckedProcessed'
  <2>1. CASE LoseConsumer(c)
    BY <2>1, <1>2 DEF LoseConsumer
  <2>2. CASE RestartConsumer(c)
    BY <1>0, <2>2 DEF RestartConsumer, AckedProcessed, TypeOK
  <2> QED BY <1>8, <2>1, <2>2
<1>9. SetupTopology \/ Expire => UNCHANGED consumerVars
  BY DEF SetupTopology, Expire
<1>10. UNCHANGED vars => UNCHANGED consumerVars
  BY DEF vars
<1> QED BY <1>1, <1>2, <1>3, <1>4, <1>5, <1>6, <1>9, <1>10, <1>7, <1>8, NextCases

LEMMA ReachedStays ==
  ASSUME TypeInv, AckedProcessed, [Next]_vars, NEW e \in Event, Reached(e)
  PROVE  Reached(e)'
<1>0. TypeOK /\ HoldingOK /\ queue \in Seq(Event)
  BY DEF TypeInv, TypeOK
<1>1. ASSUME NEW f \in Event, BrokerAccepts(f), UNCHANGED <<holding, processed>>
      PROVE  Reached(e)'
  <2>1. InQueue(e) => InQueue(e)'
    BY <1>0, <1>1, IsInAppend DEF BrokerAccepts, InQueue
  <2>2. dropped \subseteq dropped' /\ UNCHANGED connected
    BY <1>1 DEF BrokerAccepts
  <2> QED BY <1>1, <2>1, <2>2 DEF Reached, Unacked
<1>2. ASSUME UNCHANGED <<brokerVars, holding>>, processed \subseteq processed'
      PROVE  Reached(e)'
  BY <1>2 DEF Reached, InQueue, IsIn, Unacked, brokerVars
<1>3. \A t \in Tx : BeginTx(t) \/ CommitTx(t) \/ RollbackTx(t) => Reached(e)'
  BY <1>2 DEF BeginTx, CommitTx, RollbackTx, consumerVars
<1>4. \A t \in Tx, f \in Event : InsertEvent(t, f) => Reached(e)'
  BY <1>2 DEF InsertEvent, consumerVars
<1>5. \A w \in Worker : SelectBatch(w) \/ Publish(w) \/ MarkPublished(w) \/ CommitBatch(w)
        => Reached(e)'
  <2>1. \A w \in Worker : SelectBatch(w) \/ MarkPublished(w) \/ CommitBatch(w) => Reached(e)'
    BY <1>2 DEF SelectBatch, MarkPublished, CommitBatch, consumerVars
  <2>2. \A w \in Worker : Publish(w) => Reached(e)'
    BY <1>0, <1>1 DEF Publish, consumerVars, TypeOK
  <2> QED BY <2>1, <2>2
<1>6. \A w \in Worker : PublishFails(w) \/ BatchFails(w) => Reached(e)'
  <2>1. \A w \in Worker : PublishFails(w) \/ BatchFails(w) =>
          /\ UNCHANGED <<holding, processed>>
          /\ UNCHANGED brokerVars \/ \E f \in Event : BrokerAccepts(f)
    BY <1>0 DEF PublishFails, BatchFails, Rollback, consumerVars, TypeOK
  <2> QED BY <2>1, <1>1, <1>2
<1>7. ASSUME SetupTopology \/ Expire PROVE Reached(e)'
  <2>1. CASE SetupTopology
    BY <2>1 DEF SetupTopology, Reached, InQueue, IsIn, Unacked, consumerVars
  <2>2. CASE Expire
    <3>1. InQueue(e) => e = Head(queue) \/ InQueue(e)'
      BY <1>0, <2>2, IsInTail DEF Expire, InQueue
    <3> QED BY <2>2, <3>1 DEF Expire, Reached, Unacked, consumerVars
  <2> QED BY <1>7, <2>1, <2>2
<1>8. ASSUME NEW c \in Consumer, Deliver(c) PROVE Reached(e)'
  <2>1. InQueue(e) => e = Head(queue) \/ InQueue(e)'
    BY <1>0, <1>8, IsInTail DEF Deliver, InQueue
  <2>2. holding'[c] = Head(queue) /\ \A d \in Consumer : d # c => holding'[d] = holding[d]
    BY <1>0, <1>8 DEF Deliver, TypeOK
  <2>3. holding[c] # e
    BY <1>0, <1>8 DEF Deliver, HoldingOK
  <2>4. c \in connected' /\ UNCHANGED <<connected, processed, dropped>>
    BY <1>8 DEF Deliver
  <2> QED BY <2>1, <2>2, <2>3, <2>4 DEF Reached, Unacked
<1>9. \A c \in Consumer : HasProcessed(c) \/ Inner(c) \/ MarkProcessed(c) => Reached(e)'
  BY <1>2 DEF HasProcessed, Inner, MarkProcessed
<1>10. ASSUME NEW c \in Consumer, Ack(c) PROVE Reached(e)'
  <2>1. UNCHANGED <<connected, queue, processed, dropped>>
    BY <1>10 DEF Ack, brokerVars
  <2>2. holding[c] \in processed /\ \A d \in Consumer : d # c => holding'[d] = holding[d]
    BY <1>0, <1>10 DEF Ack, AckedProcessed, TypeOK
  <2> QED BY <2>1, <2>2 DEF Reached, InQueue, IsIn, Unacked
<1>11. ASSUME NEW c \in Consumer, Requeue(c) PROVE Reached(e)'
  <2>1. /\ UNCHANGED <<connected, processed, dropped>>
        /\ \A d \in Consumer : d # c => holding'[d] = holding[d]
    BY <1>0, <1>11 DEF Requeue, TypeOK
  <2>2. CASE c \in connected
    <3>1. holding[c] \in Event /\ queue' = <<holding[c]>> \o queue
      BY <1>0, <1>11, <2>2 DEF Requeue, HoldingOK
    <3>2. e = holding[c] \/ InQueue(e) => InQueue(e)'
      BY <1>0, <3>1, IsInPrepend DEF InQueue
    <3> QED BY <2>1, <3>2 DEF Reached, Unacked
  <2>3. CASE c \notin connected
    <3>1. queue' = queue
      BY <1>11, <2>3 DEF Requeue
    <3> QED BY <2>1, <2>3, <3>1 DEF Reached, Unacked, InQueue, IsIn
  <2> QED BY <2>2, <2>3
<1>12. ASSUME NEW c \in Consumer, LoseConsumer(c) PROVE Reached(e)'
  <2>1. UNCHANGED <<holding, processed, dropped>> /\ connected' = connected \ {c}
    BY <1>12 DEF LoseConsumer, consumerVars
  <2>2. CASE cpc[c] = "idle"
    <3>1. queue' = queue /\ holding[c] # e
      BY <1>0, <1>12, <2>2 DEF LoseConsumer, HoldingOK
    <3> QED BY <2>1, <3>1 DEF Reached, Unacked, InQueue, IsIn
  <2>3. CASE cpc[c] # "idle"
    <3>1. holding[c] \in Event /\ queue' = <<holding[c]>> \o queue
      BY <1>0, <1>12, <2>3 DEF LoseConsumer, HoldingOK
    <3>2. e = holding[c] \/ InQueue(e) => InQueue(e)'
      BY <1>0, <3>1, IsInPrepend DEF InQueue
    <3> QED BY <2>1, <3>2 DEF Reached, Unacked
  <2> QED BY <2>2, <2>3
<1>13. ASSUME NEW c \in Consumer, RestartConsumer(c) PROVE Reached(e)'
  <2>1. /\ UNCHANGED <<queue, processed, dropped>>
        /\ c \notin connected /\ connected' = connected \cup {c}
        /\ \A d \in Consumer : d # c => holding'[d] = holding[d]
    BY <1>0, <1>13 DEF RestartConsumer, TypeOK
  <2> QED BY <2>1 DEF Reached, Unacked, InQueue, IsIn
<1>14. ASSUME NEW w \in Worker, PublishRefused(w) \/ LoseProducer(w) \/ RestartProducer(w)
       PROVE  Reached(e)'
  <2>1. UNCHANGED <<queue, processed, dropped, holding>>
    BY <1>14 DEF PublishRefused, LoseProducer, RestartProducer, Rollback, brokerVars,
                 consumerVars
  <2>2. connected \ {w} \subseteq connected'
    BY <1>14 DEF PublishRefused, LoseProducer, RestartProducer, brokerVars
  <2> QED BY <2>1, <2>2 DEF Reached, Unacked, InQueue, IsIn
<1>15. UNCHANGED vars => Reached(e)'
  BY <1>2 DEF vars, consumerVars
<1> QED BY <1>3, <1>4, <1>5, <1>6, <1>7, <1>8, <1>9, <1>10, <1>11, <1>15,
           <1>12, <1>13, <1>14, NextCases

-----------------------------------------------------------------------------
(* Every row a worker has marked, and the row it is about to mark, has     *)
(* reached the broker; so have the rows whose mark is committed.           *)
ReachInv ==
  /\ \A e \in published : Reached(e)
  /\ \A w \in Worker : \A e \in marked[w] : Reached(e)
  /\ \A w \in Worker : \A e \in lock[w] :
       wpc[w] = "mark" /\ IsCurrent(w, e) => Reached(e)

(* The order of the rows is strict: the loop has one current row. *)
LEMMA CurrentUnique ==
  ASSUME TypeInv, NEW w \in Worker, NEW e \in Event, NEW f \in Event,
         IsCurrent(w, e), IsCurrent(w, f)
  PROVE  e = f
<1>1. occurredAt[e] \in Nat /\ occurredAt[f] \in Nat /\ e \in Nat /\ f \in Nat
  BY DEF TypeInv, TypeOK
<1>2. ASSUME e # f PROVE FALSE
  <2>1. RowBefore(e, f) /\ RowBefore(f, e)
    BY <1>2 DEF IsCurrent
  <2> QED BY <1>1, <2>1 DEF RowBefore
<1> QED BY <1>2

LEMMA ReachStep ==
  TypeInv /\ LeaveInv /\ AckedProcessed /\ ReachInv /\ [Next]_vars => ReachInv'
<1> SUFFICES ASSUME TypeInv, LeaveInv, AckedProcessed, ReachInv, [Next]_vars
             PROVE  ReachInv'
  OBVIOUS
<1>0. TypeOK
  BY DEF TypeInv
<1>1. \A e \in Event : Reached(e) => Reached(e)'
  BY ReachedStays
<1>2. published \subseteq Event /\ \A w \in Worker : lock[w] \subseteq Event /\ marked[w] \subseteq Event
  BY <1>0 DEF TypeOK
<1>3. ASSUME UNCHANGED <<workerVars, occurredAt>> PROVE ReachInv'
  BY <1>1, <1>2, <1>3 DEF ReachInv, workerVars, IsCurrent, RowBefore
<1>4. ASSUME NEW w \in Worker, UNCHANGED occurredAt,
             \A v \in Worker : v # w =>
               wpc'[v] = wpc[v] /\ lock'[v] = lock[v] /\ marked'[v] = marked[v],
             \A e \in published' : e \in published \/ Reached(e)',
             \A e \in marked'[w] : e \in marked[w] \/ Reached(e)',
             \A e \in lock'[w] : wpc'[w] = "mark" /\ IsCurrent(w, e)' => Reached(e)'
      PROVE  ReachInv'
  <2>1. \A e \in published' : Reached(e)'
    BY <1>1, <1>2, <1>4 DEF ReachInv
  <2>2. \A v \in Worker : \A e \in marked'[v] : Reached(e)'
    BY <1>1, <1>2, <1>4 DEF ReachInv
  <2>3. \A v \in Worker : \A e \in lock'[v] : wpc'[v] = "mark" /\ IsCurrent(v, e)' => Reached(e)'
    <3>1. ASSUME NEW v \in Worker, v # w, NEW e \in lock'[v], wpc'[v] = "mark", IsCurrent(v, e)'
          PROVE  Reached(e)'
      <4>1. e \in lock[v] /\ wpc[v] = "mark" /\ IsCurrent(v, e)
        BY <1>4, <3>1 DEF IsCurrent, RowBefore
      <4> QED BY <4>1, <1>1, <1>2 DEF ReachInv
    <3> QED BY <3>1, <1>4
  <2> QED BY <2>1, <2>2, <2>3 DEF ReachInv
<1>5. \A t \in Tx : BeginTx(t) \/ CommitTx(t) \/ RollbackTx(t) => ReachInv'
  BY <1>3 DEF BeginTx, CommitTx, RollbackTx
<1>6. ASSUME NEW t \in Tx, NEW f \in Event, InsertEvent(t, f) PROVE ReachInv'
  <2>1. \A w \in Worker : f \notin lock[w]
    BY <1>6 DEF InsertEvent, LeaveInv
  <2>2. \A e \in Event : e # f => occurredAt'[e] = occurredAt[e]
    BY <1>0, <1>6 DEF InsertEvent, TypeOK
  <2>3. UNCHANGED workerVars
    BY <1>6 DEF InsertEvent
  <2>4. \A w \in Worker : \A e \in lock[w] : IsCurrent(w, e)' => IsCurrent(w, e)
    BY <1>2, <2>1, <2>2, <2>3 DEF IsCurrent, RowBefore, workerVars
  <2>5. \A e \in published' : Reached(e)'
    BY <1>1, <1>2, <2>3 DEF ReachInv, workerVars
  <2>6. \A w \in Worker : \A e \in marked'[w] : Reached(e)'
    BY <1>1, <1>2, <2>3 DEF ReachInv, workerVars
  <2>7. \A w \in Worker : \A e \in lock'[w] : wpc'[w] = "mark" /\ IsCurrent(w, e)' => Reached(e)'
    BY <1>1, <1>2, <2>3, <2>4 DEF ReachInv, workerVars
  <2> QED BY <2>5, <2>6, <2>7 DEF ReachInv
<1>7. ASSUME NEW w \in Worker, SelectBatch(w) PROVE ReachInv'
  <2>1. /\ wpc' = [wpc EXCEPT ![w] = "publish"]
        /\ UNCHANGED <<published, marked, occurredAt>>
        /\ \A v \in Worker : v # w => lock'[v] = lock[v]
    BY <1>0, <1>7 DEF SelectBatch, TypeOK, txVars
  <2> QED BY <1>0, <1>4, <2>1 DEF TypeOK
<1>8. ASSUME NEW w \in Worker, Publish(w) PROVE ReachInv'
  <2>1. PICK f \in lock[w] : IsCurrent(w, f) /\ BrokerAccepts(f)
    BY <1>8 DEF Publish
  <2>2. f \in Event /\ queue \in Seq(Event)
    BY <1>0, <1>2, <2>1 DEF TypeOK
  <2>3. Reached(f)'
    BY <2>1, <2>2, IsInAppend DEF BrokerAccepts, Reached, InQueue
  <2>4. /\ wpc' = [wpc EXCEPT ![w] = "mark"]
        /\ UNCHANGED <<published, lock, marked, occurredAt>>
    BY <1>8 DEF Publish, txVars
  <2>5. \A e \in lock[w] : IsCurrent(w, e)' => e = f
    <3>1. \A e \in lock[w] : IsCurrent(w, e)' => IsCurrent(w, e)
      BY <2>4 DEF IsCurrent, RowBefore
    <3> QED BY <3>1, <1>2, <2>1, CurrentUnique
  <2> QED BY <1>0, <1>4, <2>3, <2>4, <2>5 DEF TypeOK
<1>9. ASSUME NEW w \in Worker, MarkPublished(w) PROVE ReachInv'
  <2>1. PICK f \in lock[w] : /\ IsCurrent(w, f)
                             /\ marked' = [marked EXCEPT ![w] = @ \cup {f}]
                             /\ wpc' = [wpc EXCEPT ![w] = IF lock[w] \subseteq marked[w] \cup {f}
                                                          THEN "commit" ELSE "publish"]
    BY <1>9 DEF MarkPublished
  <2>2. Reached(f)'
    BY <1>1, <1>2, <1>9, <2>1 DEF ReachInv, MarkPublished
  <2>3. UNCHANGED <<published, lock, occurredAt>>
    BY <1>9 DEF MarkPublished, txVars
  <2> QED BY <1>0, <1>4, <2>1, <2>2, <2>3 DEF TypeOK
<1>10. ASSUME NEW w \in Worker, CommitBatch(w) PROVE ReachInv'
  <2>1. /\ published' = published \cup marked[w]
        /\ lock' = [lock EXCEPT ![w] = {}] /\ marked' = [marked EXCEPT ![w] = {}]
        /\ wpc' = [wpc EXCEPT ![w] = "idle"] /\ UNCHANGED occurredAt
    BY <1>10 DEF CommitBatch, txVars
  <2>2. \A e \in marked[w] : Reached(e)'
    BY <1>1, <1>2 DEF ReachInv
  <2> QED BY <1>0, <1>4, <2>1, <2>2 DEF TypeOK
<1>11. ASSUME NEW w \in Worker, PublishFails(w) \/ BatchFails(w) PROVE ReachInv'
  <2>1. /\ lock' = [lock EXCEPT ![w] = {}] /\ marked' = [marked EXCEPT ![w] = {}]
        /\ wpc' = [wpc EXCEPT ![w] = "idle"] /\ UNCHANGED <<published, occurredAt>>
    BY <1>11 DEF PublishFails, BatchFails, Rollback, txVars
  <2> QED BY <1>0, <1>4, <2>1 DEF TypeOK
<1>12. ASSUME NEW w \in Worker, PublishRefused(w) \/ RestartProducer(w) PROVE ReachInv'
  <2>1. /\ lock' = [lock EXCEPT ![w] = {}] /\ marked' = [marked EXCEPT ![w] = {}]
        /\ wpc' = [wpc EXCEPT ![w] = "idle"] /\ UNCHANGED <<published, occurredAt>>
    BY <1>12 DEF PublishRefused, RestartProducer, Rollback, txVars
  <2> QED BY <1>0, <1>4, <2>1 DEF TypeOK
<1>13. \A w \in Worker : LoseProducer(w) => ReachInv'
  BY <1>3 DEF LoseProducer, txVars
<1>14. \A c \in Consumer : LoseConsumer(c) \/ RestartConsumer(c) => ReachInv'
  BY <1>3 DEF LoseConsumer, RestartConsumer, txVars
<1>15. SetupTopology \/ Expire => ReachInv'
  BY <1>3 DEF SetupTopology, Expire, txVars
<1>16. \A c \in Consumer : Deliver(c) \/ HasProcessed(c) \/ Inner(c) => ReachInv'
  BY <1>3 DEF Deliver, HasProcessed, Inner, txVars
<1>17. \A c \in Consumer : MarkProcessed(c) \/ Ack(c) \/ Requeue(c) => ReachInv'
  BY <1>3 DEF MarkProcessed, Ack, Requeue, txVars
<1>18. UNCHANGED vars => ReachInv'
  BY <1>3 DEF vars, txVars
<1> QED BY <1>5, <1>6, <1>7, <1>8, <1>9, <1>10, <1>11, <1>15, <1>16, <1>17, <1>18,
           <1>12, <1>13, <1>14, NextCases

-----------------------------------------------------------------------------
(* The inductive invariant. *)
IInv == TypeInv /\ RowsFresh /\ LeaveInv /\ AckedProcessed /\ ReachInv

LEMMA Inductive == Spec => []IInv
<1>1. Init => IInv
  <2> SUFFICES ASSUME Init PROVE IInv
    OBVIOUS
  <2>1. TypeInv
    BY DEF Init, TypeInv, TypeOK, HoldingOK
  <2>2. RowsFresh
    BY DEF Init, RowsFresh, RowsOf
  <2>3. LeaveInv
    BY DEF Init, LeaveInv, OnlyCommittedLeave, InQueue, IsIn, Held
  <2>4. AckedProcessed /\ ReachInv
    BY DEF Init, AckedProcessed, ReachInv
  <2> QED BY <2>1, <2>2, <2>3, <2>4 DEF IInv
<1>2. IInv /\ [Next]_vars => IInv'
  BY TypeStep, FreshStep, LeaveStep, AckedStep, ReachStep DEF IInv
<1> QED BY <1>1, <1>2, PTL DEF Spec

(* No event recorded as published is lost between the outbox and the       *)
(* consumer's processed_events, but by the broker's own hand.              *)
THEOREM PublishedNotLost == Spec => []NoLoss
<1>1. IInv => NoLoss
  BY DEF IInv, ReachInv, Reached, NoLoss
<1> QED BY <1>1, Inductive, PTL

(* Only rows of committed transactions reach the broker and the consumer. *)
THEOREM UncommittedStay == Spec => []OnlyCommittedLeave
<1>1. IInv => OnlyCommittedLeave
  BY DEF IInv, LeaveInv
<1> QED BY <1>1, Inductive, PTL

(* The outbox, the broker and the idempotent consumer implement            *)
(* EventDelivery: a commit records a transaction's events together, a      *)
(* completed handler applies a recorded one, nothing else shows.           *)
THEOREM Refinement == Spec => ImplementsEventDelivery
<1>1. Init => Promise!Init
  BY DEF Init, Promise!Init
<1>2. IInv /\ [Next]_vars => [Promise!Next]_Promise!vars
  <2> SUFFICES ASSUME IInv, [Next]_vars PROVE [Promise!Next]_Promise!vars
    OBVIOUS
  <2>0. TypeOK /\ HoldingOK /\ RowsFresh /\ OnlyCommittedLeave
    BY DEF IInv, TypeInv, LeaveInv
  <2>1. ASSUME NEW t \in Tx, CommitTx(t) PROVE Promise!Next
    <3>1. txRows[t] \in Seq(Event) /\ txRows[t] # <<>>
      BY <2>0, <2>1 DEF CommitTx, TypeOK
    <3>2. RowsOf(t) \subseteq Event /\ RowsOf(t) # {}
      <4>1. 1 \in DOMAIN txRows[t] /\ \A i \in DOMAIN txRows[t] : txRows[t][i] \in Event
        BY <3>1
      <4>2. txRows[t][1] \in RowsOf(t)
        BY <4>1 DEF RowsOf
      <4> QED BY <4>1, <4>2 DEF RowsOf
    <3>3. RowsOf(t) \cap committed = {}
      BY <2>0, <2>1 DEF CommitTx, RowsFresh
    <3>4. Promise!Record(RowsOf(t))
      BY <2>1, <3>2, <3>3 DEF CommitTx, Promise!Record, consumerVars
    <3> QED BY <3>2, <3>4 DEF Promise!Next
  <2>2. ASSUME NEW c \in Consumer, Inner(c) PROVE Promise!Next
    <3>1. holding[c] \in Event /\ Held(holding[c])
      BY <2>0, <2>2 DEF Inner, HoldingOK, Held
    <3>2. Promise!Apply(holding[c])
      BY <2>0, <2>2, <3>1 DEF Inner, OnlyCommittedLeave, Promise!Apply, txVars
    <3> QED BY <3>1, <3>2 DEF Promise!Next
  <2>3. ASSUME UNCHANGED <<committed, effects>> PROVE UNCHANGED Promise!vars
    BY <2>3 DEF Promise!vars
  <2>4. \A t \in Tx : BeginTx(t) \/ RollbackTx(t) => UNCHANGED <<committed, effects>>
    BY DEF BeginTx, RollbackTx, consumerVars
  <2>5. \A t \in Tx, e \in Event : InsertEvent(t, e) => UNCHANGED <<committed, effects>>
    BY DEF InsertEvent, consumerVars
  <2>6. \A w \in Worker : SelectBatch(w) \/ Publish(w) \/ MarkPublished(w) \/ CommitBatch(w)
          => UNCHANGED <<committed, effects>>
    BY DEF SelectBatch, Publish, MarkPublished, CommitBatch, txVars, consumerVars
  <2>7. \A w \in Worker : PublishFails(w) \/ BatchFails(w) => UNCHANGED <<committed, effects>>
    BY DEF PublishFails, BatchFails, Rollback, txVars, consumerVars
  <2>8. \A w \in Worker : PublishRefused(w) \/ LoseProducer(w) \/ RestartProducer(w)
           => UNCHANGED <<committed, effects>>
    BY DEF PublishRefused, LoseProducer, RestartProducer, Rollback, txVars, consumerVars
  <2>9. \A c \in Consumer : LoseConsumer(c) \/ RestartConsumer(c)
           => UNCHANGED <<committed, effects>>
    BY DEF LoseConsumer, RestartConsumer, txVars, consumerVars
  <2>10. SetupTopology \/ Expire => UNCHANGED <<committed, effects>>
    BY DEF SetupTopology, Expire, txVars, consumerVars
  <2>11. \A c \in Consumer : Deliver(c) \/ HasProcessed(c) => UNCHANGED <<committed, effects>>
    BY DEF Deliver, HasProcessed, txVars
  <2>12. \A c \in Consumer : MarkProcessed(c) \/ Ack(c) \/ Requeue(c)
           => UNCHANGED <<committed, effects>>
    BY DEF MarkProcessed, Ack, Requeue, txVars
  <2>13. UNCHANGED vars => UNCHANGED <<committed, effects>>
    BY DEF vars, txVars, consumerVars
  <2> QED BY <2>1, <2>2, <2>3, <2>4, <2>5, <2>6, <2>7, <2>10, <2>11, <2>12, <2>13,
             <2>8, <2>9, NextCases
<1> QED BY <1>1, <1>2, Inductive, PTL DEF Spec, ImplementsEventDelivery, Promise!Spec

-----------------------------------------------------------------------------
(* A single consumer repeats an effect only by a failure of its own: an    *)
(* event not yet in processed_events has had at most one effect per        *)
(* failure, and one more while its record is being written; and a handler  *)
(* that outlives its connection has had the failure that pays for it.      *)
HoldingEffect(e) == \E c \in Consumer \cap connected : holding[c] = e /\ cpc[c] = "record"
OrphanBefore(e) ==
  \E c \in Consumer \ connected : holding[c] = e /\ cpc[c] \in {"check", "apply"}

AbsorbInv ==
  /\ \A c \in Consumer : cpc[c] \in {"apply", "record"} => holding[c] \notin processed
  /\ \A e \in Event :
       /\ effects[e] <= 1 + consumerFaults
       /\ e \notin processed /\ ~ HoldingEffect(e) => effects[e] <= consumerFaults
       /\ e \notin processed /\ OrphanBefore(e) => effects[e] + 1 <= consumerFaults

LEMMA AbsorbStep ==
  ASSUME \A c, d \in Consumer : c = d, IInv, AbsorbInv, [Next]_vars
  PROVE  AbsorbInv'
<1>0. TypeOK /\ HoldingOK /\ AckedProcessed
  BY DEF IInv, TypeInv
<1>1. ASSUME UNCHANGED <<holding, cpc, processed, effects, consumerFaults>>,
             connected' \cap Consumer = connected \cap Consumer
      PROVE  AbsorbInv'
  <2>1. Consumer \ connected' = Consumer \ connected
    BY <1>1
  <2>2. \A e : HoldingEffect(e)' <=> HoldingEffect(e)
    BY <1>1 DEF HoldingEffect
  <2>3. \A e : OrphanBefore(e)' <=> OrphanBefore(e)
    BY <1>1, <2>1 DEF OrphanBefore
  <2> QED BY <1>1, <2>2, <2>3 DEF AbsorbInv
<1>2. \A t \in Tx : BeginTx(t) \/ CommitTx(t) \/ RollbackTx(t) => AbsorbInv'
  BY <1>1 DEF BeginTx, CommitTx, RollbackTx, brokerVars, consumerVars
<1>3. \A t \in Tx, e \in Event : InsertEvent(t, e) => AbsorbInv'
  BY <1>1 DEF InsertEvent, brokerVars, consumerVars
<1>4. \A w \in Worker : SelectBatch(w) \/ Publish(w) \/ MarkPublished(w) \/ CommitBatch(w)
        => AbsorbInv'
  BY <1>1 DEF SelectBatch, Publish, MarkPublished, CommitBatch, BrokerAccepts, brokerVars,
              consumerVars
<1>5. \A w \in Worker : PublishFails(w) \/ BatchFails(w) => AbsorbInv'
  BY <1>1 DEF PublishFails, BatchFails, Rollback, BrokerAccepts, brokerVars, consumerVars
<1>6. \A w \in Worker : PublishRefused(w) \/ LoseProducer(w) \/ RestartProducer(w) => AbsorbInv'
  BY <1>1 DEF PublishRefused, LoseProducer, RestartProducer, Rollback, brokerVars,
              consumerVars
<1>7. SetupTopology \/ Expire => AbsorbInv'
  BY <1>1 DEF SetupTopology, Expire, consumerVars
<1>8. UNCHANGED vars => AbsorbInv'
  BY <1>1 DEF vars, brokerVars, consumerVars
<1>9. ASSUME NEW c \in Consumer, Deliver(c) PROVE AbsorbInv'
  <2>1. /\ cpc[c] = "idle" /\ c \in connected
        /\ cpc' = [cpc EXCEPT ![c] = "check"]
        /\ UNCHANGED <<connected, processed, effects, consumerFaults>>
    BY <1>9 DEF Deliver
  <2>2. cpc'[c] = "check" /\ \A d \in Consumer : d = c
    BY <1>0, <2>1 DEF TypeOK
  <2>3. \A e : ~ HoldingEffect(e) /\ ~ HoldingEffect(e)' /\ ~ OrphanBefore(e)'
    BY <2>1, <2>2 DEF HoldingEffect, OrphanBefore
  <2> QED BY <2>1, <2>2, <2>3 DEF AbsorbInv
<1>10. ASSUME NEW c \in Consumer, HasProcessed(c) PROVE AbsorbInv'
  <2>1. /\ cpc[c] = "check"
        /\ cpc' = [cpc EXCEPT ![c] = IF holding[c] \in processed THEN "ack" ELSE "apply"]
        /\ UNCHANGED <<holding, connected, processed, effects, consumerFaults>>
    BY <1>10 DEF HasProcessed, brokerVars
  <2>2. /\ cpc'[c] = IF holding[c] \in processed THEN "ack" ELSE "apply"
        /\ \A d \in Consumer : d = c
    BY <1>0, <2>1 DEF TypeOK
  <2>3. \A e : ~ HoldingEffect(e) /\ ~ HoldingEffect(e)'
    BY <2>1, <2>2 DEF HoldingEffect
  <2>4. \A e : OrphanBefore(e)' => OrphanBefore(e)
    BY <2>1, <2>2 DEF OrphanBefore
  <2> QED BY <2>1, <2>2, <2>3, <2>4 DEF AbsorbInv
<1>11. ASSUME NEW c \in Consumer, Inner(c) PROVE AbsorbInv'
  <2>1. /\ cpc[c] = "apply" /\ cpc' = [cpc EXCEPT ![c] = "record"]
        /\ effects' = [effects EXCEPT ![holding[c]] = @ + 1]
        /\ UNCHANGED <<holding, connected, processed, consumerFaults>>
    BY <1>11 DEF Inner, brokerVars
  <2>2. cpc'[c] = "record" /\ \A d \in Consumer : d = c
    BY <1>0, <2>1 DEF TypeOK
  <2>3. \A e : ~ HoldingEffect(e) /\ ~ OrphanBefore(e)'
    BY <2>1, <2>2 DEF HoldingEffect, OrphanBefore
  <2>4. holding[c] \in Event /\ holding[c] \notin processed
    BY <1>0, <2>1 DEF HoldingOK, AbsorbInv
  <2>5. effects[holding[c]] <= consumerFaults /\ effects \in [Event -> Nat]
    BY <1>0, <2>3, <2>4 DEF AbsorbInv, TypeOK
  <2>6. CASE c \in connected
    <3>2. ASSUME NEW e \in Event PROVE
            /\ effects'[e] <= 1 + consumerFaults
            /\ e \notin processed /\ ~ HoldingEffect(e)' => effects'[e] <= consumerFaults
      <4>1. CASE e = holding[c]
        <5>1. effects'[e] = effects[e] + 1
          BY <2>1, <2>5, <4>1, <2>4
        <5>2. HoldingEffect(e)'
          BY <2>1, <2>2, <2>6, <4>1 DEF HoldingEffect
        <5>3. effects[e] \in Nat /\ effects[e] <= consumerFaults /\ consumerFaults \in Nat
          BY <1>0, <2>5, <4>1 DEF TypeOK
        <5> QED BY <5>1, <5>2, <5>3
      <4>2. CASE e # holding[c]
        <5>1. effects'[e] = effects[e]
          BY <2>1, <2>5, <4>2
        <5> QED BY <5>1, <2>3 DEF AbsorbInv
      <4> QED BY <4>1, <4>2
    <3> QED BY <2>1, <2>2, <2>3, <2>4, <3>2 DEF AbsorbInv
  <2>7. CASE c \notin connected
    <3>1. OrphanBefore(holding[c])
      BY <2>1, <2>7 DEF OrphanBefore
    <3>2. ASSUME NEW e \in Event PROVE
            /\ effects'[e] <= 1 + consumerFaults
            /\ e \notin processed => effects'[e] <= consumerFaults
      <4>1. CASE e = holding[c]
        <5>1. effects'[e] = effects[e] + 1
          BY <2>1, <2>5, <4>1, <2>4
        <5>2. effects[e] + 1 <= consumerFaults
          BY <2>4, <3>1, <4>1 DEF AbsorbInv
        <5> QED BY <1>0, <5>1, <5>2 DEF TypeOK
      <4>2. CASE e # holding[c]
        <5>1. effects'[e] = effects[e]
          BY <2>1, <2>5, <4>2
        <5> QED BY <5>1, <2>3 DEF AbsorbInv
      <4> QED BY <4>1, <4>2
    <3> QED BY <2>1, <2>2, <2>3, <2>4, <3>2 DEF AbsorbInv
  <2> QED BY <2>6, <2>7
<1>12. ASSUME NEW c \in Consumer, MarkProcessed(c) PROVE AbsorbInv'
  <2>1. /\ cpc[c] = "record" /\ cpc' = [cpc EXCEPT ![c] = "ack"]
        /\ processed' = processed \cup {holding[c]}
        /\ UNCHANGED <<holding, connected, effects, consumerFaults>>
    BY <1>12 DEF MarkProcessed, brokerVars
  <2>2. cpc'[c] = "ack" /\ \A d \in Consumer : d = c
    BY <1>0, <2>1 DEF TypeOK
  <2>3. \A e : ~ OrphanBefore(e)' /\ (HoldingEffect(e) => e = holding[c])
    BY <2>1, <2>2 DEF HoldingEffect, OrphanBefore
  <2> QED BY <2>1, <2>2, <2>3 DEF AbsorbInv
<1>13. ASSUME NEW c \in Consumer, Ack(c) PROVE AbsorbInv'
  <2>1. /\ cpc[c] = "ack" /\ cpc' = [cpc EXCEPT ![c] = "idle"]
        /\ UNCHANGED <<connected, processed, effects, consumerFaults>>
    BY <1>13 DEF Ack, brokerVars
  <2>2. cpc'[c] = "idle" /\ \A d \in Consumer : d = c
    BY <1>0, <2>1 DEF TypeOK
  <2>3. \A e : ~ OrphanBefore(e)' /\ ~ HoldingEffect(e)
    BY <2>1, <2>2 DEF HoldingEffect, OrphanBefore
  <2> QED BY <2>1, <2>2, <2>3 DEF AbsorbInv
<1>14. ASSUME NEW c \in Consumer, Requeue(c) PROVE AbsorbInv'
  <2>1. /\ cpc' = [cpc EXCEPT ![c] = "idle"]
        /\ consumerFaults' = consumerFaults + 1
        /\ UNCHANGED <<connected, processed, effects>>
    BY <1>14 DEF Requeue, ConsumerFault
  <2>2. cpc'[c] = "idle" /\ \A d \in Consumer : d = c
    BY <1>0, <2>1 DEF TypeOK
  <2>3. \A e : ~ OrphanBefore(e)'
    BY <2>1, <2>2 DEF OrphanBefore
  <2>4. ASSUME NEW e \in Event PROVE
          effects'[e] <= 1 + consumerFaults' /\ effects'[e] <= consumerFaults'
    BY <1>0, <2>1 DEF AbsorbInv, TypeOK
  <2> QED BY <2>2, <2>3, <2>4 DEF AbsorbInv
<1>15. ASSUME NEW c \in Consumer, LoseConsumer(c) PROVE AbsorbInv'
  <2>1. /\ c \in connected /\ connected' = connected \ {c}
        /\ consumerFaults' = consumerFaults + 1
        /\ UNCHANGED <<holding, cpc, processed, effects>>
    BY <1>15 DEF LoseConsumer, ConsumerFault, consumerVars
  <2>2. \A d \in Consumer : d = c
    OBVIOUS
  <2>3. \A e : OrphanBefore(e)' => ~ HoldingEffect(e)
    BY <2>1, <2>2 DEF OrphanBefore, HoldingEffect
  <2>4. ASSUME NEW e \in Event PROVE
          /\ effects'[e] <= 1 + consumerFaults' /\ effects'[e] <= consumerFaults'
          /\ e \notin processed /\ OrphanBefore(e)' => effects'[e] + 1 <= consumerFaults'
    BY <1>0, <2>1, <2>3 DEF AbsorbInv, TypeOK
  <2> QED BY <2>1, <2>2, <2>4 DEF AbsorbInv
<1>16. ASSUME NEW c \in Consumer, RestartConsumer(c) PROVE AbsorbInv'
  <2>1. /\ c \notin connected /\ cpc' = [cpc EXCEPT ![c] = "idle"]
        /\ UNCHANGED <<processed, effects, consumerFaults>>
    BY <1>16 DEF RestartConsumer
  <2>2. cpc'[c] = "idle" /\ \A d \in Consumer : d = c
    BY <1>0, <2>1 DEF TypeOK
  <2>3. \A e : ~ OrphanBefore(e)' /\ ~ HoldingEffect(e)
    BY <2>1, <2>2 DEF HoldingEffect, OrphanBefore
  <2> QED BY <2>1, <2>2, <2>3 DEF AbsorbInv
<1> QED BY <1>2, <1>3, <1>4, <1>5, <1>6, <1>7, <1>8, <1>9, <1>10, <1>11, <1>12, <1>13,
           <1>14, <1>15, <1>16, NextCases

(* With one consumer, whatever the workers repeat is absorbed: an event    *)
(* has one effect, and one more for each failure of the consumer.          *)
THEOREM OneConsumerAbsorbs ==
  ASSUME \A c, d \in Consumer : c = d
  PROVE  Spec => []DuplicatesAbsorbed
<1>1. Init => AbsorbInv
  BY DEF Init, AbsorbInv, HoldingEffect, OrphanBefore
<1>2. IInv /\ AbsorbInv /\ [Next]_vars => AbsorbInv'
  BY AbsorbStep
<1>3. AbsorbInv => DuplicatesAbsorbed
  BY DEF AbsorbInv, DuplicatesAbsorbed
<1> QED BY <1>1, <1>2, <1>3, Inductive, PTL DEF Spec

-----------------------------------------------------------------------------
(* The order of the queue against a relation R between events: whatever    *)
(* comes before an event of the queue under R is in T or ahead of it.      *)
Ordered(q, T, R) ==
  \A j \in DOMAIN q, e \in Event :
    <<e, q[j]>> \in R => e \in T \/ \E i \in DOMAIN q : i < j /\ q[i] = e

LEMMA OrderedWeaken ==
  ASSUME NEW q \in Seq(Event), NEW T, NEW U, T \subseteq U, NEW R, NEW Q, Ordered(q, T, R),
         \A j \in DOMAIN q, e \in Event : <<e, q[j]>> \in Q => <<e, q[j]>> \in R
  PROVE  Ordered(q, U, Q)
BY DEF Ordered

LEMMA OrderedAppend ==
  ASSUME NEW q \in Seq(Event), NEW x \in Event, NEW T, NEW R, Ordered(q, T, R),
         \A e \in Event : <<e, x>> \in R => e \in T \/ IsIn(e, q)
  PROVE  Ordered(Append(q, x), T, R)
<1> DEFINE r == Append(q, x)
<1>1. /\ DOMAIN r = 1 .. Len(q) + 1 /\ DOMAIN q = 1 .. Len(q) /\ Len(q) \in Nat
      /\ r[Len(q) + 1] = x /\ \A i \in 1 .. Len(q) : r[i] = q[i]
  OBVIOUS
<1> HIDE DEF r
<1>2. ASSUME NEW j \in DOMAIN r, NEW e \in Event, <<e, r[j]>> \in R
      PROVE  e \in T \/ \E i \in DOMAIN r : i < j /\ r[i] = e
  <2>1. CASE j = Len(q) + 1
    <3>1. e \in T \/ \E i \in DOMAIN q : q[i] = e
      BY <1>1, <1>2, <2>1 DEF IsIn
    <3> QED BY <1>1, <2>1, <3>1
  <2>2. CASE j \in 1 .. Len(q)
    <3>1. e \in T \/ \E i \in DOMAIN q : i < j /\ q[i] = e
      BY <1>1, <1>2, <2>2 DEF Ordered
    <3> QED BY <1>1, <2>2, <3>1
  <2> QED BY <1>1, <2>1, <2>2
<1>3. Ordered(r, T, R)
  BY <1>2 DEF Ordered
<1> QED BY <1>3 DEF r

LEMMA OrderedTail ==
  ASSUME NEW q \in Seq(Event), q # <<>>, NEW T, NEW U, NEW R, Ordered(q, T, R),
         T \cup {Head(q)} \subseteq U
  PROVE  Ordered(Tail(q), U, R)
<1> DEFINE r == Tail(q)
<1>1. /\ DOMAIN r = 1 .. Len(q) - 1 /\ DOMAIN q = 1 .. Len(q) /\ Len(q) \in Nat \ {0}
      /\ Head(q) = q[1] /\ \A i \in 1 .. Len(q) - 1 : r[i] = q[i + 1]
  OBVIOUS
<1> HIDE DEF r
<1>2. ASSUME NEW j \in DOMAIN r, NEW e \in Event, <<e, r[j]>> \in R
      PROVE  e \in U \/ \E i \in DOMAIN r : i < j /\ r[i] = e
  <2>1. j + 1 \in DOMAIN q /\ r[j] = q[j + 1]
    BY <1>1
  <2>2. e \in T \/ \E i \in DOMAIN q : i < j + 1 /\ q[i] = e
    BY <1>2, <2>1 DEF Ordered
  <2>3. ASSUME NEW i \in DOMAIN q, i < j + 1, q[i] = e, i # 1
        PROVE  \E k \in DOMAIN r : k < j /\ r[k] = e
    <3>1. i - 1 \in DOMAIN r /\ i - 1 < j /\ (i - 1) + 1 = i
      BY <1>1, <2>3
    <3>2. r[i - 1] = e
      BY <1>1, <2>3, <3>1
    <3> QED BY <3>1, <3>2
  <2> QED BY <1>1, <2>2, <2>3
<1>3. Ordered(r, U, R)
  BY <1>2 DEF Ordered
<1> QED BY <1>3 DEF r

LEMMA OrderedPrepend ==
  ASSUME NEW q \in Seq(Event), NEW x \in Event, NEW T, NEW U, NEW R, Ordered(q, T, R),
         T \subseteq U \cup {x}, \A e \in Event : <<e, x>> \in R => e \in U
  PROVE  Ordered(<<x>> \o q, U, R)
<1> DEFINE r == <<x>> \o q
<1>1. /\ DOMAIN r = 1 .. Len(q) + 1 /\ DOMAIN q = 1 .. Len(q) /\ Len(q) \in Nat
      /\ r[1] = x /\ \A i \in 1 .. Len(q) : r[i + 1] = q[i]
  OBVIOUS
<1> HIDE DEF r
<1>2. ASSUME NEW j \in DOMAIN r, NEW e \in Event, <<e, r[j]>> \in R
      PROVE  e \in U \/ \E i \in DOMAIN r : i < j /\ r[i] = e
  <2>1. CASE j = 1
    BY <1>1, <1>2, <2>1
  <2>2. CASE j # 1
    <3>1. j - 1 \in DOMAIN q /\ (j - 1) + 1 = j
      BY <1>1, <2>2
    <3>2. r[j] = q[j - 1]
      BY <1>1, <3>1
    <3>3. e \in T \/ \E i \in DOMAIN q : i < j - 1 /\ q[i] = e
      BY <1>2, <3>1, <3>2 DEF Ordered
    <3>4. CASE e = x
      BY <1>1, <2>2, <3>4
    <3>5. ASSUME NEW i \in DOMAIN q, i < j - 1, q[i] = e
          PROVE  \E k \in DOMAIN r : k < j /\ r[k] = e
      <4>1. i + 1 \in DOMAIN r /\ i + 1 < j /\ r[i + 1] = e
        BY <1>1, <3>5
      <4> QED BY <4>1
    <3> QED BY <3>3, <3>4, <3>5
  <2> QED BY <2>1, <2>2
<1>3. Ordered(r, U, R)
  BY <1>2 DEF Ordered
<1> QED BY <1>3 DEF r

-----------------------------------------------------------------------------
(* What a worker has locked is unpublished, no other worker has it, and    *)
(* between two batches it has nothing.                                     *)
LockInv ==
  /\ \A w \in Worker : wpc[w] = "idle" => lock[w] = {}
  /\ \A w \in Worker : marked[w] \subseteq lock[w]
  /\ \A w \in Worker : lock[w] \cap published = {}
  /\ \A v, w \in Worker : v # w => lock[v] \cap lock[w] = {}

LEMMA LockStep == TypeInv /\ LockInv /\ [Next]_vars => LockInv'
<1> SUFFICES ASSUME TypeInv, LockInv, [Next]_vars PROVE LockInv'
  OBVIOUS
<1>0. /\ wpc \in [Worker -> {"idle", "publish", "mark", "commit"}]
      /\ lock \in [Worker -> SUBSET Event] /\ marked \in [Worker -> SUBSET Event]
  BY DEF TypeInv, TypeOK
<1>1. ASSUME UNCHANGED workerVars PROVE LockInv'
  BY <1>1 DEF LockInv, workerVars
<1>2. \A t \in Tx : BeginTx(t) \/ CommitTx(t) \/ RollbackTx(t) => LockInv'
  BY <1>1 DEF BeginTx, CommitTx, RollbackTx
<1>3. \A t \in Tx, e \in Event : InsertEvent(t, e) => LockInv'
  BY <1>1 DEF InsertEvent
<1>4. ASSUME NEW w \in Worker, SelectBatch(w) PROVE LockInv'
  <2>1. PICK B \in SUBSET Unlocked(Unpublished) : lock' = [lock EXCEPT ![w] = B]
    BY <1>4 DEF SelectBatch
  <2>2. /\ B \cap published = {} /\ \A v \in Worker : B \cap lock[v] = {}
        /\ wpc[w] = "idle" /\ wpc' = [wpc EXCEPT ![w] = "publish"]
        /\ UNCHANGED <<published, marked>>
    BY <1>4 DEF SelectBatch, Unlocked, Unpublished
  <2>3. \A v \in Worker : lock'[v] = IF v = w THEN B ELSE lock[v]
    BY <1>0, <2>1
  <2>4. marked[w] = {} /\ \A v \in Worker : wpc'[v] = "idle" => v # w /\ wpc[v] = "idle"
    BY <1>0, <2>2 DEF LockInv
  <2> QED BY <2>2, <2>3, <2>4 DEF LockInv
<1>5. ASSUME NEW w \in Worker, Publish(w) PROVE LockInv'
  BY <1>0, <1>5 DEF Publish, LockInv
<1>6. ASSUME NEW w \in Worker, MarkPublished(w) PROVE LockInv'
  BY <1>0, <1>6 DEF MarkPublished, LockInv
<1>7. ASSUME NEW w \in Worker, CommitBatch(w) PROVE LockInv'
  <2>1. /\ published' = published \cup marked[w]
        /\ \A v \in Worker : lock'[v] = (IF v = w THEN {} ELSE lock[v])
        /\ \A v \in Worker : marked'[v] = (IF v = w THEN {} ELSE marked[v])
        /\ \A v \in Worker : v # w => wpc'[v] = wpc[v]
    BY <1>0, <1>7 DEF CommitBatch
  <2> QED BY <2>1 DEF LockInv
<1>8. ASSUME NEW w \in Worker, Rollback(w) PROVE LockInv'
  BY <1>0, <1>8 DEF Rollback, LockInv
<1>9. \A w \in Worker : PublishFails(w) \/ BatchFails(w) => LockInv'
  BY <1>8 DEF PublishFails, BatchFails
<1>10. \A w \in Worker : PublishRefused(w) \/ LoseProducer(w) \/ RestartProducer(w) => LockInv'
  BY <1>1, <1>8 DEF PublishRefused, LoseProducer, RestartProducer
<1>11. SetupTopology \/ Expire => LockInv'
  BY <1>1 DEF SetupTopology, Expire
<1>12. \A c \in Consumer : Deliver(c) \/ HasProcessed(c) \/ Inner(c) => LockInv'
  BY <1>1 DEF Deliver, HasProcessed, Inner
<1>13. \A c \in Consumer : MarkProcessed(c) \/ Ack(c) \/ Requeue(c) => LockInv'
  BY <1>1 DEF MarkProcessed, Ack, Requeue
<1>14. \A c \in Consumer : LoseConsumer(c) \/ RestartConsumer(c) => LockInv'
  BY <1>1 DEF LoseConsumer, RestartConsumer
<1>15. UNCHANGED vars => LockInv'
  BY <1>1 DEF vars
<1> QED BY <1>2, <1>3, <1>4, <1>5, <1>6, <1>7, <1>9, <1>10, <1>11, <1>12, <1>13, <1>14,
           <1>15, NextCases

-----------------------------------------------------------------------------
(* The clock of the database: a row's occurred_at is the start of its      *)
(* transaction and so before its commit, and no clock reading is ahead.    *)
ClockInv ==
  /\ \A t \in Tx : txStart[t] <= clock
  /\ \A e \in Event : occurredAt[e] <= clock
  /\ \A e \in committed : occurredAt[e] < committedAt[e]

(* Only the producing transactions change the outbox's rows. *)
LEMMA TxCases ==
  ASSUME NEW P, [Next]_vars,
         \A t \in Tx : BeginTx(t) \/ CommitTx(t) \/ RollbackTx(t) => P,
         \A t \in Tx, e \in Event : InsertEvent(t, e) => P,
         UNCHANGED txVars => P
  PROVE  P
<1>1. \A w \in Worker : SelectBatch(w) \/ Publish(w) \/ MarkPublished(w) \/ CommitBatch(w)
        => UNCHANGED txVars
  BY DEF SelectBatch, Publish, MarkPublished, CommitBatch
<1>2. \A w \in Worker : PublishFails(w) \/ BatchFails(w) => UNCHANGED txVars
  BY DEF PublishFails, BatchFails, Rollback
<1>3. \A w \in Worker : PublishRefused(w) \/ LoseProducer(w) \/ RestartProducer(w)
        => UNCHANGED txVars
  BY DEF PublishRefused, LoseProducer, RestartProducer, Rollback
<1>4. SetupTopology \/ Expire => UNCHANGED txVars
  BY DEF SetupTopology, Expire
<1>5. \A c \in Consumer : Deliver(c) \/ HasProcessed(c) \/ Inner(c) => UNCHANGED txVars
  BY DEF Deliver, HasProcessed, Inner
<1>6. \A c \in Consumer : MarkProcessed(c) \/ Ack(c) \/ Requeue(c) => UNCHANGED txVars
  BY DEF MarkProcessed, Ack, Requeue
<1>7. \A c \in Consumer : LoseConsumer(c) \/ RestartConsumer(c) => UNCHANGED txVars
  BY DEF LoseConsumer, RestartConsumer
<1>8. UNCHANGED vars => UNCHANGED txVars
  BY DEF vars
<1> QED BY <1>1, <1>2, <1>3, <1>4, <1>5, <1>6, <1>7, <1>8, NextCases

LEMMA ClockStep ==
  ASSUME TypeInv, ClockInv, [Next]_vars
  PROVE  ClockInv'
<1>0. TypeOK
  BY DEF TypeInv
<1>1. ASSUME NEW t \in Tx, BeginTx(t) PROVE ClockInv'
  BY <1>0, <1>1 DEF BeginTx, ClockInv, TypeOK
<1>2. ASSUME NEW t \in Tx, NEW f \in Event, InsertEvent(t, f) PROVE ClockInv'
  <2>1. /\ f \notin committed /\ UNCHANGED <<clock, txStart, committed, committedAt>>
        /\ occurredAt' = [occurredAt EXCEPT ![f] = txStart[t]]
    BY <1>2 DEF InsertEvent
  <2>2. occurredAt \in [Event -> Nat] /\ committed \subseteq Event
    BY <1>0 DEF TypeOK
  <2>3. \A e \in Event : occurredAt'[e] = IF e = f THEN txStart[t] ELSE occurredAt[e]
    BY <2>1, <2>2
  <2> QED BY <2>1, <2>2, <2>3 DEF ClockInv
<1>3. ASSUME NEW t \in Tx, CommitTx(t) PROVE ClockInv'
  <2>1. /\ clock' = clock + 1 /\ committed' = committed \cup RowsOf(t)
        /\ committedAt' = [e \in Event |-> IF e \in RowsOf(t) THEN clock + 1 ELSE committedAt[e]]
        /\ UNCHANGED <<txStart, occurredAt>>
    BY <1>3 DEF CommitTx
  <2>2. /\ clock \in Nat /\ txStart \in [Tx -> Nat] /\ occurredAt \in [Event -> Nat]
        /\ committed' \subseteq Event
    <3>1. TypeOK'
      BY TypeStep DEF TypeInv
    <3> QED BY <1>0, <3>1 DEF TypeOK
  <2>3. \A e \in committed' : occurredAt[e] < committedAt'[e]
    BY <2>1, <2>2 DEF ClockInv
  <2> QED BY <2>1, <2>2, <2>3 DEF ClockInv
<1>4. ASSUME UNCHANGED txVars PROVE ClockInv'
  BY <1>4 DEF ClockInv, txVars
<1>5. \A t \in Tx : RollbackTx(t) => ClockInv'
  BY DEF RollbackTx, ClockInv
<1> QED BY <1>1, <1>2, <1>3, <1>4, <1>5, TxCases

(* Once two events are committed their order is fixed: a transaction that  *)
(* commits now precedes nothing that has begun.                            *)
LEMMA HappenedStays ==
  ASSUME IInv, ClockInv, [Next]_vars, NEW e \in Event, NEW f \in committed,
         HappenedBefore(e, f)'
  PROVE  HappenedBefore(e, f)
<1>0. TypeOK /\ RowsFresh
  BY DEF IInv, TypeInv
<1>1. CASE UNCHANGED <<committed, committedAt, occurredAt>>
  BY <1>1 DEF HappenedBefore
<1>2. ASSUME NEW t \in Tx, NEW g \in Event, InsertEvent(t, g) PROVE HappenedBefore(e, f)
  <2>1. /\ g \notin committed /\ UNCHANGED <<committed, committedAt>>
        /\ occurredAt' = [occurredAt EXCEPT ![g] = txStart[t]]
    BY <1>2 DEF InsertEvent
  <2>2. occurredAt'[f] = occurredAt[f]
    BY <1>0, <2>1 DEF TypeOK
  <2> QED BY <2>1, <2>2 DEF HappenedBefore
<1>3. ASSUME NEW t \in Tx, CommitTx(t) PROVE HappenedBefore(e, f)
  <2>1. /\ committed' = committed \cup RowsOf(t) /\ UNCHANGED occurredAt
        /\ committedAt' = [g \in Event |-> IF g \in RowsOf(t) THEN clock + 1 ELSE committedAt[g]]
    BY <1>3 DEF CommitTx
  <2>2. /\ f \in Event /\ clock \in Nat /\ occurredAt[f] \in Nat
        /\ occurredAt[f] <= clock
    BY <1>0 DEF TypeOK, ClockInv
  <2>3. e \in committed' /\ committedAt'[e] < occurredAt[f]
    BY <2>1 DEF HappenedBefore
  <2>4. e \notin RowsOf(t)
    BY <2>1, <2>2, <2>3
  <2> QED BY <2>1, <2>3, <2>4 DEF HappenedBefore
<1>4. \A t \in Tx : BeginTx(t) \/ RollbackTx(t) => UNCHANGED <<committed, committedAt, occurredAt>>
  BY DEF BeginTx, RollbackTx
<1>5. UNCHANGED txVars => UNCHANGED <<committed, committedAt, occurredAt>>
  BY DEF txVars
<1> QED BY <1>1, <1>2, <1>3, <1>4, <1>5, TxCases

(* An event that an event in the batch, in the queue or at the consumer    *)
(* depends on is in the batch too, or has reached the broker; ahead of it  *)
(* in the queue, or at the consumer; and has had its effect, or been       *)
(* discarded.                                                              *)
Done(e) == effects[e] > 0 \/ e \in dropped
Begun == {e \in Event : Done(e) \/ Unacked(e)}
Before == {p \in Event \X Event : HappenedBefore(p[1], p[2])}

EffectRecorded ==
  /\ \A e \in processed : effects[e] > 0
  /\ \A c \in Consumer : cpc[c] \in {"record", "ack"} => effects[holding[c]] > 0
BatchCausal ==
  \A w \in Worker : \A f \in lock[w], e \in Event :
    HappenedBefore(e, f) => e \in published \cup lock[w]
HeldCausal ==
  \A c \in Consumer, e \in Event :
    holding[c] \in Event /\ HappenedBefore(e, holding[c]) => Done(e)

CausalInv ==
  EffectRecorded /\ BatchCausal /\ Ordered(queue, Begun, Before) /\ HeldCausal /\ CausalOrder

LEMMA EffectStep == IInv /\ EffectRecorded /\ [Next]_vars => EffectRecorded'
<1> SUFFICES ASSUME IInv, EffectRecorded, [Next]_vars PROVE EffectRecorded'
  OBVIOUS
<1>0. /\ holding \in [Consumer -> Event \cup {NoEvent}] /\ HoldingOK
      /\ cpc \in [Consumer -> {"idle", "check", "apply", "record", "ack"}]
      /\ effects \in [Event -> Nat] /\ processed \subseteq Event
  BY DEF IInv, TypeInv, TypeOK
<1>1. ASSUME UNCHANGED consumerVars PROVE EffectRecorded'
  BY <1>1 DEF EffectRecorded, consumerVars
<1>2. \A t \in Tx : BeginTx(t) \/ CommitTx(t) \/ RollbackTx(t) => EffectRecorded'
  BY <1>1 DEF BeginTx, CommitTx, RollbackTx
<1>3. \A t \in Tx, e \in Event : InsertEvent(t, e) => EffectRecorded'
  BY <1>1 DEF InsertEvent
<1>4. \A w \in Worker : SelectBatch(w) \/ Publish(w) \/ MarkPublished(w) \/ CommitBatch(w)
        => EffectRecorded'
  BY <1>1 DEF SelectBatch, Publish, MarkPublished, CommitBatch
<1>5. \A w \in Worker : PublishFails(w) \/ BatchFails(w) => EffectRecorded'
  BY <1>1 DEF PublishFails, BatchFails, Rollback
<1>6. \A w \in Worker : PublishRefused(w) \/ LoseProducer(w) \/ RestartProducer(w)
        => EffectRecorded'
  BY <1>1 DEF PublishRefused, LoseProducer, RestartProducer, Rollback
<1>7. SetupTopology \/ Expire => EffectRecorded'
  BY <1>1 DEF SetupTopology, Expire
<1>8. ASSUME NEW c \in Consumer, Inner(c) PROVE EffectRecorded'
  <2>1. /\ holding[c] \in Event /\ effects' = [effects EXCEPT ![holding[c]] = @ + 1]
        /\ cpc' = [cpc EXCEPT ![c] = "record"] /\ UNCHANGED <<holding, processed>>
    BY <1>0, <1>8 DEF Inner, HoldingOK
  <2>2. \A e \in Event : effects'[e] = IF e = holding[c] THEN effects[e] + 1 ELSE effects[e]
    BY <1>0, <2>1
  <2>3. effects'[holding[c]] > 0 /\ \A e \in Event : effects[e] > 0 => effects'[e] > 0
    <3>1. ASSUME NEW e \in Event PROVE effects'[e] >= effects[e] /\ effects[e] \in Nat
      BY <1>0, <2>2
    <3>2. effects'[holding[c]] > 0
      <4>1. effects'[holding[c]] = effects[holding[c]] + 1 /\ effects[holding[c]] \in Nat
        BY <2>1, <2>2, <3>1
      <4> QED BY <4>1
    <3>3. \A e \in Event : effects'[e] \in Nat
      BY <1>0, <2>2
    <3> QED BY <3>1, <3>2, <3>3
  <2>4. \A d \in Consumer : cpc[d] \in {"record", "ack"} => holding[d] \in Event
    BY <1>0 DEF HoldingOK
  <2>5. \A e \in processed' : effects'[e] > 0
    BY <1>0, <2>1, <2>3 DEF EffectRecorded
  <2>6. \A d \in Consumer : cpc'[d] \in {"record", "ack"} => effects'[holding'[d]] > 0
    BY <1>0, <2>1, <2>3, <2>4 DEF EffectRecorded
  <2> QED BY <2>5, <2>6 DEF EffectRecorded
<1>9. ASSUME NEW c \in Consumer, Deliver(c) \/ HasProcessed(c) PROVE EffectRecorded'
  BY <1>0, <1>9 DEF Deliver, HasProcessed, EffectRecorded
<1>10. ASSUME NEW c \in Consumer, MarkProcessed(c) \/ Ack(c) \/ Requeue(c) PROVE EffectRecorded'
  BY <1>0, <1>10 DEF MarkProcessed, Ack, Requeue, EffectRecorded
<1>11. ASSUME NEW c \in Consumer, LoseConsumer(c) \/ RestartConsumer(c) PROVE EffectRecorded'
  BY <1>0, <1>11 DEF LoseConsumer, RestartConsumer, EffectRecorded, consumerVars
<1>12. UNCHANGED vars => EffectRecorded'
  BY <1>1 DEF vars
<1> QED BY <1>2, <1>3, <1>4, <1>5, <1>6, <1>7, <1>8, <1>9, <1>10, <1>11, <1>12, NextCases

(* A single worker locks the first rows there are, and what precedes a row *)
(* sorts before it.                                                        *)
LEMMA BatchStep ==
  ASSUME \A v, w \in Worker : v = w, IInv, LockInv, ClockInv, BatchCausal, [Next]_vars
  PROVE  BatchCausal'
<1>0. TypeOK /\ \A w \in Worker : lock[w] \subseteq committed
  BY DEF IInv, TypeInv, LeaveInv
<1>1. ASSUME published \subseteq published', \A w \in Worker : lock'[w] = lock[w] \/ lock'[w] = {}
      PROVE  BatchCausal'
  <2> SUFFICES ASSUME NEW w \in Worker, NEW f \in lock'[w], NEW e \in Event,
                      HappenedBefore(e, f)'
               PROVE  e \in published' \cup lock'[w]
    BY DEF BatchCausal
  <2>1. f \in lock[w] /\ lock'[w] = lock[w] /\ f \in committed
    BY <1>0, <1>1
  <2>2. HappenedBefore(e, f)
    BY <2>1, HappenedStays
  <2> QED BY <1>1, <2>1, <2>2 DEF BatchCausal
<1>2. ASSUME NEW w \in Worker, SelectBatch(w) PROVE BatchCausal'
  <2> DEFINE ready == Unlocked(Unpublished)
  <2>1. PICK B \in SUBSET ready : IsFirstBatch(B, ready) /\ lock' = [lock EXCEPT ![w] = B]
    BY <1>2 DEF SelectBatch
  <2>2. wpc[w] = "idle" /\ lock'[w] = B /\ UNCHANGED <<txVars, published>>
    BY <1>0, <1>2, <2>1 DEF SelectBatch, TypeOK
  <2> SUFFICES ASSUME NEW f \in B, NEW e \in Event, HappenedBefore(e, f)', e \notin published,
                      e \notin B
               PROVE  FALSE
    BY <2>2 DEF BatchCausal
  <2>3. e \in committed /\ f \in committed /\ committedAt[e] < occurredAt[f]
    BY <2>2 DEF HappenedBefore, txVars
  <2>4. /\ occurredAt[e] < committedAt[e] /\ f \in Event /\ occurredAt[f] \in Nat
        /\ occurredAt[e] \in Nat /\ committedAt[e] \in Nat
    BY <1>0, <2>3 DEF ClockInv, TypeOK
  <2>5. CASE e \in ready
    <3>1. RowBefore(f, e)
      BY <2>1, <2>5 DEF IsFirstBatch
    <3> QED BY <2>3, <2>4, <3>1 DEF RowBefore
  <2>6. CASE e \in lock[w]
    BY <2>2, <2>6 DEF LockInv
  <2>7. e \in ready \/ e \in lock[w]
    <3>1. e \in Unpublished
      BY <2>3 DEF Unpublished
    <3> QED BY <3>1 DEF Unlocked
  <2> QED BY <2>5, <2>6, <2>7
<1>3. ASSUME UNCHANGED workerVars PROVE BatchCausal'
  BY <1>1, <1>3 DEF workerVars
<1>4. ASSUME NEW w \in Worker, Publish(w) \/ MarkPublished(w) \/ CommitBatch(w)
      PROVE  BatchCausal'
  BY <1>0, <1>1, <1>4 DEF Publish, MarkPublished, CommitBatch, TypeOK
<1>5. ASSUME NEW w \in Worker, Rollback(w) PROVE BatchCausal'
  BY <1>0, <1>1, <1>5 DEF Rollback, TypeOK
<1>6. \A t \in Tx : BeginTx(t) \/ CommitTx(t) \/ RollbackTx(t) => BatchCausal'
  BY <1>3 DEF BeginTx, CommitTx, RollbackTx
<1>7. \A t \in Tx, e \in Event : InsertEvent(t, e) => BatchCausal'
  BY <1>3 DEF InsertEvent
<1>8. \A w \in Worker : PublishFails(w) \/ BatchFails(w) => BatchCausal'
  BY <1>5 DEF PublishFails, BatchFails
<1>9. \A w \in Worker : PublishRefused(w) \/ LoseProducer(w) \/ RestartProducer(w)
        => BatchCausal'
  BY <1>3, <1>5 DEF PublishRefused, LoseProducer, RestartProducer
<1>10. SetupTopology \/ Expire => BatchCausal'
  BY <1>3 DEF SetupTopology, Expire
<1>11. \A c \in Consumer : Deliver(c) \/ HasProcessed(c) \/ Inner(c) => BatchCausal'
  BY <1>3 DEF Deliver, HasProcessed, Inner
<1>12. \A c \in Consumer : MarkProcessed(c) \/ Ack(c) \/ Requeue(c) => BatchCausal'
  BY <1>3 DEF MarkProcessed, Ack, Requeue
<1>13. \A c \in Consumer : LoseConsumer(c) \/ RestartConsumer(c) => BatchCausal'
  BY <1>3 DEF LoseConsumer, RestartConsumer
<1>14. UNCHANGED vars => BatchCausal'
  BY <1>3 DEF vars
<1> QED BY <1>2, <1>4, <1>6, <1>7, <1>8, <1>9, <1>10, <1>11, <1>12, <1>13, <1>14, NextCases

(* What precedes the row a single worker is about to publish has reached   *)
(* the broker: it is published, or marked earlier in the same batch.       *)
LEMMA PredecessorsBegun ==
  ASSUME IInv, ClockInv, EffectRecorded, BatchCausal, NEW w \in Worker, NEW x \in lock[w],
         IsCurrent(w, x), NEW e \in Event, HappenedBefore(e, x)
  PROVE  e \in Begun \/ IsIn(e, queue)
<1>0. TypeOK /\ ReachInv
  BY DEF IInv, TypeInv
<1>1. e \in published \cup lock[w]
  BY DEF BatchCausal
<1>2. ASSUME e \notin published PROVE e \in marked[w]
  <2>1. x \in Event /\ committedAt[e] < occurredAt[x] /\ occurredAt[e] < committedAt[e]
    BY <1>0 DEF TypeOK, HappenedBefore, ClockInv
  <2>2. occurredAt[e] \in Nat /\ occurredAt[x] \in Nat /\ committedAt[e] \in Nat
    BY <1>0, <2>1 DEF TypeOK
  <2>3. e # x /\ ~ RowBefore(x, e)
    BY <2>1, <2>2 DEF RowBefore
  <2> QED BY <1>1, <1>2, <2>3 DEF IsCurrent
<1>3. Reached(e)
  BY <1>0, <1>2 DEF ReachInv
<1> QED BY <1>3 DEF Reached, Begun, Done, EffectRecorded, InQueue

LEMMA CausalStep ==
  ASSUME \A v, w \in Worker : v = w, \A c, d \in Consumer : c = d,
         IInv, LockInv, ClockInv, CausalInv, [Next]_vars
  PROVE  CausalInv'
<1>0. TypeOK /\ HoldingOK /\ OnlyCommittedLeave
  BY DEF IInv, TypeInv, LeaveInv
<1>1. EffectRecorded' /\ BatchCausal'
  BY EffectStep, BatchStep DEF CausalInv
<1>2. /\ queue \in Seq(Event) /\ \A j \in DOMAIN queue : queue[j] \in committed
      /\ committed \subseteq Event
  <2>1. queue \in Seq(Event) /\ committed \subseteq Event
    BY <1>0 DEF TypeOK
  <2>2. ASSUME NEW j \in DOMAIN queue PROVE queue[j] \in committed
    <3>1. queue[j] \in Event /\ InQueue(queue[j])
      BY <2>1 DEF InQueue, IsIn
    <3> QED BY <1>0, <3>1 DEF OnlyCommittedLeave
  <2> QED BY <2>1, <2>2
<1>3. Ordered(queue, Begun, Before')
  <2>1. \A j \in DOMAIN queue, e \in Event : <<e, queue[j]>> \in Before' => <<e, queue[j]>> \in Before
    BY <1>2, HappenedStays DEF Before
  <2> QED BY <1>2, <2>1, OrderedWeaken DEF CausalInv
<1>4. \A f \in Event : effects[f] > 0 => f \in committed
  BY <1>0 DEF OnlyCommittedLeave
<1>5. \A c \in Consumer : holding[c] \in Event => holding[c] \in committed
  BY <1>0 DEF OnlyCommittedLeave, Held
(* a step after which what was begun still is, and no event has its first effect *)
<1>6. ASSUME \A e \in Event : Done(e) => Done(e)', effects' = effects,
             Ordered(queue', Begun', Before'), HeldCausal'
      PROVE  CausalInv'
  <2>1. CausalOrder'
    <3> SUFFICES ASSUME NEW e \in Event, NEW f \in Event, HappenedBefore(e, f)', effects[f] > 0
                 PROVE  Done(e)'
      BY <1>6 DEF CausalOrder, Done
    <3>1. HappenedBefore(e, f)
      BY <1>4, HappenedStays
    <3> QED BY <1>6, <3>1 DEF CausalInv, CausalOrder, Done
  <2> QED BY <1>1, <1>6, <2>1 DEF CausalInv
(* the same consumer holds the same event or lets go of it *)
<1>7. ASSUME \A e \in Event : Done(e) => Done(e)',
             \A c \in Consumer : holding'[c] = holding[c] \/ holding'[c] = NoEvent
      PROVE  HeldCausal'
  <2> SUFFICES ASSUME NEW c \in Consumer, NEW e \in Event, NEW f \in Event,
                      holding'[c] = f, HappenedBefore(e, f)'
               PROVE  Done(e)'
    BY DEF HeldCausal, HappenedBefore
  <2>1. f = holding[c] /\ f \in committed
    BY <1>5, <1>7
  <2>2. HappenedBefore(e, f)
    BY <2>1, HappenedStays
  <2> QED BY <1>7, <2>1, <2>2 DEF CausalInv, HeldCausal
<1>8. ASSUME UNCHANGED <<queue, holding, effects>>, dropped \subseteq dropped',
             connected' \cap Consumer = connected \cap Consumer
      PROVE  CausalInv'
  <2>1. \A e \in Event : Done(e) => Done(e)'
    BY <1>8 DEF Done
  <2>2. Begun \subseteq Begun'
    BY <1>8, <2>1 DEF Begun, Unacked
  <2>3. Ordered(queue, Begun', Before')
    BY <1>2, <1>3, <2>2, OrderedWeaken
  <2>4. Ordered(queue', Begun', Before')
    BY <1>8, <2>3
  <2> QED BY <1>6, <1>7, <1>8, <2>1, <2>4
<1>9. ASSUME NEW w \in Worker, NEW x \in lock[w], IsCurrent(w, x), BrokerAccepts(x),
             UNCHANGED consumerVars
      PROVE  CausalInv'
  <2>1. UNCHANGED <<connected, holding, effects>>
    BY <1>9 DEF BrokerAccepts, consumerVars
  <2>2. CASE bound
    <3>1. queue' = Append(queue, x) /\ dropped' = dropped /\ x \in committed
      BY <1>9, <2>2 DEF BrokerAccepts, IInv, LeaveInv
    <3>2. \A e \in Event : <<e, x>> \in Before' => e \in Begun \/ IsIn(e, queue)
      BY <1>9, <3>1, HappenedStays, PredecessorsBegun DEF Before, CausalInv
    <3>3. Begun' = Begun /\ \A e \in Event : Done(e) => Done(e)'
      BY <2>1, <3>1 DEF Begun, Done, Unacked
    <3>4. Ordered(queue', Begun, Before')
      BY <1>2, <1>3, <3>1, <3>2, OrderedAppend
    <3> QED BY <1>6, <1>7, <2>1, <3>3, <3>4
  <2>3. CASE ~ bound
    BY <1>8, <1>9, <2>1, <2>3 DEF BrokerAccepts
  <2> QED BY <2>2, <2>3
<1>10. \A t \in Tx : BeginTx(t) \/ CommitTx(t) \/ RollbackTx(t) => CausalInv'
  BY <1>8 DEF BeginTx, CommitTx, RollbackTx, brokerVars, consumerVars
<1>11. \A t \in Tx, e \in Event : InsertEvent(t, e) => CausalInv'
  BY <1>8 DEF InsertEvent, brokerVars, consumerVars
<1>12. \A w \in Worker : SelectBatch(w) \/ Publish(w) \/ MarkPublished(w) \/ CommitBatch(w)
         => CausalInv'
  BY <1>8, <1>9 DEF SelectBatch, Publish, MarkPublished, CommitBatch, brokerVars, consumerVars
<1>13. \A w \in Worker : PublishFails(w) \/ BatchFails(w) => CausalInv'
  BY <1>8, <1>9 DEF PublishFails, BatchFails, Rollback, brokerVars, consumerVars
<1>14. \A w \in Worker : PublishRefused(w) \/ LoseProducer(w) \/ RestartProducer(w) => CausalInv'
  BY <1>8 DEF PublishRefused, LoseProducer, RestartProducer, Rollback, brokerVars, consumerVars
<1>15. ASSUME SetupTopology PROVE CausalInv'
  BY <1>8, <1>15 DEF SetupTopology, consumerVars
<1>16. ASSUME Expire PROVE CausalInv'
  <2>1. /\ queue # <<>> /\ queue' = Tail(queue) /\ dropped' = dropped \cup {Head(queue)}
        /\ Head(queue) \in Event /\ UNCHANGED <<connected, holding, effects>>
    BY <1>2, <1>16 DEF Expire, consumerVars
  <2>2. \A e \in Event : Done(e) => Done(e)'
    BY <2>1 DEF Done
  <2>3. Begun \cup {Head(queue)} \subseteq Begun'
    BY <2>1 DEF Begun, Done, Unacked
  <2>4. Ordered(queue', Begun', Before')
    BY <1>2, <1>3, <2>1, <2>3, OrderedTail
  <2> QED BY <1>6, <1>7, <2>1, <2>2, <2>4
<1>17. ASSUME NEW c \in Consumer, Deliver(c) PROVE CausalInv'
  <2>1. /\ cpc[c] = "idle" /\ c \in connected /\ queue # <<>> /\ queue' = Tail(queue)
        /\ holding' = [holding EXCEPT ![c] = Head(queue)]
        /\ UNCHANGED <<connected, dropped, effects>>
    BY <1>17 DEF Deliver
  <2>2. /\ holding[c] = NoEvent /\ holding'[c] = Head(queue) /\ Head(queue) \in Event
        /\ \A d \in Consumer : d = c
    BY <1>0, <1>2, <2>1 DEF HoldingOK, TypeOK
  <2>3. \A e \in Event : ~ Unacked(e) /\ (Done(e) <=> Done(e)')
    BY <2>1, <2>2 DEF Unacked, Done
  <2>4. Begun \cup {Head(queue)} \subseteq Begun'
    BY <2>1, <2>2, <2>3 DEF Begun, Unacked
  <2>5. Ordered(queue', Begun', Before')
    BY <1>2, <1>3, <2>1, <2>4, OrderedTail
  <2>6. HeldCausal'
    <3> SUFFICES ASSUME NEW e \in Event, NEW f \in Event, f = Head(queue),
                        HappenedBefore(e, f)'
                 PROVE  Done(e)'
      BY <2>2 DEF HeldCausal, HappenedBefore
    <3>1. <<e, f>> \in Before'
      BY DEF Before
    <3>2. f = queue[1] /\ DOMAIN queue = 1 .. Len(queue) /\ Len(queue) \in Nat \ {0}
      BY <1>2, <2>1
    <3>3. e \in Begun
      BY <1>3, <3>1, <3>2 DEF Ordered
    <3> QED BY <2>3, <3>3 DEF Begun
  <2> QED BY <1>6, <2>1, <2>3, <2>5, <2>6
<1>18. \A c \in Consumer : HasProcessed(c) \/ MarkProcessed(c) => CausalInv'
  BY <1>8 DEF HasProcessed, MarkProcessed, brokerVars
<1>19. ASSUME NEW c \in Consumer, Inner(c) PROVE CausalInv'
  <2>1. /\ holding[c] \in committed /\ effects' = [effects EXCEPT ![holding[c]] = @ + 1]
        /\ UNCHANGED <<queue, connected, dropped, holding>>
    BY <1>0, <1>5, <1>19 DEF Inner, HoldingOK, brokerVars
  <2>2. \A e \in Event : effects[e] > 0 => effects'[e] > 0
    BY <1>0, <2>1 DEF TypeOK
  <2>3. \A e \in Event : Done(e) => Done(e)'
    BY <2>1, <2>2 DEF Done
  <2>4. Begun \subseteq Begun'
    BY <2>1, <2>3 DEF Begun, Unacked
  <2>5. Ordered(queue', Begun', Before')
    BY <1>2, <1>3, <2>1, <2>4, OrderedWeaken
  <2>6. CausalOrder'
    <3> SUFFICES ASSUME NEW e \in Event, NEW f \in Event, HappenedBefore(e, f)', effects'[f] > 0
                 PROVE  Done(e)'
      BY DEF CausalOrder, Done
    <3>1. effects[f] > 0 \/ f = holding[c]
      BY <1>0, <2>1 DEF TypeOK
    <3>2. HappenedBefore(e, f)
      BY <1>4, <2>1, <3>1, HappenedStays
    <3> QED BY <2>3, <3>1, <3>2 DEF CausalInv, CausalOrder, HeldCausal, Done
  <2> QED BY <1>1, <1>7, <2>1, <2>3, <2>5, <2>6 DEF CausalInv
<1>20. ASSUME NEW c \in Consumer, Ack(c) PROVE CausalInv'
  <2>1. /\ cpc[c] = "ack" /\ holding' = [holding EXCEPT ![c] = NoEvent]
        /\ UNCHANGED <<queue, connected, dropped, effects>>
    BY <1>20 DEF Ack, brokerVars
  <2>2. effects[holding[c]] > 0 /\ \A d \in Consumer : d = c
    BY <2>1 DEF CausalInv, EffectRecorded
  <2>3. Begun \subseteq Begun' /\ \A e \in Event : Done(e) => Done(e)'
    BY <2>1, <2>2 DEF Begun, Done, Unacked
  <2>4. Ordered(queue', Begun', Before')
    BY <1>2, <1>3, <2>1, <2>3, OrderedWeaken
  <2>5. \A d \in Consumer : holding'[d] = NoEvent
    BY <1>0, <2>1, <2>2 DEF TypeOK
  <2> QED BY <1>6, <1>7, <2>1, <2>3, <2>4, <2>5
<1>21. ASSUME NEW c \in Consumer, cpc[c] # "idle", c \in connected,
              queue' = <<holding[c]>> \o queue, UNCHANGED <<dropped, effects>>,
              \A d \in Consumer : holding'[d] = holding[d] \/ holding'[d] = NoEvent
       PROVE  CausalInv'
  <2>1. holding[c] \in Event /\ \A d \in Consumer : d = c
    BY <1>0, <1>21 DEF HoldingOK
  <2>2. \A e \in Event : Done(e) => Done(e)'
    BY <1>21 DEF Done
  <2>3. Begun \subseteq Begun' \cup {holding[c]}
    BY <2>1, <2>2 DEF Begun, Unacked
  <2>4. ASSUME NEW e \in Event, <<e, holding[c]>> \in Before' PROVE e \in Begun'
    <3>1. HappenedBefore(e, holding[c])
      BY <1>5, <2>1, <2>4, HappenedStays DEF Before
    <3> QED BY <2>1, <2>2, <3>1 DEF CausalInv, HeldCausal, Begun
  <2>5. Ordered(<<holding[c]>> \o queue, Begun', Before')
    BY <1>2, <1>3, <2>1, <2>3, <2>4, OrderedPrepend
  <2>6. Ordered(queue', Begun', Before')
    BY <1>21, <2>5
  <2> QED BY <1>6, <1>7, <1>21, <2>2, <2>6
<1>22. ASSUME NEW c \in Consumer, c \notin connected \/ holding[c] = NoEvent,
              UNCHANGED <<queue, dropped, effects>>,
              \A d \in Consumer : holding'[d] = holding[d] \/ holding'[d] = NoEvent
       PROVE  CausalInv'
  <2>1. \A e \in Event : ~ Unacked(e) /\ (Done(e) <=> Done(e)')
    BY <1>22 DEF Unacked, Done
  <2>2. Begun \subseteq Begun'
    BY <2>1 DEF Begun
  <2>3. Ordered(queue, Begun', Before')
    BY <1>2, <1>3, <2>2, OrderedWeaken
  <2>4. Ordered(queue', Begun', Before')
    BY <1>22, <2>3
  <2> QED BY <1>6, <1>7, <1>22, <2>1, <2>4
<1>23. ASSUME NEW c \in Consumer, Requeue(c) PROVE CausalInv'
  <2>1. /\ cpc[c] # "idle" /\ UNCHANGED <<dropped, effects>>
        /\ queue' = IF c \in connected THEN <<holding[c]>> \o queue ELSE queue
        /\ \A d \in Consumer : holding'[d] = holding[d] \/ holding'[d] = NoEvent
    BY <1>0, <1>23 DEF Requeue, TypeOK
  <2> QED BY <1>21, <1>22, <2>1
<1>24. ASSUME NEW c \in Consumer, LoseConsumer(c) PROVE CausalInv'
  <2>1. /\ c \in connected /\ UNCHANGED <<dropped, effects, holding>>
        /\ queue' = IF cpc[c] = "idle" THEN queue ELSE <<holding[c]>> \o queue
        /\ cpc[c] = "idle" => holding[c] = NoEvent
    BY <1>0, <1>24 DEF LoseConsumer, consumerVars, HoldingOK
  <2> QED BY <1>21, <1>22, <2>1
<1>25. ASSUME NEW c \in Consumer, RestartConsumer(c) PROVE CausalInv'
  <2>1. /\ c \notin connected /\ UNCHANGED <<queue, dropped, effects>>
        /\ \A d \in Consumer : holding'[d] = holding[d] \/ holding'[d] = NoEvent
    BY <1>0, <1>25 DEF RestartConsumer, TypeOK
  <2> QED BY <1>22, <2>1
<1>26. UNCHANGED vars => CausalInv'
  BY <1>8 DEF vars, brokerVars, consumerVars
<1> QED BY <1>10, <1>11, <1>12, <1>13, <1>14, <1>15, <1>16, <1>17, <1>18, <1>19, <1>20,
           <1>23, <1>24, <1>25, <1>26, NextCases

(* With one worker and one consumer, no event takes effect before one that *)
(* had happened before it, whatever fails and is repeated on the way.      *)
THEOREM CausesFirst ==
  ASSUME \A v, w \in Worker : v = w, \A c, d \in Consumer : c = d
  PROVE  Spec => []CausalOrder
<1>1. Init => LockInv /\ ClockInv /\ CausalInv
  <2> SUFFICES ASSUME Init PROVE LockInv /\ ClockInv /\ CausalInv
    OBVIOUS
  <2>1. LockInv /\ ClockInv /\ EffectRecorded
    BY DEF Init, LockInv, ClockInv, EffectRecorded
  <2>2. BatchCausal /\ HeldCausal /\ CausalOrder
    BY DEF Init, BatchCausal, HeldCausal, CausalOrder, HappenedBefore
  <2>3. Ordered(queue, Begun, Before)
    BY DEF Init, Ordered
  <2> QED BY <2>1, <2>2, <2>3 DEF CausalInv
<1>2. IInv /\ LockInv /\ ClockInv /\ CausalInv /\ [Next]_vars
        => (LockInv /\ ClockInv /\ CausalInv)'
  BY LockStep, ClockStep, CausalStep DEF IInv
<1>3. CausalInv => CausalOrder
  BY DEF CausalInv
<1> QED BY <1>1, <1>2, <1>3, Inductive, PTL DEF Spec

-----------------------------------------------------------------------------
(* How often an event is in the queue, under the broker's operations.      *)
Places(e, q) == {i \in DOMAIN q : q[i] = e}
Copies(e, q) == Cardinality(Places(e, q))

LEMMA CopiesType ==
  ASSUME NEW S, NEW q \in Seq(S), NEW e
  PROVE  IsFiniteSet(Places(e, q)) /\ Copies(e, q) \in Nat
<1>1. DOMAIN q = 1 .. Len(q) /\ Len(q) \in Nat
  OBVIOUS
<1>2. IsFiniteSet(DOMAIN q)
  BY <1>1, FS_Interval
<1>3. Places(e, q) \in SUBSET DOMAIN q
  BY DEF Places
<1>4. IsFiniteSet(Places(e, q))
  BY <1>2, <1>3, FS_Subset
<1> QED BY <1>4, FS_CardinalityType DEF Copies

LEMMA CopiesAppend ==
  ASSUME NEW S, NEW q \in Seq(S), NEW x \in S, NEW e
  PROVE  Copies(e, Append(q, x)) = Copies(e, q) + (IF x = e THEN 1 ELSE 0)
<1> DEFINE r == Append(q, x)
<1>1. /\ DOMAIN r = 1 .. Len(q) + 1 /\ DOMAIN q = 1 .. Len(q) /\ Len(q) \in Nat
      /\ r[Len(q) + 1] = x /\ \A i \in 1 .. Len(q) : r[i] = q[i]
  OBVIOUS
<1> HIDE DEF r
<1>2. IsFiniteSet(Places(e, q)) /\ Copies(e, q) \in Nat
  BY CopiesType
<1>3. CASE x = e
  <2>1. Places(e, r) = Places(e, q) \cup {Len(q) + 1}
    BY <1>1, <1>3 DEF Places
  <2>2. Len(q) + 1 \notin Places(e, q)
    BY <1>1 DEF Places
  <2>3. Copies(e, r) = Copies(e, q) + 1
    BY <1>2, <2>1, <2>2, FS_AddElement DEF Copies
  <2> QED BY <1>3, <2>3 DEF r
<1>4. CASE x # e
  <2>1. Places(e, r) = Places(e, q)
    BY <1>1, <1>4 DEF Places
  <2>2. Copies(e, r) = Copies(e, q)
    BY <2>1 DEF Copies
  <2> QED BY <1>2, <1>4, <2>2 DEF r
<1> QED BY <1>3, <1>4

LEMMA CopiesPrepend ==
  ASSUME NEW S, NEW q \in Seq(S), NEW x \in S, NEW e
  PROVE  Copies(e, <<x>> \o q) = Copies(e, q) + (IF x = e THEN 1 ELSE 0)
<1> DEFINE r == <<x>> \o q
           old == Places(e, q)
           moved == {i \in DOMAIN r : i # 1 /\ r[i] = e}
<1>1. /\ DOMAIN r = 1 .. Len(q) + 1 /\ DOMAIN q = 1 .. Len(q) /\ Len(q) \in Nat
      /\ r[1] = x /\ \A i \in 1 .. Len(q) : r[i + 1] = q[i]
  OBVIOUS
<1> HIDE DEF r
<1>2. IsFiniteSet(old) /\ Cardinality(old) \in Nat
  BY CopiesType DEF Copies
<1>3. ExistsBijection(old, moved)
  <2> DEFINE f == [i \in old |-> i + 1]
  <2>1. old \subseteq 1 .. Len(q) /\ \A i \in old : q[i] = e
    BY <1>1 DEF Places
  <2>2. \A i \in old : i + 1 \in moved
    BY <1>1, <2>1
  <2>3. \A j \in moved : j - 1 \in old /\ (j - 1) + 1 = j
    BY <1>1 DEF Places
  <2>4. f \in [old -> moved] /\ \A i \in old : f[i] = i + 1
    BY <2>2
  <2>5. \A i, k \in old : f[i] = f[k] => i = k
    BY <2>1, <2>4
  <2>6. \A j \in moved : \E i \in old : f[i] = j
    BY <2>3, <2>4
  <2> QED BY <2>4, <2>5, <2>6 DEF ExistsBijection, Bijection, Injection, Surjection, IsInjective
<1>4. IsFiniteSet(moved) /\ Cardinality(moved) = Cardinality(old)
  BY <1>2, <1>3, FS_Bijection
<1>5. CASE x = e
  <2>1. Places(e, r) = moved \cup {1} /\ 1 \notin moved
    BY <1>1, <1>5 DEF Places
  <2>2. Cardinality(Places(e, r)) = Cardinality(moved) + 1
    BY <1>4, <2>1, FS_AddElement
  <2> QED BY <1>4, <1>5, <2>2 DEF r, Copies
<1>6. CASE x # e
  <2>1. Places(e, r) = moved
    BY <1>1, <1>6 DEF Places
  <2>2. Copies(e, r) = Copies(e, q) /\ Copies(e, q) \in Nat
    BY <1>2, <1>4, <2>1 DEF Copies
  <2> QED BY <1>6, <2>2 DEF r
<1> QED BY <1>5, <1>6

LEMMA CopiesTail ==
  ASSUME NEW S, NEW q \in Seq(S), q # <<>>, NEW e
  PROVE  Copies(e, q) = Copies(e, Tail(q)) + (IF Head(q) = e THEN 1 ELSE 0)
<1>1. Head(q) \in S /\ Tail(q) \in Seq(S) /\ q = <<Head(q)>> \o Tail(q)
  OBVIOUS
<1>2. Copies(e, <<Head(q)>> \o Tail(q)) = Copies(e, Tail(q)) + (IF Head(q) = e THEN 1 ELSE 0)
  BY <1>1, CopiesPrepend
<1> QED BY <1>1, <1>2

-----------------------------------------------------------------------------
(* An event's effects, and those its copies at the broker and its handlers *)
(* will still have.  It may be published once more than there were faults: *)
(* a row is spent from the confirm until a fault undoes its mark.          *)
Pending(e) == {c \in Consumer : holding[c] = e /\ cpc[c] \in {"check", "apply"}}
Count(e) == effects[e] + Copies(e, queue) + Cardinality(Pending(e))
Spent(e) ==
  \/ e \in published
  \/ \E w \in Worker \cap connected :
       e \in marked[w] \/ (wpc[w] = "mark" /\ e \in lock[w] /\ IsCurrent(w, e))

CountInv ==
  \A e \in Event :
    /\ IsFiniteSet(Pending(e))
    /\ Count(e) <= 1 + producerFaults + consumerFaults
    /\ Spent(e) \/ Count(e) <= producerFaults + consumerFaults

(* A row stays spent, but for a fault. *)
LEMMA SpentStays ==
  ASSUME IInv, LockInv, [Next]_vars, producerFaults' = producerFaults, NEW e \in Event, Spent(e)
  PROVE  Spent(e)'
<1>0. TypeOK /\ TypeInv /\ \A w \in Worker : lock[w] \subseteq committed
  BY DEF IInv, TypeInv, LeaveInv
<1>1. ASSUME UNCHANGED <<workerVars, occurredAt>>,
             connected' \cap Worker = connected \cap Worker
      PROVE  Spent(e)'
  BY <1>1 DEF Spent, IsCurrent, RowBefore, workerVars
<1>2. ASSUME NEW t \in Tx, NEW g \in Event, InsertEvent(t, g) PROVE Spent(e)'
  <2>1. /\ \A w \in Worker : g \notin lock[w]
        /\ \A f \in Event : f # g => occurredAt'[f] = occurredAt[f]
        /\ UNCHANGED <<workerVars, connected>>
    BY <1>0, <1>2 DEF InsertEvent, TypeOK, brokerVars
  <2>2. \A w \in Worker : lock[w] \subseteq Event
    BY <1>0 DEF TypeOK
  <2>3. ASSUME NEW w \in Worker, e \in lock[w], IsCurrent(w, e) PROVE IsCurrent(w, e)'
    BY <2>1, <2>2, <2>3 DEF IsCurrent, RowBefore, workerVars
  <2> QED BY <2>1, <2>3 DEF Spent, workerVars
(* a step of worker w between two faults *)
<1>3. ASSUME NEW w \in Worker, UNCHANGED <<connected, occurredAt>>,
             published \subseteq published',
             \A v \in Worker : v # w =>
               wpc'[v] = wpc[v] /\ lock'[v] = lock[v] /\ marked'[v] = marked[v],
             w \in connected /\ e \in marked[w] => e \in published' \cup marked'[w],
             w \in connected /\ wpc[w] = "mark" /\ e \in lock[w] /\ IsCurrent(w, e)
               => e \in marked'[w]
      PROVE  Spent(e)'
  <2>1. \A v \in Worker : v # w /\ e \in lock[v] /\ IsCurrent(v, e) => IsCurrent(v, e)'
    BY <1>3 DEF IsCurrent, RowBefore
  <2> QED BY <1>3, <2>1 DEF Spent
<1>4. \A t \in Tx : BeginTx(t) \/ CommitTx(t) \/ RollbackTx(t) => Spent(e)'
  BY <1>1 DEF BeginTx, CommitTx, RollbackTx, brokerVars
<1>5. ASSUME NEW w \in Worker, SelectBatch(w) PROVE Spent(e)'
  <2>1. /\ wpc[w] = "idle" /\ UNCHANGED <<connected, occurredAt, published, marked>>
        /\ \A v \in Worker : v # w => wpc'[v] = wpc[v] /\ lock'[v] = lock[v]
    BY <1>0, <1>5 DEF SelectBatch, TypeOK, txVars, brokerVars
  <2> QED BY <1>3, <2>1
<1>6. ASSUME NEW w \in Worker, Publish(w) PROVE Spent(e)'
  <2>1. /\ wpc[w] = "publish" /\ UNCHANGED <<connected, occurredAt, published, lock, marked>>
        /\ \A v \in Worker : v # w => wpc'[v] = wpc[v]
    BY <1>0, <1>6 DEF Publish, BrokerAccepts, TypeOK, txVars
  <2> QED BY <1>3, <2>1
<1>7. ASSUME NEW w \in Worker, MarkPublished(w) PROVE Spent(e)'
  <2>1. PICK x \in lock[w] : IsCurrent(w, x) /\ marked' = [marked EXCEPT ![w] = @ \cup {x}]
    BY <1>7 DEF MarkPublished
  <2>2. /\ x \in Event /\ UNCHANGED <<connected, occurredAt, published, lock>>
        /\ \A v \in Worker : v # w => wpc'[v] = wpc[v] /\ marked'[v] = marked[v]
        /\ marked'[w] = marked[w] \cup {x}
    BY <1>0, <1>7, <2>1 DEF MarkPublished, TypeOK, txVars, brokerVars
  <2>3. IsCurrent(w, e) => e = x
    BY <1>0, <2>1, <2>2, CurrentUnique
  <2> QED BY <1>3, <2>2, <2>3
<1>8. ASSUME NEW w \in Worker, CommitBatch(w) PROVE Spent(e)'
  <2>1. /\ wpc[w] = "commit" /\ UNCHANGED <<connected, occurredAt>>
        /\ published' = published \cup marked[w]
        /\ \A v \in Worker : v # w =>
             wpc'[v] = wpc[v] /\ lock'[v] = lock[v] /\ marked'[v] = marked[v]
    BY <1>0, <1>8 DEF CommitBatch, TypeOK, txVars, brokerVars
  <2> QED BY <1>3, <2>1
<1>9. \A w \in Worker : ~ (PublishFails(w) \/ BatchFails(w) \/ LoseProducer(w))
  <2>1. producerFaults \in Nat
    BY <1>0 DEF TypeOK
  <2> QED BY <2>1 DEF PublishFails, BatchFails, LoseProducer, ProducerFault
<1>10. ASSUME NEW w \in Worker, PublishRefused(w) PROVE Spent(e)'
  <2>1. /\ w \notin connected /\ UNCHANGED <<connected, occurredAt, published>>
        /\ \A v \in Worker : v # w =>
             wpc'[v] = wpc[v] /\ lock'[v] = lock[v] /\ marked'[v] = marked[v]
    BY <1>0, <1>10 DEF PublishRefused, Rollback, TypeOK, txVars, brokerVars
  <2> QED BY <1>3, <2>1
<1>11. ASSUME NEW w \in Worker, RestartProducer(w) PROVE Spent(e)'
  <2>1. /\ w \notin connected /\ connected \subseteq connected'
        /\ UNCHANGED <<occurredAt, published>>
        /\ \A v \in Worker : v # w =>
             wpc'[v] = wpc[v] /\ lock'[v] = lock[v] /\ marked'[v] = marked[v]
    BY <1>0, <1>11 DEF RestartProducer, Rollback, TypeOK, txVars
  <2>2. \A v \in Worker : v # w /\ e \in lock[v] /\ IsCurrent(v, e) => IsCurrent(v, e)'
    BY <2>1 DEF IsCurrent, RowBefore
  <2> QED BY <2>1, <2>2 DEF Spent
<1>12. SetupTopology \/ Expire => Spent(e)'
  BY <1>1 DEF SetupTopology, Expire, txVars
<1>13. \A c \in Consumer : Deliver(c) \/ HasProcessed(c) \/ Inner(c) => Spent(e)'
  BY <1>1 DEF Deliver, HasProcessed, Inner, txVars, brokerVars
<1>14. \A c \in Consumer : MarkProcessed(c) \/ Ack(c) \/ Requeue(c) => Spent(e)'
  BY <1>1 DEF MarkProcessed, Ack, Requeue, txVars, brokerVars
<1>15. \A c \in Consumer : LoseConsumer(c) \/ RestartConsumer(c) => Spent(e)'
  BY <1>1 DEF LoseConsumer, RestartConsumer, txVars
<1>16. UNCHANGED vars => Spent(e)'
  BY <1>1 DEF vars, txVars, brokerVars
<1> QED BY <1>2, <1>4, <1>5, <1>6, <1>7, <1>8, <1>9, <1>10, <1>11, <1>12, <1>13, <1>14,
           <1>15, <1>16, NextCases

(* One more fault leaves room for one more effect. *)
LEMMA RoomForOne ==
  ASSUME NEW p \in Nat, NEW c \in Nat, NEW q \in Nat, NEW d \in Nat, q + d = p + c + 1,
         NEW m \in Nat, m <= p + c + 1
  PROVE  m <= q + d
OBVIOUS

(* What an effect, the queue and the handlers hold of an event, one change *)
(* at a time.                                                              *)
LEMMA CountStep ==
  ASSUME IInv, LockInv, CountInv, [Next]_vars
  PROVE  CountInv'
<1>0. TypeOK /\ HoldingOK
  BY DEF IInv, TypeInv
<1>1. /\ queue \in Seq(Event) /\ effects \in [Event -> Nat]
      /\ producerFaults \in Nat /\ consumerFaults \in Nat
  BY <1>0 DEF TypeOK
<1>2. ASSUME NEW e \in Event
      PROVE  /\ Copies(e, queue) \in Nat /\ effects[e] \in Nat
             /\ IsFiniteSet(Pending(e)) /\ Cardinality(Pending(e)) \in Nat
  BY <1>1, CopiesType, FS_CardinalityType DEF CountInv
(* no fault, and no more of any event *)
<1>3. ASSUME UNCHANGED <<producerFaults, consumerFaults>>,
             \A e \in Event : IsFiniteSet(Pending(e)') /\ Count(e)' <= Count(e)
      PROVE  CountInv'
  <2>1. ASSUME NEW e \in Event PROVE
          /\ Count(e)' <= 1 + producerFaults + consumerFaults
          /\ Spent(e)' \/ Count(e)' <= producerFaults + consumerFaults
    <3>1. Count(e) \in Nat
      BY <1>2 DEF Count
    <3>2. Count(e)' <= Count(e) /\ IsFiniteSet(Pending(e)')
      BY <1>3
    <3>3. Count(e)' \in Int
      <4>1. queue' \in Seq(Event) /\ effects' \in [Event -> Nat]
        BY <1>0, TypeStep DEF IInv, TypeInv, TypeOK
      <4>2. Copies(e, queue') \in Nat /\ effects'[e] \in Nat /\ Cardinality(Pending(e)') \in Nat
        BY <3>2, <4>1, CopiesType, FS_CardinalityType
      <4> QED BY <4>2 DEF Count
    <3>4. Spent(e) => Spent(e)'
      BY <1>3, SpentStays
    <3> QED BY <1>1, <3>1, <3>2, <3>3, <3>4 DEF CountInv
  <2> QED BY <1>3, <2>1 DEF CountInv
(* a fault, and one more of an event that has had its share *)
<1>4. ASSUME producerFaults' + consumerFaults' = producerFaults + consumerFaults + 1,
             \A e \in Event :
               /\ IsFiniteSet(Pending(e)') /\ Count(e)' \in Nat
               /\ Count(e)' <= Count(e) \/ (~ Spent(e) /\ Count(e)' = Count(e) + 1)
      PROVE  CountInv'
  <2>0. producerFaults' \in Nat /\ consumerFaults' \in Nat
    BY <1>0, TypeStep DEF IInv, TypeInv, TypeOK
  <2>1. ASSUME NEW e \in Event PROVE Count(e)' <= producerFaults' + consumerFaults'
    <3>1. Count(e) \in Nat /\ Count(e)' \in Nat
      BY <1>2, <1>4 DEF Count
    <3>2. CASE Count(e)' <= Count(e)
      <4>1. Count(e) <= 1 + producerFaults + consumerFaults
        BY DEF CountInv
      <4>2. Count(e)' <= producerFaults + consumerFaults + 1
        BY <1>1, <3>1, <3>2, <4>1
      <4> QED BY <1>1, <1>4, <2>0, <3>1, <4>2, RoomForOne
    <3>3. CASE ~ Spent(e) /\ Count(e)' = Count(e) + 1
      <4>1. Count(e) <= producerFaults + consumerFaults
        BY <3>3 DEF CountInv
      <4>2. Count(e)' = Count(e) + 1
        BY <3>3
      <4>3. producerFaults' + consumerFaults' = producerFaults + consumerFaults + 1
        BY <1>4
      <4>4. Count(e)' <= producerFaults + consumerFaults + 1
        BY <1>1, <3>1, <4>1, <4>2
      <4> QED BY <1>1, <2>0, <3>1, <4>3, <4>4, RoomForOne
    <3> QED BY <1>4, <3>2, <3>3
  <2>2. \A e \in Event : Count(e)' <= 1 + producerFaults' + consumerFaults'
    BY <1>4, <2>0, <2>1
  <2> QED BY <1>4, <2>1, <2>2 DEF CountInv
<1>5. ASSUME UNCHANGED <<queue, holding, cpc, effects>>
      PROVE  \A e \in Event : Count(e)' = Count(e) /\ Pending(e)' = Pending(e)
  BY <1>5 DEF Count, Pending
<1>6. ASSUME UNCHANGED <<queue, holding, cpc, effects, producerFaults, consumerFaults>>
      PROVE  CountInv'
  <2>1. \A e \in Event : Count(e) \in Nat
    BY <1>2 DEF Count
  <2> QED BY <1>2, <1>3, <1>5, <1>6, <2>1
<1>7. \A t \in Tx : BeginTx(t) \/ CommitTx(t) \/ RollbackTx(t) => CountInv'
  BY <1>6 DEF BeginTx, CommitTx, RollbackTx, brokerVars, consumerVars
<1>8. \A t \in Tx, e \in Event : InsertEvent(t, e) => CountInv'
  BY <1>6 DEF InsertEvent, brokerVars, consumerVars
<1>9. \A w \in Worker : SelectBatch(w) \/ MarkPublished(w) \/ CommitBatch(w) => CountInv'
  BY <1>6 DEF SelectBatch, MarkPublished, CommitBatch, brokerVars, consumerVars
<1>10. \A w \in Worker : PublishRefused(w) \/ RestartProducer(w) => CountInv'
  BY <1>6 DEF PublishRefused, RestartProducer, Rollback, brokerVars, consumerVars
(* a copy of the row the worker has reached, which is not spent *)
<1>11. ASSUME NEW w \in Worker, wpc[w] = "publish", NEW x \in lock[w], IsCurrent(w, x),
              BrokerAccepts(x), UNCHANGED consumerVars
       PROVE  /\ x \in Event /\ ~ Spent(x)
              /\ Count(x)' \in Nat /\ Count(x)' <= Count(x) + 1
              /\ \A e \in Event : e # x => Count(e)' = Count(e)
              /\ \A e \in Event : Pending(e)' = Pending(e)
  <2>1. x \in Event
    BY <1>0 DEF TypeOK
  <2>2. ~ Spent(x)
    <3>1. x \notin published /\ \A v \in Worker : v # w => x \notin lock[v]
      BY DEF LockInv
    <3>2. \A v \in Worker : x \notin marked[v]
      BY <1>11, <3>1 DEF LockInv, IsCurrent
    <3> QED BY <1>11, <3>1, <3>2 DEF Spent
  <2>3. \A e \in Event : Pending(e)' = Pending(e) /\ effects'[e] = effects[e]
    BY <1>11 DEF Pending, consumerVars
  <2>4. \A e \in Event : \/ Copies(e, queue') = Copies(e, queue)
                         \/ e = x /\ Copies(e, queue') = Copies(e, queue) + 1
    <3>1. CASE bound
      <4>1. queue' = Append(queue, x)
        BY <1>11, <3>1 DEF BrokerAccepts
      <4>2. ASSUME NEW e \in Event
            PROVE  Copies(e, queue') = Copies(e, queue) + (IF x = e THEN 1 ELSE 0)
        BY <1>1, <2>1, <4>1, CopiesAppend
      <4>3. ASSUME NEW e \in Event PROVE Copies(e, queue) + 0 = Copies(e, queue)
        BY <1>1, CopiesType
      <4> QED BY <4>2, <4>3
    <3>2. CASE ~ bound
      BY <1>11, <3>2 DEF BrokerAccepts
    <3> QED BY <3>1, <3>2
  <2>5. Count(x)' \in Nat /\ Count(x)' <= Count(x) + 1
    BY <1>2, <2>1, <2>3, <2>4 DEF Count
  <2>6. \A e \in Event : e # x => Count(e)' = Count(e)
    BY <2>3, <2>4 DEF Count
  <2> QED BY <2>1, <2>2, <2>3, <2>5, <2>6
<1>12. ASSUME NEW w \in Worker, Publish(w) PROVE CountInv'
  <2>1. PICK x \in lock[w] : IsCurrent(w, x) /\ BrokerAccepts(x)
    BY <1>12 DEF Publish
  <2>2. /\ wpc[w] = "publish" /\ w \in connected
        /\ UNCHANGED <<lock, marked, occurredAt, consumerVars, producerFaults, consumerFaults>>
        /\ wpc'[w] = "mark" /\ connected' = connected
    BY <1>0, <1>12, <2>1 DEF Publish, BrokerAccepts, TypeOK, txVars
  <2>3. /\ x \in Event /\ ~ Spent(x) /\ Count(x)' \in Nat /\ Count(x)' <= Count(x) + 1
        /\ \A e \in Event : e # x => Count(e)' = Count(e)
        /\ \A e \in Event : Pending(e)' = Pending(e)
    BY <1>11, <2>1, <2>2
  <2>4. Spent(x)'
    <3>1. IsCurrent(w, x)'
      BY <2>1, <2>2 DEF IsCurrent, RowBefore
    <3> QED BY <2>1, <2>2, <3>1 DEF Spent
  <2>5. ASSUME NEW e \in Event PROVE
          /\ Count(e)' <= 1 + producerFaults + consumerFaults
          /\ Spent(e)' \/ Count(e)' <= producerFaults + consumerFaults
    <3>1. CASE e = x
      <4>1. Count(x) <= producerFaults + consumerFaults /\ Count(x) \in Nat
        <5>1. Count(x) <= producerFaults + consumerFaults
          BY <2>3 DEF CountInv
        <5>2. /\ effects[x] \in Nat /\ Copies(x, queue) \in Nat
              /\ Cardinality(Pending(x)) \in Nat
          BY <1>2, <2>3
        <5>3. Count(x) \in Nat BY <5>2 DEF Count
        <5> QED BY <5>1, <5>3
      <4> QED BY <1>1, <2>3, <2>4, <3>1, <4>1
    <3>2. CASE e # x
      <4>1. Spent(e) => Spent(e)'
        BY <2>2, SpentStays
      <4>2. Count(e)' = Count(e)
        BY <2>3, <3>2
      <4> QED BY <4>1, <4>2 DEF CountInv
    <3> QED BY <3>1, <3>2
  <2> QED BY <1>2, <2>2, <2>3, <2>5 DEF CountInv
<1>13. ASSUME NEW w \in Worker, PublishFails(w) PROVE CountInv'
  <2>1. /\ wpc[w] = "publish" /\ UNCHANGED <<consumerVars, consumerFaults>>
        /\ producerFaults' = producerFaults + 1
    BY <1>13 DEF PublishFails, ProducerFault, Rollback
  <2>2. CASE UNCHANGED brokerVars
    <3>1. \A e \in Event : Count(e) \in Nat /\ Count(e)' = Count(e) /\ Pending(e)' = Pending(e)
      BY <1>2, <1>5, <2>1, <2>2 DEF Count, consumerVars, brokerVars
    <3> QED BY <1>1, <1>2, <1>4, <2>1, <3>1
  <2>3. CASE \E x \in lock[w] : IsCurrent(w, x) /\ BrokerAccepts(x)
    <3>1. PICK x \in lock[w] : IsCurrent(w, x) /\ BrokerAccepts(x)
      BY <2>3
    <3>2. /\ ~ Spent(x) /\ Count(x)' \in Nat /\ Count(x)' <= Count(x) + 1
          /\ \A e \in Event : e # x => Count(e)' = Count(e)
          /\ \A e \in Event : Pending(e)' = Pending(e)
      BY <1>11, <2>1, <3>1
    <3>3. \A e \in Event : Count(e) \in Nat
      BY <1>2 DEF Count
    <3>4. ASSUME NEW e \in Event PROVE
            /\ IsFiniteSet(Pending(e)') /\ Count(e)' \in Nat
            /\ Count(e)' <= Count(e) \/ (~ Spent(e) /\ Count(e)' = Count(e) + 1)
      BY <1>2, <3>2, <3>3
    <3>5. producerFaults' + consumerFaults' = producerFaults + consumerFaults + 1
      BY <1>1, <2>1
    <3> QED BY <1>4, <3>4, <3>5
  <2> QED BY <1>13, <2>2, <2>3 DEF PublishFails
<1>14. ASSUME NEW w \in Worker, BatchFails(w) \/ LoseProducer(w) PROVE CountInv'
  <2>1. /\ UNCHANGED <<queue, holding, cpc, effects, consumerFaults>>
        /\ producerFaults' = producerFaults + 1
    BY <1>14 DEF BatchFails, LoseProducer, ProducerFault, Rollback, consumerVars, brokerVars
  <2>2. \A e \in Event : Count(e) \in Nat /\ Count(e)' = Count(e) /\ Pending(e)' = Pending(e)
    BY <1>2, <1>5, <2>1 DEF Count
  <2> QED BY <1>1, <1>2, <1>4, <2>1, <2>2
<1>15. SetupTopology => CountInv'
  BY <1>6 DEF SetupTopology, consumerVars
<1>16. ASSUME Expire PROVE CountInv'
  <2>1. /\ queue # <<>> /\ queue' = Tail(queue)
        /\ UNCHANGED <<holding, cpc, effects, producerFaults, consumerFaults>>
    BY <1>16 DEF Expire, consumerVars
  <2>2. ASSUME NEW e \in Event PROVE IsFiniteSet(Pending(e)') /\ Count(e)' <= Count(e)
    <3>1. Pending(e)' = Pending(e)
      BY <2>1 DEF Pending
    <3>2. Copies(e, queue') \in Nat /\ Copies(e, queue') <= Copies(e, queue)
      <4>1. Tail(queue) \in Seq(Event)
        BY <1>1, <2>1
      <4>2. Copies(e, Tail(queue)) \in Nat
        BY <4>1, CopiesType
      <4>3. Copies(e, queue) = Copies(e, Tail(queue)) + (IF Head(queue) = e THEN 1 ELSE 0)
        BY <1>1, <2>1, CopiesTail
      <4> QED BY <2>1, <4>2, <4>3
    <3> QED BY <1>2, <2>1, <3>1, <3>2 DEF Count
  <2> QED BY <1>3, <2>1, <2>2
<1>17. ASSUME NEW c \in Consumer, Deliver(c) PROVE CountInv'
  <2>1. /\ cpc[c] = "idle" /\ queue # <<>> /\ queue' = Tail(queue)
        /\ holding' = [holding EXCEPT ![c] = Head(queue)]
        /\ cpc' = [cpc EXCEPT ![c] = "check"]
        /\ UNCHANGED <<effects, producerFaults, consumerFaults>>
    BY <1>17 DEF Deliver
  <2>2. ASSUME NEW e \in Event PROVE IsFiniteSet(Pending(e)') /\ Count(e)' <= Count(e)
    <3>1. Copies(e, queue) = Copies(e, Tail(queue)) + (IF Head(queue) = e THEN 1 ELSE 0)
      BY <1>1, <2>1, CopiesTail
    <3>2. Copies(e, queue') \in Nat
      <4>1. Tail(queue) \in Seq(Event)
        BY <1>1, <2>1
      <4> QED BY <2>1, <4>1, CopiesType
    <3>3. c \notin Pending(e)
      BY <2>1 DEF Pending
    <3>4. CASE Head(queue) = e
      <4>1. Pending(e)' = Pending(e) \cup {c}
        BY <1>0, <2>1, <3>4 DEF Pending, TypeOK
      <4>2. /\ IsFiniteSet(Pending(e)')
            /\ Cardinality(Pending(e)') = Cardinality(Pending(e)) + 1
        BY <1>2, <3>3, <4>1, FS_AddElement
      <4> QED BY <1>2, <2>1, <3>1, <3>2, <3>4, <4>2 DEF Count
    <3>5. CASE Head(queue) # e
      <4>1. Pending(e)' = Pending(e)
        BY <1>0, <2>1, <3>3, <3>5 DEF Pending, TypeOK
      <4>2. Copies(e, queue') = Copies(e, queue)
        BY <2>1, <3>1, <3>2, <3>5
      <4> QED BY <1>2, <2>1, <4>1, <4>2 DEF Count
    <3> QED BY <3>4, <3>5
  <2> QED BY <1>3, <2>1, <2>2
(* a handler that goes on, or ends *)
<1>18. ASSUME UNCHANGED effects, \A e \in Event : Pending(e)' \subseteq Pending(e)
       PROVE  \A e \in Event : /\ IsFiniteSet(Pending(e)') /\ Cardinality(Pending(e)') \in Nat
                               /\ Cardinality(Pending(e)') <= Cardinality(Pending(e))
  BY <1>2, <1>18, FS_Subset, FS_CardinalityType
<1>19. ASSUME UNCHANGED <<queue, effects, producerFaults, consumerFaults>>,
              \A e \in Event : Pending(e)' \subseteq Pending(e)
       PROVE  CountInv'
  <2>1. \A e \in Event : IsFiniteSet(Pending(e)') /\ Count(e)' <= Count(e)
    BY <1>2, <1>18, <1>19 DEF Count
  <2> QED BY <1>3, <1>19, <2>1
<1>20. ASSUME NEW c \in Consumer, HasProcessed(c) \/ MarkProcessed(c) \/ Ack(c) PROVE CountInv'
  <2>1. \A e \in Event : Pending(e)' \subseteq Pending(e)
    BY <1>0, <1>20 DEF HasProcessed, MarkProcessed, Ack, Pending, TypeOK
  <2>2. UNCHANGED <<queue, effects, producerFaults, consumerFaults>>
    BY <1>20 DEF HasProcessed, MarkProcessed, Ack, brokerVars
  <2> QED BY <1>19, <2>1, <2>2
<1>21. ASSUME NEW c \in Consumer, RestartConsumer(c) PROVE CountInv'
  <2>1. \A e \in Event : Pending(e)' \subseteq Pending(e)
    BY <1>0, <1>21 DEF RestartConsumer, Pending, TypeOK
  <2>2. UNCHANGED <<queue, effects, producerFaults, consumerFaults>>
    BY <1>21 DEF RestartConsumer
  <2> QED BY <1>19, <2>1, <2>2
<1>22. ASSUME NEW c \in Consumer, Inner(c) PROVE CountInv'
  <2>1. /\ cpc[c] = "apply" /\ cpc' = [cpc EXCEPT ![c] = "record"]
        /\ effects' = [effects EXCEPT ![holding[c]] = @ + 1]
        /\ UNCHANGED <<queue, holding, producerFaults, consumerFaults>>
    BY <1>22 DEF Inner, brokerVars
  <2>2. ASSUME NEW e \in Event PROVE IsFiniteSet(Pending(e)') /\ Count(e)' <= Count(e)
    <3>1. CASE holding[c] = e
      <4>1. Pending(e)' = Pending(e) \ {c} /\ c \in Pending(e)
        BY <1>0, <2>1, <3>1 DEF Pending, TypeOK
      <4>2. /\ IsFiniteSet(Pending(e)')
            /\ Cardinality(Pending(e)') = Cardinality(Pending(e)) - 1
        BY <1>2, <4>1, FS_RemoveElement
      <4>3. effects'[e] = effects[e] + 1
        BY <1>1, <2>1, <3>1
      <4> QED BY <1>2, <2>1, <4>2, <4>3 DEF Count
    <3>2. CASE holding[c] # e
      <4>1. Pending(e)' = Pending(e) /\ effects'[e] = effects[e]
        BY <1>0, <1>1, <2>1, <3>2 DEF Pending, TypeOK
      <4> QED BY <1>2, <2>1, <4>1 DEF Count
    <3> QED BY <3>1, <3>2
  <2> QED BY <1>3, <2>1, <2>2
(* the nack, or the broker, puts a message back *)
<1>23. ASSUME NEW x \in Event, queue' = queue \/ queue' = <<x>> \o queue, UNCHANGED effects,
              UNCHANGED producerFaults, consumerFaults' = consumerFaults + 1,
              \A e \in Event : Pending(e)' \subseteq Pending(e)
       PROVE  CountInv'
  <2>1. ASSUME NEW e \in Event PROVE
          Copies(e, queue') = Copies(e, queue) \/ Copies(e, queue') = Copies(e, queue) + 1
    <3>1. Copies(e, <<x>> \o queue) = Copies(e, queue) + (IF x = e THEN 1 ELSE 0)
      BY <1>1, CopiesPrepend
    <3>2. Copies(e, queue) + 0 = Copies(e, queue)
      BY <1>2
    <3> QED BY <1>23, <3>1, <3>2
  <2>2. ASSUME NEW e \in Event PROVE
          /\ IsFiniteSet(Pending(e)') /\ Count(e)' \in Nat /\ Count(e)' <= Count(e) + 1
    <3>1. /\ IsFiniteSet(Pending(e)') /\ Cardinality(Pending(e)') \in Nat
          /\ Cardinality(Pending(e)') <= Cardinality(Pending(e))
      BY <1>18, <1>23
    <3>2. CASE Copies(e, queue') = Copies(e, queue)
      <4>1. Count(e)' = effects[e] + Copies(e, queue) + Cardinality(Pending(e)')
        BY <1>23, <3>2 DEF Count
      <4>2. Count(e) = effects[e] + Copies(e, queue) + Cardinality(Pending(e))
        BY DEF Count
      <4> QED BY <1>2, <3>1, <4>1, <4>2
    <3>3. CASE Copies(e, queue') = Copies(e, queue) + 1
      <4>1. Count(e)' = effects[e] + (Copies(e, queue) + 1) + Cardinality(Pending(e)')
        BY <1>23, <3>3 DEF Count
      <4>2. Count(e) = effects[e] + Copies(e, queue) + Cardinality(Pending(e))
        BY DEF Count
      <4> QED BY <1>2, <3>1, <4>1, <4>2
    <3> QED BY <2>1, <3>2, <3>3
  <2>3. ASSUME NEW e \in Event PROVE
          /\ Count(e)' <= 1 + producerFaults' + consumerFaults'
          /\ Spent(e)' \/ Count(e)' <= producerFaults' + consumerFaults'
    <3>1. Spent(e) => Spent(e)'
      BY <1>23, SpentStays
    <3>2. Count(e) \in Nat
      BY <1>2 DEF Count
    <3> QED BY <1>1, <1>23, <2>2, <3>1, <3>2 DEF CountInv
  <2> QED BY <2>2, <2>3 DEF CountInv
<1>24. ASSUME NEW c \in Consumer, Requeue(c) PROVE CountInv'
  <2>1. /\ cpc[c] # "idle" /\ UNCHANGED <<effects, producerFaults>>
        /\ consumerFaults' = consumerFaults + 1
        /\ queue' = IF c \in connected THEN <<holding[c]>> \o queue ELSE queue
    BY <1>24 DEF Requeue, ConsumerFault
  <2>2. holding[c] \in Event
    BY <1>0, <2>1 DEF HoldingOK
  <2>3. \A e \in Event : Pending(e)' \subseteq Pending(e)
    BY <1>0, <1>24 DEF Requeue, Pending, TypeOK
  <2> QED BY <1>23, <2>1, <2>2, <2>3
<1>25. ASSUME NEW c \in Consumer, LoseConsumer(c) PROVE CountInv'
  <2>1. /\ UNCHANGED <<effects, producerFaults, holding, cpc>>
        /\ consumerFaults' = consumerFaults + 1
        /\ queue' = IF cpc[c] = "idle" THEN queue ELSE <<holding[c]>> \o queue
    BY <1>25 DEF LoseConsumer, ConsumerFault, consumerVars
  <2>2. \A e \in Event : Pending(e)' = Pending(e)
    BY <2>1 DEF Pending
  <2>3. CASE cpc[c] # "idle"
    <3>1. holding[c] \in Event
      BY <1>0, <2>3 DEF HoldingOK
    <3> QED BY <1>23, <2>1, <2>2, <2>3, <3>1
  <2>4. CASE cpc[c] = "idle"
    <3>1. \A e \in Event : Count(e) \in Nat /\ Count(e)' = Count(e) /\ IsFiniteSet(Pending(e)')
      BY <1>2, <2>1, <2>2, <2>4 DEF Count
    <3> QED BY <1>1, <1>4, <2>1, <3>1
  <2> QED BY <2>3, <2>4
<1>26. UNCHANGED vars => CountInv'
  BY <1>6 DEF vars, brokerVars, consumerVars
<1> QED BY <1>7, <1>8, <1>9, <1>10, <1>12, <1>13, <1>14, <1>15, <1>16, <1>17, <1>20, <1>21,
           <1>22, <1>24, <1>25, <1>26, NextCases

(* However many workers and consumers there are, an event has at most one  *)
(* effect, and one more for each fault.                                    *)
THEOREM DuplicatesBounded == Spec => []DuplicatesNeedFaults
<1>1. Init => LockInv /\ CountInv
  <2> SUFFICES ASSUME Init PROVE LockInv /\ CountInv
    OBVIOUS
  <2>1. LockInv
    BY DEF Init, LockInv
  <2>2. ASSUME NEW e \in Event PROVE IsFiniteSet(Pending(e)) /\ Count(e) = 0
    <3>1. Places(e, queue) = {} /\ Pending(e) = {} /\ effects[e] = 0
      BY DEF Init, Places, Pending
    <3> QED BY <3>1, FS_EmptySet DEF Count, Copies
  <2>3. CountInv
    BY <2>2 DEF Init, CountInv
  <2> QED BY <2>1, <2>3
<1>2. IInv /\ LockInv /\ CountInv /\ [Next]_vars => LockInv' /\ CountInv'
  BY LockStep, CountStep DEF IInv
<1>3. IInv /\ CountInv => DuplicatesNeedFaults
  <2> SUFFICES ASSUME IInv, CountInv, NEW e \in Event
               PROVE  effects[e] <= 1 + producerFaults + consumerFaults
    BY DEF DuplicatesNeedFaults
  <2>1. /\ queue \in Seq(Event) /\ effects[e] \in Nat
        /\ producerFaults \in Nat /\ consumerFaults \in Nat
    BY DEF IInv, TypeInv, TypeOK
  <2>2. Copies(e, queue) \in Nat /\ Cardinality(Pending(e)) \in Nat
    BY <2>1, CopiesType, FS_CardinalityType DEF CountInv
  <2> QED BY <2>1, <2>2 DEF CountInv, Count
<1> QED BY <1>1, <1>2, <1>3, Inductive, PTL DEF Spec

HIDE ConstantsAssumption DEF NoEvent

-----------------------------------------------------------------------------
(* Whom a deed tells                                                       *)

DeedRecord == [op : STRING, by : User, of : User \cup {Nobody}, mentions : SUBSET User]
Kinds == {"task_assigned", "task_unassigned", "task_deleted", "mention", "project_member_added",
          "project_member_removed", "project_invitation_sent", "project_invitation_accepted",
          "project_invitation_declined", "event"}
Notices == User \X Kinds
Told(d) == Dispatch(Written(d)).told

LEMMA DeedTells ==
  ASSUME NEW d \in DeedRecord
  PROVE  /\ Concerned(d) \subseteq User
         /\ \E kind \in Kinds : Told(d) = {<<u, kind>> : u \in Concerned(d)}
<1> DEFINE Tells(kind) == Told(d) = {<<u, kind>> : u \in Concerned(d)}
<1>0. /\ d.op \in STRING /\ d.by \in User /\ d.of \in User \cup {Nobody} /\ d.mentions \subseteq User
      /\ Nobody \notin User
  BY NotificationsAssumption DEF DeedRecord
<1>a. ASSUME Concerned(d) \subseteq User, NEW kind \in Kinds, Tells(kind)
      PROVE  /\ Concerned(d) \subseteq User
             /\ \E k \in Kinds : Told(d) = {<<u, k>> : u \in Concerned(d)}
  BY <1>a
<1>1. CASE d.op = "assign"
  <2>1. Written(d) = Payload("task.assigned", [assignee_id |-> d.of, assigned_by |-> d.by], {})
    BY <1>1 DEF Written, AssignTask
  <2>2. Get(Written(d), "assignee_id") = d.of /\ Get(Written(d), "assigned_by") = d.by
    BY <2>1 DEF Get, Payload
  <2>3. Dispatch(Written(d)) = TaskAssigned(Written(d)) BY <2>1 DEF Dispatch, Payload
  <2>4. Told(d) = TellOther(d.of, d.by, "task_assigned") BY <2>2, <2>3 DEF Told, TaskAssigned, Result
  <2>5. Concerned(d) = {d.of} \ {d.by, Nobody} BY <1>1 DEF Concerned
  <2>6. Tells("task_assigned") BY <2>4, <2>5 DEF TellOther, Tell
  <2>7. Concerned(d) \subseteq User BY <1>0, <2>5
  <2> HIDE DEF Tells
  <2> QED BY <1>a, <2>6, <2>7 DEF Kinds
<1>2. CASE d.op = "unassign" \/ d.op = "left"
  <2>1. /\ Written(d).type = "task.unassigned"
        /\ Get(Written(d), "previous_assignee_id") = d.of /\ Get(Written(d), "unassigned_by") = Nobody
    BY <1>2 DEF Written, AssignTask, UnassignRemoved, Payload, Get
  <2>2. Dispatch(Written(d)) = TaskUnassigned(Written(d)) BY <2>1 DEF Dispatch
  <2>3. Told(d) = TellOther(d.of, Nobody, "task_unassigned")
    BY <2>1, <2>2 DEF Told, TaskUnassigned, Result
  <2>4. Concerned(d) = {d.of} \ {Nobody} BY <1>2 DEF Concerned
  <2>5. Tells("task_unassigned") BY <2>3, <2>4 DEF TellOther, Tell
  <2>6. Concerned(d) \subseteq User BY <1>0, <2>4
  <2> HIDE DEF Tells
  <2> QED BY <1>a, <2>5, <2>6 DEF Kinds
<1>3. CASE d.op = "delete"
  <2>1. /\ Written(d).type = "task.deleted"
        /\ Get(Written(d), "assignee_id") = d.of /\ Get(Written(d), "deleted_by") = d.by
    BY <1>3 DEF Written, DeleteTask, Payload, Get
  <2>2. Dispatch(Written(d)) = TaskDeleted(Written(d)) BY <2>1 DEF Dispatch
  <2>3. Told(d) = TellOther(d.of, d.by, "task_deleted") BY <2>1, <2>2 DEF Told, TaskDeleted, Result
  <2>4. Concerned(d) = {d.of} \ {d.by, Nobody} BY <1>3 DEF Concerned
  <2>5. Tells("task_deleted") BY <2>3, <2>4 DEF TellOther, Tell
  <2>6. Concerned(d) \subseteq User BY <1>0, <2>4
  <2> HIDE DEF Tells
  <2> QED BY <1>a, <2>5, <2>6 DEF Kinds
<1>4. CASE d.op = "comment"
  <2>1. /\ Written(d).type = "task.commented" /\ Written(d).mentions = d.mentions
        /\ Get(Written(d), "author_id") = d.by /\ Get(Written(d), "assignee_id") = Nobody
    BY <1>4 DEF Written, CreateComment, Payload, Get
  <2>2. Dispatch(Written(d)) = TaskCommented(Written(d)) BY <2>1 DEF Dispatch
  <2>3. TellOther(Nobody, d.by, "comment_on_my_task") = {} BY DEF TellOther, Tell
  <2>4. Told(d) = {<<u, "mention">> : u \in d.mentions \ {d.by}}
    BY <2>1, <2>2, <2>3 DEF Told, TaskCommented, Result
  <2>5. Concerned(d) = d.mentions \ {d.by} BY <1>4 DEF Concerned
  <2>6. Tells("mention") /\ Concerned(d) \subseteq User BY <1>0, <2>4, <2>5
  <2> HIDE DEF Tells
  <2> QED BY <1>a, <2>6 DEF Kinds
<1>5. CASE d.op \in {"join", "add"}
  <2> DEFINE u == IF d.op = "join" THEN d.by ELSE d.of
  <2>1. Written(d).type = "project.member.added" /\ Get(Written(d), "user_id") = u
    BY <1>5 DEF Written, JoinProject, AddMember, Payload, Get
  <2>2. Dispatch(Written(d)) = MemberAdded(Written(d)) BY <2>1 DEF Dispatch
  <2>3. Told(d) = Tell(u, "project_member_added") BY <2>1, <2>2 DEF Told, MemberAdded, Result
  <2>4. Concerned(d) = {u} \ {Nobody} BY <1>0, <1>5 DEF Concerned
  <2>5. Tells("project_member_added") BY <2>3, <2>4 DEF Tell
  <2>6. Concerned(d) \subseteq User BY <1>0, <2>4
  <2> HIDE DEF Tells
  <2> QED BY <1>a, <2>5, <2>6 DEF Kinds
<1>6. CASE d.op = "remove"
  <2>1. Written(d).type = "project.member.removed" /\ Get(Written(d), "user_id") = d.of
    BY <1>6 DEF Written, RemoveMember, Payload, Get
  <2>2. Dispatch(Written(d)) = MemberRemoved(Written(d)) BY <2>1 DEF Dispatch
  <2>3. Told(d) = Tell(d.of, "project_member_removed") BY <2>1, <2>2 DEF Told, MemberRemoved, Result
  <2>4. Concerned(d) = {d.of} \ {Nobody} BY <1>6 DEF Concerned
  <2>5. Tells("project_member_removed") BY <2>3, <2>4 DEF Tell
  <2>6. Concerned(d) \subseteq User BY <1>0, <2>4
  <2> HIDE DEF Tells
  <2> QED BY <1>a, <2>5, <2>6 DEF Kinds
<1>7. CASE d.op = "invite"
  <2>1. Written(d).type = "project.invitation.sent" /\ Get(Written(d), "invitee_id") = d.of
    BY <1>7 DEF Written, InviteMember, Payload, Get
  <2>2. Dispatch(Written(d)) = InvitationSent(Written(d)) BY <2>1 DEF Dispatch
  <2>3. Told(d) = Tell(d.of, "project_invitation_sent") BY <2>1, <2>2 DEF Told, InvitationSent, Result
  <2>4. Concerned(d) = {d.of} \ {Nobody} BY <1>7 DEF Concerned
  <2>5. Tells("project_invitation_sent") BY <2>3, <2>4 DEF Tell
  <2>6. Concerned(d) \subseteq User BY <1>0, <2>4
  <2> HIDE DEF Tells
  <2> QED BY <1>a, <2>5, <2>6 DEF Kinds
<1>8. CASE d.op = "accept"
  <2>1. Written(d).type = "project.invitation.accepted" /\ Get(Written(d), "invited_by") = d.of
    BY <1>8 DEF Written, AcceptInvitation, Payload, Get
  <2>2. Dispatch(Written(d)) = InvitationAccepted(Written(d)) BY <2>1 DEF Dispatch
  <2>3. Told(d) = Tell(d.of, "project_invitation_accepted")
    BY <2>1, <2>2 DEF Told, InvitationAccepted, Result
  <2>4. Concerned(d) = {d.of} \ {Nobody} BY <1>8 DEF Concerned
  <2>5. Tells("project_invitation_accepted") BY <2>3, <2>4 DEF Tell
  <2>6. Concerned(d) \subseteq User BY <1>0, <2>4
  <2> HIDE DEF Tells
  <2> QED BY <1>a, <2>5, <2>6 DEF Kinds
<1>9. CASE d.op = "decline"
  <2>1. Written(d).type = "project.invitation.declined" /\ Get(Written(d), "invited_by") = d.of
    BY <1>9 DEF Written, DeclineInvitation, Payload, Get
  <2>2. Dispatch(Written(d)) = InvitationDeclined(Written(d)) BY <2>1 DEF Dispatch
  <2>3. Told(d) = Tell(d.of, "project_invitation_declined")
    BY <2>1, <2>2 DEF Told, InvitationDeclined, Result
  <2>4. Concerned(d) = {d.of} \ {Nobody} BY <1>9 DEF Concerned
  <2>5. Tells("project_invitation_declined") BY <2>3, <2>4 DEF Tell
  <2>6. Concerned(d) \subseteq User BY <1>0, <2>4
  <2> HIDE DEF Tells
  <2> QED BY <1>a, <2>5, <2>6 DEF Kinds
<1>10. CASE d.op \notin {"assign", "unassign", "left", "delete", "comment", "join", "add", "remove",
                        "invite", "accept", "decline"}
  <2>1. Written(d) = Payload(d.op, << >>, {}) BY <1>10 DEF Written
  <2> DEFINE e == Written(d)
  <2>2. e.type = d.op /\ e.mentions = {} /\ \A field : Get(e, field) = Nobody
    BY <2>1 DEF Payload, Get
  <2> HIDE DEF e
  <2>3. \A kind, u : Tell(Nobody, kind) = {} /\ TellOther(Nobody, u, kind) = {} BY DEF Tell, TellOther
  <2>4. /\ TaskAssigned(e).told = {} /\ TaskUnassigned(e).told = {} /\ TaskDeleted(e).told = {}
        /\ MemberAdded(e).told = {} /\ MemberRemoved(e).told = {} /\ InvitationSent(e).told = {}
        /\ InvitationAccepted(e).told = {} /\ InvitationDeclined(e).told = {} /\ ProjectDeleted.told = {}
    BY <2>2, <2>3 DEF TaskAssigned, TaskUnassigned, TaskDeleted, MemberAdded, MemberRemoved,
       InvitationSent, InvitationAccepted, InvitationDeclined, ProjectDeleted, Result
  <2>5. TaskCommented(e).told = {}
    <3>1. {<<u, "mention">> : u \in {} \ {Nobody}} = {} OBVIOUS
    <3> QED BY <2>2, <2>3, <3>1 DEF TaskCommented, Result
  <2>6. Dispatch(e).told = {} BY <2>4, <2>5 DEF Dispatch, Result
  <2>7. Concerned(d) = {} BY <1>10 DEF Concerned
  <2>8. Tells("event") BY <2>6, <2>7 DEF Told, e
  <2>9. Concerned(d) \subseteq User BY <2>7
  <2> HIDE DEF Tells
  <2> QED BY <1>a, <2>8, <2>9 DEF Kinds
<1> QED BY <1>1, <1>2, <1>3, <1>4, <1>5, <1>6, <1>7, <1>8, <1>9, <1>10

LEMMA DeedPushes == ASSUME NEW d \in DeedRecord PROVE Dispatch(Written(d)).pushes \in Seq(Channel)
<1>2. <<"board", "task">> \in Seq(Channel) /\ << >> \in Seq(Channel)
      /\ \A c \in Channel : <<c>> \in Seq(Channel)
  BY DEF Channel
<1>1. ASSUME NEW t PROVE ChannelsOf(t) \in Seq(Channel)
  BY <1>2 DEF ChannelsOf, Channel
<1> QED
  BY <1>1, <1>2 DEF Dispatch, TaskAssigned, TaskUnassigned, TaskDeleted, TaskCommented, MemberAdded,
     MemberRemoved, ProjectDeleted, InvitationSent, InvitationAccepted, InvitationDeclined, Result, Channel

-----------------------------------------------------------------------------
(* What there is                                                           *)

Frame == [to : User \cup Channel \cup {"reply"}, event : EventId \cup {None}, kind : Kinds \cup {None}, no : Nat]
Job == [event : EventId \cup {None}, todo : SUBSET Notices, push : SUBSET Notices,
        channels : Seq(Channel), step : {"idle", "save", "ack"}]

Events == DOMAIN about
RowOf(e, n) == <<n[1], e, n[2]>>
FrameRow(f) == <<f.to, f.event, f.kind>>

JobOK(i) ==
  \/ job[i] = NoJob
  \/ /\ job[i].step \in {"save", "ack"} /\ job[i].event \in Events
     /\ job[i].todo \subseteq Told(about[job[i].event]) /\ job[i].push \subseteq job[i].todo
StoreOK ==
  /\ Events \subseteq EventId /\ about \in [Events -> DeedRecord]
  /\ waiting \subseteq Events /\ processedEvents \subseteq Events
  /\ job \in [Instance -> Job] /\ \A i \in Instance : JobOK(i)
LogOK ==
  /\ log \in Seq(Frame)
  /\ \A n \in 1..Len(log) : log[n].no = n /\ log[n].to # "reply"

(* Who is told of an event has a row or is still to get it, and there are  *)
(* no other rows.                                                          *)
Stored == rows \cup removed \cup unsaved
RowsTell == \A r \in rows : \E e \in Events : \E n \in Told(about[e]) : r = RowOf(e, n)
JobsStore ==
  \A i \in Instance : job[i].step = "save" =>
    \A n \in Told(about[job[i].event]) :
      (n \in job[i].todo /\ n \notin job[i].push) \/ RowOf(job[i].event, n) \in Stored
EventsStored == \A e \in processedEvents : \A n \in Told(about[e]) : RowOf(e, n) \in Stored
StoreInv == RowsTell /\ JobsStore /\ EventsStored

(* Who is pushed a row has it, or it was deleted; and deleted it was if he *)
(* was pushed it before or another instance is about to.                   *)
ForUser(f) == f.to \notin Channel
Pushed(r) == \E n \in 1..Len(log) : ForUser(log[n]) /\ FrameRow(log[n]) = r
FramesAreRows ==
  \A m \in 1..Len(log) : ForUser(log[m]) =>
    /\ FrameRow(log[m]) \in rows \cup removed
    /\ log[m].event \in Events /\ <<log[m].to, log[m].kind>> \in Told(about[log[m].event])
PushesAreRows ==
  \A i \in Instance : \A n \in job[i].push :
    LET r == RowOf(job[i].event, n)
    IN /\ r \in rows \cup removed
       /\ Pushed(r) => r \in removed
       /\ \A j \in Instance \ {i} : job[j].event = job[i].event /\ n \in job[j].push => r \in removed
OnceInv == FramesAreRows /\ PushesAreRows /\ PushedOnce

USE NotificationsAssumption DEF None

(* The steps, by what they are about *)
UsersCall ==
  \/ \E u \in User : MarkAllRead(u)
  \/ \E r \in rows : MarkRead(r) \/ DeleteNotification(r)
  \/ DeleteOldNotifications
HubActs(i) == Route(i) \/ Restart(i) \/ LoseRedis(i) \/ \E c \in Conn : Send(i, c)
PermissionsChange ==
  (\E u \in User : MemberLeaves(u)) \/ \E i \in Instance : \E u \in User : CacheExpires(i, u)
Elsewhere == UNCHANGED <<storeVars, log>>

LEMMA NotificationSteps ==
  ASSUME [NotificationsNext]_notificationVars
  PROVE  \/ \E i \in Instance : Handle(i)
         \/ UsersCall
         \/ \E i \in Instance : HubActs(i)
         \/ \E i \in Instance : Panic(i) \/ Crash(i)
         \/ \E c \in Conn : Connection(c)
         \/ PermissionsChange
         \/ UNCHANGED notificationVars
  BY DEF NotificationsNext, UsersCall, HubActs, PermissionsChange

LEMMA OthersAreElsewhere ==
  ASSUME \/ \E i \in Instance : HubActs(i)
         \/ \E c \in Conn : Connection(c)
         \/ PermissionsChange
         \/ UNCHANGED notificationVars
  PROVE  Elsewhere
<1>1. CASE \E i \in Instance : HubActs(i)
  BY <1>1 DEF HubActs, Route, Restart, LoseRedis, Send, Elsewhere
<1>2. CASE \E c \in Conn : Connection(c)
  BY <1>2 DEF Connection, RegisterConnection, RegisterFails, OpenConnection, RunWriter, WriteFails,
     ReaderEnds, Ping, Subscribe, Unsubscribe, CheckChannelPermission, AddSubscription,
     OnlyConnected, Elsewhere
<1>3. CASE PermissionsChange BY <1>3 DEF PermissionsChange, MemberLeaves, CacheExpires, Elsewhere
<1>4. CASE UNCHANGED notificationVars BY <1>4 DEF notificationVars, Elsewhere
<1> QED BY <1>1, <1>2, <1>3, <1>4

LEMMA CallsGive ==
  ASSUME UsersCall
  PROVE  /\ UNCHANGED <<waiting, processedEvents, about, job, unsaved, log>>
         /\ \E which \in SUBSET rows : rows' = rows \ which /\ removed' = removed \cup which
<1>1. UNCHANGED <<waiting, processedEvents, about, job, unsaved, log>>
  BY DEF UsersCall, MarkAllRead, MarkRead, DeleteNotification, DeleteOldNotifications, Delete, OnlyStored
<1>2. CASE UNCHANGED <<rows, removed>>
  <2>1. rows' = rows \ {} /\ removed' = removed \cup {} BY <1>2
  <2> QED BY <1>1, <2>1
<1>3. CASE \E r \in rows : DeleteNotification(r)
  <2>1. PICK r \in rows : DeleteNotification(r) BY <1>3
  <2>2. {r} \in SUBSET rows BY <2>1
  <2> QED BY <1>1, <2>1, <2>2 DEF DeleteNotification, Delete
<1>4. CASE DeleteOldNotifications
  <2>1. PICK old : Delete({r \in rows : r[2] \in old}) BY <1>4 DEF DeleteOldNotifications
  <2>2. {r \in rows : r[2] \in old} \in SUBSET rows OBVIOUS
  <2> QED BY <1>1, <2>1, <2>2 DEF Delete
<1>5. UNCHANGED <<rows, removed>> \/ (\E r \in rows : DeleteNotification(r)) \/ DeleteOldNotifications
  BY DEF UsersCall, MarkAllRead, MarkRead
<1> QED BY <1>2, <1>3, <1>4, <1>5

LEMMA ToldAre ==
  ASSUME NEW d \in DeedRecord
  PROVE  /\ Told(d) \subseteq Notices
         /\ \A n \in Told(d) : n = <<n[1], n[2]>> /\ n[1] \in Concerned(d) /\ n[1] \in User
         /\ \A m, n \in Told(d) : m[1] = n[1] => m = n
         /\ \A u \in Concerned(d) : \E n \in Told(d) : n[1] = u
<1>1. PICK kind \in Kinds : Told(d) = {<<u, kind>> : u \in Concerned(d)} BY DeedTells
<1>2. Concerned(d) \subseteq User BY DeedTells
<1>3. \A n \in Told(d) : \E u \in Concerned(d) : n = <<u, kind>> BY <1>1
<1>4. Told(d) \subseteq Notices BY <1>2, <1>3 DEF Notices
<1>5. \A n \in Told(d) : n = <<n[1], n[2]>> /\ n[1] \in Concerned(d) /\ n[1] \in User
  BY <1>2, <1>3
<1>6. \A m, n \in Told(d) : m[1] = n[1] => m = n BY <1>3
<1>7. ASSUME NEW u \in Concerned(d) PROVE \E n \in Told(d) : n[1] = u
  <2>1. <<u, kind>> \in Told(d) /\ <<u, kind>>[1] = u BY <1>1
  <2> QED BY <2>1
<1> QED BY <1>4, <1>5, <1>6, <1>7

LEMMA JobSet ==
  ASSUME StoreOK, NEW i \in Instance, NEW j \in Job, job' = [job EXCEPT ![i] = j],
         \/ j = NoJob
         \/ /\ j.step \in {"save", "ack"} /\ j.event \in Events
            /\ j.todo \subseteq Told(about[j.event]) /\ j.push \subseteq j.todo,
         waiting' \subseteq Events, processedEvents' \subseteq Events, UNCHANGED about
  PROVE  StoreOK'
<1>1. job' \in [Instance -> Job] /\ \A k \in Instance : job'[k] = IF k = i THEN j ELSE job[k]
  BY DEF StoreOK
<1>2. Events' = Events BY DEF Events
<1>3. \A k \in Instance : JobOK(k)'
  BY <1>1, <1>2 DEF StoreOK, JobOK
<1> QED BY <1>1, <1>2, <1>3 DEF StoreOK

(* Nothing is stored or pushed that was not *)
LEMMA JobIs ==
  ASSUME StoreOK, NEW i \in Instance
  PROVE  /\ job[i] \in Job /\ JobOK(i)
         /\ job[i] # NoJob =>
              /\ job[i].event \in Events /\ about[job[i].event] \in DeedRecord
              /\ Told(about[job[i].event]) \subseteq Notices
         /\ job[i].step = "idle" <=> job[i] = NoJob
<1>1. job[i] \in Job /\ JobOK(i) BY DEF StoreOK
<1>2. job[i] # NoJob => job[i].event \in Events /\ about[job[i].event] \in DeedRecord
  BY <1>1 DEF JobOK, StoreOK
<1>3. job[i].step = "idle" <=> job[i] = NoJob BY <1>1 DEF JobOK, NoJob
<1> QED BY <1>1, <1>2, <1>3, ToldAre

LEMMA RowsStay ==
  ASSUME StoreInv, UNCHANGED about,
         \A r \in rows' : r \in rows \/ \E e \in Events : \E n \in Told(about[e]) : r = RowOf(e, n)
  PROVE  RowsTell'
<1>2. Events' = Events BY DEF Events
<1>3. \A r \in rows' : \E e \in Events : \E n \in Told(about[e]) : r = RowOf(e, n)
  BY DEF StoreInv, RowsTell
<1> QED BY <1>2, <1>3 DEF RowsTell

LEMMA EventsStay ==
  ASSUME StoreInv, Stored \subseteq Stored', UNCHANGED <<about, processedEvents>>
  PROVE  EventsStored'
  BY DEF StoreInv, EventsStored

LEMMA JobsStay ==
  ASSUME StoreOK, StoreInv, Stored \subseteq Stored', UNCHANGED about, NEW i \in Instance, NEW j \in Job,
         job' = [job EXCEPT ![i] = j],
         j.step = "save" =>
           \A n \in Told(about[j.event]) : (n \in j.todo /\ n \notin j.push) \/ RowOf(j.event, n) \in Stored'
  PROVE  JobsStore'
<1>1. \A k \in Instance : job'[k] = IF k = i THEN j ELSE job[k] BY DEF StoreOK
<1> SUFFICES ASSUME NEW k \in Instance, job'[k].step = "save",
                    NEW n \in Told(about'[job'[k].event])
             PROVE  (n \in job'[k].todo /\ n \notin job'[k].push) \/ RowOf(job'[k].event, n) \in Stored'
  BY DEF JobsStore
<1>2. CASE k = i BY <1>1, <1>2
<1>3. CASE k # i
  <2>1. job'[k] = job[k] BY <1>1, <1>3
  <2> QED BY <2>1 DEF StoreInv, JobsStore
<1> QED BY <1>2, <1>3

PushesShrink ==
  \A k \in Instance :
    job'[k].push = {} \/ (job'[k].event = job[k].event /\ job'[k].push \subseteq job[k].push)
RowsGrow == rows \cup removed \subseteq rows' \cup removed' /\ removed \subseteq removed'

LEMMA NoneIsPushed ==
  ASSUME OnceInv, UNCHANGED <<log, about>>, RowsGrow, PushesShrink
  PROVE  OnceInv'
<1>1. FramesAreRows'
  BY DEF OnceInv, FramesAreRows, RowsGrow, ForUser, Events
<1>2. \A r : Pushed(r)' <=> Pushed(r) BY DEF Pushed, ForUser
<1>3. PushesAreRows'
  <2> SUFFICES ASSUME NEW i \in Instance, NEW n \in job'[i].push, NEW r, r = RowOf(job'[i].event, n)
               PROVE  /\ r \in rows' \cup removed'
                      /\ Pushed(r) => r \in removed'
                      /\ \A j \in Instance \ {i} :
                           job'[j].event = job'[i].event /\ n \in job'[j].push => r \in removed'
    BY <1>2 DEF PushesAreRows
  <2>1. job'[i].event = job[i].event /\ n \in job[i].push BY DEF PushesShrink
  <2>2. /\ r \in rows \cup removed
        /\ Pushed(r) => r \in removed
        /\ \A j \in Instance \ {i} : job[j].event = job[i].event /\ n \in job[j].push => r \in removed
    BY <2>1 DEF OnceInv, PushesAreRows
  <2> QED BY <2>1, <2>2 DEF RowsGrow, PushesShrink
<1>4. PushedOnce' BY DEF OnceInv, PushedOnce, RowsGrow
<1> QED BY <1>1, <1>3, <1>4 DEF OnceInv

NotifyInv == StoreOK /\ LogOK /\ StoreInv /\ OnceInv

LEMMA TakingKeeps ==
  ASSUME NotifyInv, NEW i \in Instance, TakeEvent(i)
  PROVE  NotifyInv'
<1>1. PICK e \in waiting :
        /\ waiting' = waiting \ {e}
        /\ IF e \in processedEvents THEN UNCHANGED job
           ELSE LET result == Dispatch(Written(about[e]))
                IN SetJob(i, [event |-> e, todo |-> result.told, push |-> {},
                              channels |-> result.pushes, step |-> "save"])
  BY DEF TakeEvent
<1>2. UNCHANGED <<processedEvents, about, rows, removed, unsaved, log>> /\ job[i] = NoJob
  BY DEF TakeEvent, OnlyHandled
<1>3. e \in Events /\ about[e] \in DeedRecord BY DEF NotifyInv, StoreOK
<1> DEFINE taken == [event |-> e, todo |-> Told(about[e]), push |-> {},
                     channels |-> Dispatch(Written(about[e])).pushes, step |-> "save"]
<1>4. taken \in Job
  <2>1. Told(about[e]) \subseteq Notices BY <1>3, ToldAre
  <2>2. Dispatch(Written(about[e])).pushes \in Seq(Channel) BY <1>3, DeedPushes
  <2>3. e \in EventId BY <1>3 DEF NotifyInv, StoreOK
  <2> QED BY <2>1, <2>2, <2>3 DEF Job
<1>5. PICK j \in Job : /\ job' = [job EXCEPT ![i] = j]
                       /\ j = NoJob \/ j = taken
  <2>1. CASE e \in processedEvents
    <3>1. job' = [job EXCEPT ![i] = job[i]] /\ job[i] \in Job
      BY <1>1, <2>1 DEF NotifyInv, StoreOK
    <3> QED BY <1>2, <3>1
  <2>2. CASE e \notin processedEvents
    BY <1>1, <1>4, <2>2 DEF SetJob, Told
  <2> QED BY <2>1, <2>2
<1>6. /\ j.push = {} /\ (j.step = "save" => j = taken)
      /\ j = NoJob \/ (/\ j.step \in {"save", "ack"} /\ j.event \in Events
                       /\ j.todo \subseteq Told(about[j.event]) /\ j.push \subseteq j.todo)
  BY <1>3, <1>5 DEF NoJob
<1>7. StoreOK'
  <2>1. waiting' \subseteq Events /\ processedEvents' \subseteq Events BY <1>1, <1>2 DEF NotifyInv, StoreOK
  <2> HIDE DEF taken
  <2> QED BY <1>2, <1>5, <1>6, <2>1, JobSet DEF NotifyInv
<1>8. LogOK' BY <1>2 DEF NotifyInv, LogOK
<1>9. StoreInv'
  <2>1. RowsTell' BY <1>2, RowsStay DEF NotifyInv
  <2>2. Stored \subseteq Stored' BY <1>2 DEF Stored
  <2>3. EventsStored' BY <1>2, <2>2, EventsStay DEF NotifyInv
  <2>4. j.step = "save" => \A n \in Told(about[j.event]) : n \in j.todo /\ n \notin j.push BY <1>6
  <2>5. JobsStore' BY <1>2, <1>5, <2>2, <2>4, JobsStay DEF NotifyInv
  <2> QED BY <2>1, <2>3, <2>5 DEF StoreInv
<1>10. OnceInv'
  <2>1. PushesShrink BY <1>5, <1>6 DEF PushesShrink, NotifyInv, StoreOK
  <2> QED BY <1>2, <2>1, NoneIsPushed DEF NotifyInv, RowsGrow
<1> QED BY <1>7, <1>8, <1>9, <1>10 DEF NotifyInv

(* A notification that is not pushed is taken off the list. *)
LEMMA SkippingKeeps ==
  ASSUME NotifyInv, NEW i \in Instance, NEW n \in job[i].todo, ToSave(i, n),
         job' = [job EXCEPT ![i] = [job[i] EXCEPT !.todo = @ \ {n}]],
         UNCHANGED <<waiting, processedEvents, about, rows, removed, log>>,
         unsaved \subseteq unsaved', Row(i, n) \in Stored'
  PROVE  NotifyInv'
<1>1. PICK k : k = job[i] OBVIOUS
<1> DEFINE j == [k EXCEPT !.todo = @ \ {n}]
<1>2. /\ k \in Job /\ k # NoJob /\ k.step = "save" /\ k.push = {} /\ k.event \in Events
      /\ k.todo \subseteq Told(about[k.event]) /\ about[k.event] \in DeedRecord
  <2>1. k.step = "save" /\ k.push = {} BY <1>1 DEF ToSave
  <2> QED BY <1>1, <2>1, JobIs DEF NotifyInv, JobOK, NoJob
<1>3. /\ j \in Job /\ j.step = k.step /\ j.event = k.event /\ j.push = k.push /\ j.todo = k.todo \ {n}
  BY <1>2 DEF Job
<1>4. job' = [job EXCEPT ![i] = j] BY <1>1
<1> HIDE DEF j
<1>5. StoreOK'
  <2>1. waiting' \subseteq Events /\ processedEvents' \subseteq Events BY DEF NotifyInv, StoreOK
  <2>2. j.step \in {"save", "ack"} /\ j.event \in Events BY <1>2, <1>3
  <2>3. j.todo \subseteq Told(about[j.event]) /\ j.push \subseteq j.todo BY <1>2, <1>3
  <2> QED BY <1>3, <1>4, <2>1, <2>2, <2>3, JobSet DEF NotifyInv
<1>6. LogOK' BY DEF NotifyInv, LogOK
<1>7. StoreInv'
  <2>1. RowsTell' BY RowsStay DEF NotifyInv
  <2>2. Stored \subseteq Stored' BY DEF Stored
  <2>3. EventsStored' BY <2>2, EventsStay DEF NotifyInv
  <2>4. ASSUME NEW m \in Told(about[j.event])
        PROVE  (m \in j.todo /\ m \notin j.push) \/ RowOf(j.event, m) \in Stored'
    <3>1. CASE m = n BY <1>1, <1>3, <3>1 DEF Row, RowOf
    <3>2. CASE m # n
      <4>1. (m \in k.todo /\ m \notin k.push) \/ RowOf(k.event, m) \in Stored
        BY <1>1, <1>2, <1>3 DEF NotifyInv, StoreInv, JobsStore
      <4> QED BY <1>3, <2>2, <3>2, <4>1
    <3> QED BY <3>1, <3>2
  <2>5. JobsStore' BY <1>3, <1>4, <2>2, <2>4, JobsStay DEF NotifyInv
  <2> QED BY <2>1, <2>3, <2>5 DEF StoreInv
<1>8. OnceInv'
  <2>1. PushesShrink BY <1>2, <1>3, <1>4 DEF PushesShrink, NotifyInv, StoreOK
  <2> QED BY <2>1, NoneIsPushed DEF NotifyInv, RowsGrow
<1> QED BY <1>5, <1>6, <1>7, <1>8 DEF NotifyInv

LEMMA CreatingKeeps ==
  ASSUME NotifyInv, NEW i \in Instance, NEW n \in job[i].todo, CreateNotification(i, n)
  PROVE  NotifyInv'
<1>1. ToSave(i, n) /\ UNCHANGED <<waiting, processedEvents, about, removed, unsaved, log>>
  BY DEF CreateNotification, OnlyHandled
<1>2. CASE Duplicate(Row(i, n))
  <2>1. rows' = rows /\ job' = [job EXCEPT ![i] = [job[i] EXCEPT !.todo = @ \ {n}]]
    BY <1>2 DEF CreateNotification, SetJob
  <2>2. Row(i, n) \in Stored' BY <1>2, <2>1 DEF Stored, Duplicate
  <2> QED BY <1>1, <2>1, <2>2, SkippingKeeps
<1>3. CASE ~Duplicate(Row(i, n))
  <2>1. PICK k : k = job[i] OBVIOUS
  <2> DEFINE j == [k EXCEPT !.push = {n}]
  <2>2. /\ k \in Job /\ k # NoJob /\ k.step = "save" /\ k.push = {} /\ k.event \in Events
        /\ k.todo \subseteq Told(about[k.event]) /\ about[k.event] \in DeedRecord /\ n \in k.todo
    <3>1. k.step = "save" /\ k.push = {} BY <1>1, <2>1 DEF ToSave
    <3> QED BY <2>1, <3>1, JobIs DEF NotifyInv, JobOK, NoJob
  <2>3. n \in Notices BY <2>2 DEF Job
  <2>4. /\ j \in Job /\ j.step = k.step /\ j.event = k.event /\ j.push = {n} /\ j.todo = k.todo
    BY <2>2, <2>3 DEF Job
  <2>5. job' = [job EXCEPT ![i] = j] BY <1>3, <2>1 DEF CreateNotification, SetJob
  <2>6. PICK r : r = RowOf(k.event, n) OBVIOUS
  <2>7. rows' = rows \cup {r} /\ r \notin rows
    BY <1>3, <2>1, <2>6 DEF CreateNotification, Duplicate, Row, RowOf
  <2> HIDE DEF j
  <2>8. \A q \in Instance : job'[q] = IF q = i THEN j ELSE job[q] BY <2>5 DEF NotifyInv, StoreOK
  <2>9. StoreOK'
    <3>1. waiting' \subseteq Events /\ processedEvents' \subseteq Events
      BY <1>1 DEF NotifyInv, StoreOK
    <3>2. j.step \in {"save", "ack"} /\ j.event \in Events BY <2>2, <2>4
    <3>3. j.todo \subseteq Told(about[j.event]) /\ j.push \subseteq j.todo BY <2>2, <2>4
    <3> QED BY <1>1, <2>4, <2>5, <3>1, <3>2, <3>3, JobSet DEF NotifyInv
  <2>10. LogOK' BY <1>1 DEF NotifyInv, LogOK
  <2>11. StoreInv'
    <3>1. RowsTell' BY <1>1, <2>2, <2>6, <2>7, RowsStay DEF NotifyInv
    <3>2. Stored \subseteq Stored' /\ r \in Stored' BY <1>1, <2>7 DEF Stored
    <3>3. EventsStored' BY <1>1, <3>2, EventsStay DEF NotifyInv
    <3>4. ASSUME NEW m \in Told(about[j.event])
          PROVE  (m \in j.todo /\ m \notin j.push) \/ RowOf(j.event, m) \in Stored'
      <4>1. CASE m = n BY <2>4, <2>6, <3>2, <4>1
      <4>2. CASE m # n
        <5>1. (m \in k.todo /\ m \notin k.push) \/ RowOf(k.event, m) \in Stored
          BY <2>1, <2>2, <2>4 DEF NotifyInv, StoreInv, JobsStore
        <5> QED BY <2>4, <3>2, <4>2, <5>1
      <4> QED BY <4>1, <4>2
    <3>5. JobsStore' BY <1>1, <2>4, <2>5, <3>2, <3>4, JobsStay DEF NotifyInv
    <3> QED BY <3>1, <3>3, <3>5 DEF StoreInv
  <2>12. OnceInv'
    <3>1. FramesAreRows'
      BY <1>1, <2>7 DEF NotifyInv, OnceInv, FramesAreRows, ForUser, Events
    <3>2. \A x : Pushed(x)' <=> Pushed(x) BY <1>1 DEF Pushed, ForUser
    <3>3. Pushed(r) => r \in removed
      BY <2>7 DEF NotifyInv, OnceInv, FramesAreRows, Pushed
    <3>4. ASSUME NEW q \in Instance \ {i}, job[q].event = k.event, n \in job[q].push
          PROVE  r \in removed
      BY <2>6, <2>7, <3>4 DEF NotifyInv, OnceInv, PushesAreRows
    <3>5. PushesAreRows'
      <4> SUFFICES ASSUME NEW q \in Instance, NEW m \in job'[q].push, NEW x, x = RowOf(job'[q].event, m)
                   PROVE  /\ x \in rows' \cup removed
                          /\ Pushed(x) => x \in removed
                          /\ \A p \in Instance \ {q} :
                               job'[p].event = job'[q].event /\ m \in job'[p].push => x \in removed
        BY <1>1, <3>2 DEF PushesAreRows
      <4>1. CASE q = i
        <5>1. m = n /\ x = r /\ job'[q].event = k.event BY <2>4, <2>6, <2>8, <4>1
        <5> QED BY <2>7, <2>8, <3>3, <3>4, <4>1, <5>1
      <4>2. CASE q # i
        <5>1. m \in job[q].push /\ job'[q].event = job[q].event /\ x = RowOf(job[q].event, m)
          BY <2>8, <4>2
        <5>2. /\ x \in rows \cup removed
              /\ Pushed(x) => x \in removed
              /\ \A p \in Instance \ {q} :
                   job[p].event = job[q].event /\ m \in job[p].push => x \in removed
          BY <5>1 DEF NotifyInv, OnceInv, PushesAreRows
        <5>3. ASSUME job'[i].event = job[q].event, m \in job'[i].push PROVE x \in removed
          <6>1. m = n /\ k.event = job[q].event BY <2>4, <2>8, <5>3
          <6> QED BY <2>6, <3>4, <4>2, <5>1, <6>1
        <5> QED BY <2>7, <2>8, <5>1, <5>2, <5>3
      <4> QED BY <4>1, <4>2
    <3>6. PushedOnce' BY <1>1 DEF NotifyInv, OnceInv, PushedOnce
    <3> QED BY <3>1, <3>5, <3>6 DEF OnceInv
  <2> QED BY <2>9, <2>10, <2>11, <2>12 DEF NotifyInv
<1> QED BY <1>2, <1>3

LEMMA FailingKeeps ==
  ASSUME NotifyInv, NEW i \in Instance, NEW n \in job[i].todo, CreateFails(i, n)
  PROVE  NotifyInv'
<1>1. /\ ToSave(i, n) /\ UNCHANGED <<waiting, processedEvents, about, rows, removed, log>>
      /\ job' = [job EXCEPT ![i] = [job[i] EXCEPT !.todo = @ \ {n}]]
      /\ unsaved' = unsaved \cup {Row(i, n)}
  BY DEF CreateFails, OnlyHandled, SetJob
<1>2. Row(i, n) \in Stored' BY <1>1 DEF Stored
<1> QED BY <1>1, <1>2, SkippingKeeps

LEMMA LogGrows ==
  ASSUME LogOK, NEW f \in Frame, log' = Append(log, f)
  PROVE  /\ Len(log') = Len(log) + 1 /\ Len(log) \in Nat
         /\ log'[Len(log) + 1] = f
         /\ \A n \in 1..Len(log) : log'[n] = log[n]
         /\ f.no = Len(log) + 1 /\ f.to # "reply" => LogOK'
<1>1. log \in Seq(Frame) BY DEF LogOK
<1>2. /\ Len(log') = Len(log) + 1 /\ Len(log) \in Nat
      /\ log'[Len(log) + 1] = f
      /\ \A n \in 1..Len(log) : log'[n] = log[n]
  BY <1>1
<1>3. ASSUME f.no = Len(log) + 1, f.to # "reply" PROVE LogOK'
  <2>1. log' \in Seq(Frame) BY <1>1
  <2>2. ASSUME NEW n \in 1..Len(log') PROVE log'[n].no = n /\ log'[n].to # "reply"
    <3>1. n \in 1..Len(log) \/ n = Len(log) + 1 BY <1>2
    <3> QED BY <1>2, <1>3, <3>1 DEF LogOK
  <2> QED BY <2>1, <2>2 DEF LogOK
<1> QED BY <1>2, <1>3

(* A push takes a notification or a channel off the list, whether it could *)
(* be published or not.                                                    *)
LEMMA JobsShrink ==
  ASSUME NotifyInv, NEW i \in Instance, NEW j \in Job, job' = [job EXCEPT ![i] = j],
         job[i] # NoJob, j.event = job[i].event, j.step = job[i].step, j.push = {},
         j.todo \subseteq job[i].todo, job[i].todo \ j.todo \subseteq job[i].push,
         UNCHANGED <<waiting, processedEvents, about, rows, removed, unsaved>>
  PROVE  StoreOK' /\ StoreInv' /\ PushesShrink
<1>1. /\ job[i] \in Job /\ job[i].step \in {"save", "ack"} /\ job[i].event \in Events
      /\ job[i].todo \subseteq Told(about[job[i].event])
  BY JobIs DEF NotifyInv, JobOK
<1>2. StoreOK'
  <2>1. waiting' \subseteq Events /\ processedEvents' \subseteq Events BY DEF NotifyInv, StoreOK
  <2>2. j.step \in {"save", "ack"} /\ j.event \in Events BY <1>1
  <2>3. j.todo \subseteq Told(about[j.event]) /\ j.push \subseteq j.todo BY <1>1
  <2> QED BY <2>1, <2>2, <2>3, JobSet DEF NotifyInv
<1>3. StoreInv'
  <2>1. RowsTell' BY RowsStay DEF NotifyInv
  <2>2. Stored' = Stored BY DEF Stored
  <2>3. EventsStored' BY <2>2, EventsStay DEF NotifyInv
  <2>4. ASSUME j.step = "save", NEW m \in Told(about[j.event])
        PROVE  (m \in j.todo /\ m \notin j.push) \/ RowOf(j.event, m) \in Stored'
    <3>1. (m \in job[i].todo /\ m \notin job[i].push) \/ RowOf(job[i].event, m) \in Stored
      BY <2>4 DEF NotifyInv, StoreInv, JobsStore
    <3> QED BY <2>2, <3>1
  <2>5. JobsStore' BY <2>2, <2>4, JobsStay DEF NotifyInv
  <2> QED BY <2>1, <2>3, <2>5 DEF StoreInv
<1>4. PushesShrink BY DEF PushesShrink, NotifyInv, StoreOK
<1> QED BY <1>2, <1>3, <1>4

LEMMA PushingKeeps ==
  ASSUME NotifyInv, NEW i \in Instance, BroadcastToUser(i)
  PROVE  NotifyInv'
<1>1. PICK k : k = job[i] OBVIOUS
<1>2. PICK n \in k.push :
        /\ \/ PublishFrame(n[1], k.event, n[2])
           \/ UNCHANGED log
        /\ SetJob(i, [k EXCEPT !.todo = @ \ {n}, !.push = {}])
  BY <1>1 DEF BroadcastToUser
<1>3. UNCHANGED <<waiting, processedEvents, about, rows, removed, unsaved>>
  BY DEF BroadcastToUser, OnlyPushed
<1>4. /\ k \in Job /\ k # NoJob /\ k.event \in Events /\ k.event \in EventId
      /\ n \in Told(about[k.event]) /\ about[k.event] \in DeedRecord
  <2>1. k # NoJob BY <1>2 DEF NoJob
  <2> QED BY <1>1, <1>2, <2>1, JobIs DEF NotifyInv, StoreOK, JobOK
<1>5. n = <<n[1], n[2]>> /\ n[1] \in User /\ n[2] \in Kinds BY <1>4, ToldAre DEF Notices
<1> DEFINE j == [k EXCEPT !.todo = @ \ {n}, !.push = {}]
<1>6. /\ j \in Job /\ j.event = k.event /\ j.step = k.step /\ j.push = {} /\ j.todo = k.todo \ {n}
  BY <1>4 DEF Job
<1>7. job' = [job EXCEPT ![i] = j] BY <1>2 DEF SetJob
<1> HIDE DEF j
<1>8. StoreOK' /\ StoreInv' /\ PushesShrink BY <1>1, <1>2, <1>3, <1>4, <1>6, <1>7, JobsShrink
<1>9. CASE UNCHANGED log
  <2>1. LogOK' BY <1>9 DEF NotifyInv, LogOK
  <2>2. OnceInv' BY <1>3, <1>8, <1>9, NoneIsPushed DEF NotifyInv, RowsGrow
  <2> QED BY <1>8, <2>1, <2>2 DEF NotifyInv
<1>10. CASE PublishFrame(n[1], k.event, n[2])
  <2> DEFINE f == [to |-> n[1], event |-> k.event, kind |-> n[2], no |-> Len(log) + 1]
  <2>1. f \in Frame /\ f.no = Len(log) + 1 /\ f.to # "reply"
    <3>1. Len(log) \in Nat BY DEF NotifyInv, LogOK
    <3> QED BY <1>4, <1>5, <3>1 DEF Frame
  <2>2. PICK r : r = RowOf(k.event, n) OBVIOUS
  <2>3. /\ f.to = n[1] /\ f.event = k.event /\ f.kind = n[2]
        /\ ForUser(f) /\ FrameRow(f) = r /\ <<f.to, f.kind>> = n
    BY <1>5, <2>2 DEF ForUser, FrameRow, RowOf
  <2>4. log' = Append(log, f) BY <1>10 DEF PublishFrame
  <2> HIDE DEF f
  <2>5. /\ Len(log') = Len(log) + 1 /\ Len(log) \in Nat /\ log'[Len(log) + 1] = f
        /\ \A m \in 1..Len(log) : log'[m] = log[m]
        /\ LogOK'
    BY <2>1, <2>4, LogGrows DEF NotifyInv
  <2>6. \A m \in 1..Len(log') : m \in 1..Len(log) \/ (m = Len(log) + 1 /\ log'[m] = f) BY <2>5
  <2>7. /\ r \in rows \cup removed
        /\ Pushed(r) => r \in removed
        /\ \A q \in Instance \ {i} : job[q].event = k.event /\ n \in job[q].push => r \in removed
    BY <1>1, <1>2, <2>2 DEF NotifyInv, OnceInv, PushesAreRows
  <2>8. FramesAreRows'
    <3> SUFFICES ASSUME NEW m \in 1..Len(log'), ForUser(log'[m])
                 PROVE  /\ FrameRow(log'[m]) \in rows \cup removed /\ log'[m].event \in Events
                        /\ <<log'[m].to, log'[m].kind>> \in Told(about[log'[m].event])
      BY <1>3 DEF FramesAreRows, ForUser, FrameRow, Events
    <3>1. CASE m \in 1..Len(log)
      BY <2>5, <3>1 DEF NotifyInv, OnceInv, FramesAreRows
    <3>2. CASE log'[m] = f BY <1>4, <2>3, <2>7, <3>2
    <3> QED BY <2>6, <3>1, <3>2
  <2>9. \A x : Pushed(x)' => Pushed(x) \/ x = r
    BY <2>3, <2>5, <2>6 DEF Pushed, ForUser, FrameRow
  <2>10. PushesAreRows'
    <3> SUFFICES ASSUME NEW q \in Instance, NEW m \in job'[q].push, NEW x, x = RowOf(job'[q].event, m)
                 PROVE  /\ x \in rows \cup removed
                        /\ Pushed(x) \/ x = r => x \in removed
                        /\ \A p \in Instance \ {q} :
                             job'[p].event = job'[q].event /\ m \in job'[p].push => x \in removed
      BY <1>3, <2>9 DEF PushesAreRows
    <3>1. q # i /\ job'[q] = job[q] BY <1>6, <1>7 DEF NotifyInv, StoreOK
    <3>2. /\ x \in rows \cup removed
          /\ Pushed(x) => x \in removed
          /\ \A p \in Instance \ {q} :
               job[p].event = job[q].event /\ m \in job[p].push => x \in removed
      BY <3>1 DEF NotifyInv, OnceInv, PushesAreRows
    <3>3. ASSUME x = r PROVE x \in removed
      <4>1. job[q] # NoJob BY <3>1 DEF NoJob
      <4>2. m \in Told(about[job[q].event]) /\ about[job[q].event] \in DeedRecord
        BY <3>1, <4>1, JobIs DEF NotifyInv, JobOK
      <4>3. m = <<m[1], m[2]>> BY <4>2, ToldAre
      <4>4. job[q].event = k.event /\ m = n BY <1>5, <2>2, <3>1, <3>3, <4>3 DEF RowOf
      <4> QED BY <2>7, <3>1, <3>3, <4>4
    <3>4. \A p \in Instance : job'[p].event = job[p].event /\ job'[p].push \subseteq job[p].push
      BY <1>1, <1>6, <1>7 DEF NotifyInv, StoreOK
    <3> QED BY <3>1, <3>2, <3>3, <3>4
  <2>11. PushedOnce'
    <3> SUFFICES ASSUME NEW a \in 1..Len(log'), NEW b \in 1..Len(log'), a < b,
                        log'[a].to = log'[b].to, log'[a].event = log'[b].event, log'[a].to \notin Channel
                 PROVE  <<log'[a].to, log'[a].event, log'[a].kind>> \in removed
      BY <1>3 DEF PushedOnce
    <3>1. a \in 1..Len(log) /\ log'[a] = log[a] BY <2>5
    <3>2. CASE b \in 1..Len(log) BY <2>5, <3>1, <3>2 DEF NotifyInv, OnceInv, PushedOnce
    <3>3. CASE log'[b] = f
      <4>1. ForUser(log[a]) /\ log[a].event = k.event /\ log[a].to = n[1] BY <2>3, <3>1, <3>3 DEF ForUser
      <4>2. <<log[a].to, log[a].kind>> \in Told(about[k.event])
        BY <3>1, <4>1 DEF NotifyInv, OnceInv, FramesAreRows
      <4>3. log[a].kind = n[2] BY <1>4, <4>1, <4>2, ToldAre
      <4>4. FrameRow(log[a]) = r BY <2>2, <4>1, <4>3 DEF FrameRow, RowOf
      <4>5. Pushed(r) BY <3>1, <4>1, <4>4 DEF Pushed
      <4> QED BY <2>7, <3>1, <4>4, <4>5 DEF FrameRow
    <3> QED BY <2>6, <3>2, <3>3
  <2>12. OnceInv' BY <2>8, <2>10, <2>11 DEF OnceInv
  <2> QED BY <1>8, <2>5, <2>12 DEF NotifyInv
<1> QED BY <1>2, <1>9, <1>10

LEMMA TellingChannelsKeeps ==
  ASSUME NotifyInv, NEW i \in Instance, BroadcastToChannel(i)
  PROVE  NotifyInv'
<1>1. PICK k : k = job[i] OBVIOUS
<1>2. /\ k.step = "save" /\ k.todo = {} /\ k.channels # << >>
      /\ PublishFrame(Head(k.channels), k.event, "event") \/ UNCHANGED log
      /\ job' = [job EXCEPT ![i] = [k EXCEPT !.channels = Tail(@)]]
  BY <1>1 DEF BroadcastToChannel, SetJob
<1>3. UNCHANGED <<waiting, processedEvents, about, rows, removed, unsaved>>
  BY DEF BroadcastToChannel, OnlyPushed
<1>4. /\ k \in Job /\ k # NoJob /\ k.event \in EventId /\ k.push = {}
  BY <1>1, <1>2, JobIs DEF NotifyInv, StoreOK, JobOK, NoJob
<1>5. k.channels \in Seq(Channel) /\ Tail(k.channels) \in Seq(Channel)
  <2>1. k.channels \in Seq(Channel) BY <1>4 DEF Job
  <2> QED BY <1>2, <2>1
<1> DEFINE j == [k EXCEPT !.channels = Tail(@)]
<1>6. /\ j \in Job /\ j.event = k.event /\ j.step = k.step /\ j.push = {} /\ j.todo = k.todo
  BY <1>2, <1>4, <1>5 DEF Job
<1> HIDE DEF j
<1>7. job' = [job EXCEPT ![i] = j] BY <1>2 DEF j
<1>8. StoreOK' /\ StoreInv' /\ PushesShrink BY <1>1, <1>3, <1>4, <1>6, <1>7, JobsShrink
<1>9. CASE UNCHANGED log
  <2>1. LogOK' BY <1>9 DEF NotifyInv, LogOK
  <2>2. OnceInv' BY <1>3, <1>8, <1>9, NoneIsPushed DEF NotifyInv, RowsGrow
  <2> QED BY <1>8, <2>1, <2>2 DEF NotifyInv
<1>10. CASE PublishFrame(Head(k.channels), k.event, "event")
  <2> DEFINE f == [to |-> Head(k.channels), event |-> k.event, kind |-> "event", no |-> Len(log) + 1]
  <2>1. Head(k.channels) \in Channel BY <1>2, <1>5
  <2>2. f \in Frame /\ f.no = Len(log) + 1 /\ f.to # "reply" /\ ~ForUser(f)
    <3>1. Len(log) \in Nat BY DEF NotifyInv, LogOK
    <3>2. Head(k.channels) # "reply" BY <2>1 DEF Channel
    <3> QED BY <1>4, <2>1, <3>1, <3>2 DEF Frame, ForUser, Kinds
  <2>3. log' = Append(log, f) BY <1>10 DEF PublishFrame
  <2> HIDE DEF f
  <2>4. /\ Len(log') = Len(log) + 1 /\ Len(log) \in Nat /\ log'[Len(log) + 1] = f
        /\ \A m \in 1..Len(log) : log'[m] = log[m]
        /\ LogOK'
    BY <2>2, <2>3, LogGrows DEF NotifyInv
  <2>5. \A m \in 1..Len(log') : ForUser(log'[m]) => m \in 1..Len(log) /\ log'[m] = log[m]
    BY <2>2, <2>4
  <2>6. FramesAreRows'
    BY <1>3, <2>5 DEF NotifyInv, OnceInv, FramesAreRows, ForUser, FrameRow, Events
  <2>7. \A x : Pushed(x)' => Pushed(x) BY <2>5 DEF Pushed, ForUser, FrameRow
  <2>8. PushesAreRows'
    <3> SUFFICES ASSUME NEW q \in Instance, NEW m \in job'[q].push, NEW x, x = RowOf(job'[q].event, m)
                 PROVE  /\ x \in rows \cup removed
                        /\ Pushed(x) => x \in removed
                        /\ \A p \in Instance \ {q} :
                             job'[p].event = job'[q].event /\ m \in job'[p].push => x \in removed
      BY <1>3, <2>7 DEF PushesAreRows
    <3>1. \A p \in Instance : job'[p].event = job[p].event /\ job'[p].push \subseteq job[p].push
      BY <1>1, <1>6, <1>7 DEF NotifyInv, StoreOK
    <3>2. m \in job[q].push /\ x = RowOf(job[q].event, m) BY <3>1
    <3>3. /\ x \in rows \cup removed
          /\ Pushed(x) => x \in removed
          /\ \A p \in Instance \ {q} :
               job[p].event = job[q].event /\ m \in job[p].push => x \in removed
      BY <3>2 DEF NotifyInv, OnceInv, PushesAreRows
    <3> QED BY <3>1, <3>3
  <2>9. PushedOnce'
    <3> SUFFICES ASSUME NEW a \in 1..Len(log'), NEW b \in 1..Len(log'), a < b,
                        log'[a].to = log'[b].to, log'[a].event = log'[b].event, log'[a].to \notin Channel
                 PROVE  <<log'[a].to, log'[a].event, log'[a].kind>> \in removed
      BY <1>3 DEF PushedOnce
    <3>1. ForUser(log'[a]) /\ ForUser(log'[b]) BY DEF ForUser
    <3>2. /\ a \in 1..Len(log) /\ log'[a] = log[a]
          /\ b \in 1..Len(log) /\ log'[b] = log[b]
      BY <2>5, <3>1
    <3> QED BY <3>2 DEF NotifyInv, OnceInv, PushedOnce
  <2>10. OnceInv' BY <2>6, <2>8, <2>9 DEF OnceInv
  <2> QED BY <1>8, <2>4, <2>10 DEF NotifyInv
<1> QED BY <1>2, <1>9, <1>10

LEMMA MarkingKeeps ==
  ASSUME NotifyInv, NEW i \in Instance, MarkEventProcessed(i)
  PROVE  NotifyInv'
<1>1. PICK k : k = job[i] OBVIOUS
<1>2. /\ k.step = "save" /\ k.todo = {}
      /\ processedEvents' = processedEvents \cup {k.event}
      /\ job' = [job EXCEPT ![i] = [k EXCEPT !.step = "ack"]]
      /\ UNCHANGED <<waiting, about, rows, removed, unsaved, log>>
  BY <1>1 DEF MarkEventProcessed, SetJob, OnlyHandled
<1>3. k \in Job /\ k # NoJob /\ k.event \in Events /\ k.push = {}
  BY <1>1, <1>2, JobIs DEF NotifyInv, JobOK, NoJob
<1> DEFINE j == [k EXCEPT !.step = "ack"]
<1>4. j \in Job /\ j.event = k.event /\ j.step = "ack" /\ j.push = {} /\ j.todo = {}
  BY <1>2, <1>3 DEF Job
<1> HIDE DEF j
<1>5. job' = [job EXCEPT ![i] = j] BY <1>2 DEF j
<1>6. StoreOK'
  <2>1. waiting' \subseteq Events /\ processedEvents' \subseteq Events
    BY <1>2, <1>3 DEF NotifyInv, StoreOK
  <2>2. j.step \in {"save", "ack"} /\ j.event \in Events BY <1>3, <1>4
  <2>3. j.todo \subseteq Told(about[j.event]) /\ j.push \subseteq j.todo BY <1>4
  <2> QED BY <1>2, <1>4, <1>5, <2>1, <2>2, <2>3, JobSet DEF NotifyInv
<1>7. LogOK' BY <1>2 DEF NotifyInv, LogOK
<1>8. StoreInv'
  <2>1. RowsTell' BY <1>2, RowsStay DEF NotifyInv
  <2>2. Stored' = Stored BY <1>2 DEF Stored
  <2>3. \A n \in Told(about[k.event]) : RowOf(k.event, n) \in Stored
    BY <1>1, <1>2 DEF NotifyInv, StoreInv, JobsStore
  <2>4. EventsStored' BY <1>2, <2>2, <2>3 DEF NotifyInv, StoreInv, EventsStored
  <2>5. JobsStore' BY <1>2, <1>4, <1>5, <2>2, JobsStay DEF NotifyInv
  <2> QED BY <2>1, <2>4, <2>5 DEF StoreInv
<1>9. OnceInv'
  <2>1. PushesShrink BY <1>4, <1>5 DEF PushesShrink, NotifyInv, StoreOK
  <2> QED BY <1>2, <2>1, NoneIsPushed DEF NotifyInv, RowsGrow
<1> QED BY <1>6, <1>7, <1>8, <1>9 DEF NotifyInv

(* An instance stops to handle an event, which may return to the queue. *)
LEMMA EndingKeeps ==
  ASSUME NotifyInv, NEW i \in Instance, job' = [job EXCEPT ![i] = NoJob],
         waiting' \subseteq waiting \cup (IF job[i] = NoJob THEN {} ELSE {job[i].event}),
         UNCHANGED <<processedEvents, about, rows, removed, unsaved, log>>
  PROVE  NotifyInv'
<1>1. NoJob \in Job /\ NoJob.step # "save" /\ NoJob.push = {} BY DEF NoJob, Job
<1>2. StoreOK'
  <2>1. job[i] # NoJob => job[i].event \in Events BY JobIs DEF NotifyInv
  <2>2. waiting' \subseteq Events /\ processedEvents' \subseteq Events
    BY <2>1 DEF NotifyInv, StoreOK
  <2> QED BY <1>1, <2>2, JobSet DEF NotifyInv
<1>3. LogOK' BY DEF NotifyInv, LogOK
<1>4. StoreInv'
  <2>1. RowsTell' BY RowsStay DEF NotifyInv
  <2>2. Stored' = Stored BY DEF Stored
  <2>3. EventsStored' BY <2>2, EventsStay DEF NotifyInv
  <2>4. JobsStore' BY <1>1, <2>2, JobsStay DEF NotifyInv
  <2> QED BY <2>1, <2>3, <2>4 DEF StoreInv
<1>5. OnceInv'
  <2>1. PushesShrink BY <1>1 DEF PushesShrink, NotifyInv, StoreOK
  <2> QED BY <2>1, NoneIsPushed DEF NotifyInv, RowsGrow
<1> QED BY <1>2, <1>3, <1>4, <1>5 DEF NotifyInv

LEMMA HandlingKeeps ==
  ASSUME NotifyInv, NEW i \in Instance, Handle(i)
  PROVE  NotifyInv'
<1>1. CASE Acknowledge(i)
  BY <1>1, EndingKeeps DEF Acknowledge, OnlyHandled, SetJob
<1>2. CASE RequeueEvent(i)
  <2>1. job' = [job EXCEPT ![i] = NoJob] /\ waiting' = waiting \cup {job[i].event} /\ job[i] # NoJob
        /\ UNCHANGED <<processedEvents, about, rows, removed, unsaved, log>>
    BY <1>2 DEF RequeueEvent, OnlyHandled, SetJob
  <2> QED BY <2>1, EndingKeeps
<1> QED
  BY <1>1, <1>2, TakingKeeps, CreatingKeeps, FailingKeeps, PushingKeeps, TellingChannelsKeeps,
     MarkingKeeps DEF Handle

LEMMA StoppingKeeps ==
  ASSUME NotifyInv, NEW i \in Instance, Stop(i)
  PROVE  NotifyInv'
<1>1. /\ job' = [job EXCEPT ![i] = NoJob] /\ waiting' = waiting \cup ({job[i].event} \ {None})
      /\ UNCHANGED <<processedEvents, about, rows, removed, unsaved, log>>
  BY DEF Stop
<1>2. job[i] = NoJob => {job[i].event} \ {None} = {} BY DEF NoJob
<1> QED BY <1>1, <1>2, EndingKeeps

LEMMA CallsKeep ==
  ASSUME NotifyInv, UsersCall
  PROVE  NotifyInv'
<1>1. PICK which \in SUBSET rows : rows' = rows \ which /\ removed' = removed \cup which
  BY CallsGive
<1>2. UNCHANGED <<waiting, processedEvents, about, job, unsaved, log>> BY CallsGive
<1>3. StoreOK' BY <1>2 DEF NotifyInv, StoreOK, JobOK, Events
<1>4. LogOK' BY <1>2 DEF NotifyInv, LogOK
<1>5. StoreInv'
  <2>1. RowsTell' BY <1>1, <1>2, RowsStay DEF NotifyInv
  <2>2. Stored \subseteq Stored' BY <1>1, <1>2 DEF Stored
  <2>3. EventsStored' BY <1>2, <2>2, EventsStay DEF NotifyInv
  <2>4. JobsStore' BY <1>2, <2>2 DEF NotifyInv, StoreInv, JobsStore
  <2> QED BY <2>1, <2>3, <2>4 DEF StoreInv
<1>6. OnceInv'
  <2>1. PushesShrink BY <1>2 DEF PushesShrink
  <2>2. RowsGrow BY <1>1 DEF RowsGrow
  <2> QED BY <1>2, <2>1, <2>2, NoneIsPushed DEF NotifyInv
<1> QED BY <1>3, <1>4, <1>5, <1>6 DEF NotifyInv

LEMMA ElsewhereKeeps ==
  ASSUME NotifyInv, Elsewhere
  PROVE  NotifyInv'
<1>1. UNCHANGED <<waiting, processedEvents, about, job, rows, removed, unsaved, log>>
  BY DEF Elsewhere, storeVars
<1>2. StoreOK' BY <1>1 DEF NotifyInv, StoreOK, JobOK, Events
<1>3. LogOK' BY <1>1 DEF NotifyInv, LogOK
<1>4. StoreInv'
  <2>1. Stored' = Stored BY <1>1 DEF Stored
  <2> QED BY <1>1, <2>1 DEF NotifyInv, StoreInv, RowsTell, EventsStored, JobsStore, Events
<1>5. OnceInv'
  <2>1. PushesShrink BY <1>1 DEF PushesShrink
  <2> QED BY <1>1, <2>1, NoneIsPushed DEF NotifyInv, RowsGrow
<1> QED BY <1>2, <1>3, <1>4, <1>5 DEF NotifyInv

LEMMA NotifyInvHolds == NotificationsSpec => []NotifyInv
<1>1. NotificationsInit => NotifyInv
  <2> SUFFICES ASSUME NotificationsInit PROVE NotifyInv
    OBVIOUS
  <2>1. /\ scenario \in Scenarios /\ waiting \subseteq EventId /\ about \in [waiting -> scenario.deeds]
        /\ processedEvents = {} /\ job = [i \in Instance |-> NoJob] /\ rows = {} /\ log = << >>
    BY DEF NotificationsInit, kSubset
  <2>2. Events = waiting /\ about \in [Events -> DeedRecord]
    BY <2>1 DEF Events, DeedRecord
  <2>3. NoJob \in Job BY DEF NoJob, Job
  <2>4. StoreOK BY <2>1, <2>2, <2>3 DEF StoreOK, JobOK
  <2>5. LogOK BY <2>1 DEF LogOK
  <2>6. StoreInv BY <2>1 DEF StoreInv, RowsTell, JobsStore, EventsStored, NoJob
  <2>7. OnceInv BY <2>1 DEF OnceInv, FramesAreRows, PushesAreRows, PushedOnce, NoJob
  <2> QED BY <2>4, <2>5, <2>6, <2>7 DEF NotifyInv
<1>2. NotifyInv /\ [NotificationsNext]_notificationVars => NotifyInv'
  <2> SUFFICES ASSUME NotifyInv, [NotificationsNext]_notificationVars PROVE NotifyInv'
    OBVIOUS
  <2>1. CASE \E i \in Instance : Panic(i) \/ Crash(i)
    BY <2>1, StoppingKeeps DEF Panic, Crash
  <2> QED
    BY <2>1, NotificationSteps, OthersAreElsewhere, ElsewhereKeeps, CallsKeep, HandlingKeeps
<1> QED BY <1>1, <1>2, PTL DEF NotificationsSpec

(* Whom an event concerns finds it in his list once the event is           *)
(* processed, however often it was handled and cut short before, unless    *)
(* the row could not be stored or was deleted; and nobody else finds it.   *)
THEOREM EverybodyFindsHisRow == NotificationsSpec => []StoredForAll
<1>1. NotifyInv => StoredForAll
  <2> SUFFICES ASSUME NotifyInv PROVE StoredForAll
    OBVIOUS
  <2>1. ASSUME NEW e \in processedEvents, NEW u \in Concerned(about[e])
        PROVE  \E r \in rows \cup removed \cup unsaved : r[1] = u /\ r[2] = e
    <3>1. about[e] \in DeedRecord BY DEF NotifyInv, StoreOK
    <3>2. PICK n \in Told(about[e]) : n[1] = u BY <3>1, ToldAre
    <3>3. RowOf(e, n) \in rows \cup removed \cup unsaved
      BY DEF NotifyInv, StoreInv, EventsStored, Stored
    <3>4. RowOf(e, n)[1] = u /\ RowOf(e, n)[2] = e BY <3>2 DEF RowOf
    <3> QED BY <3>3, <3>4
  <2>2. ASSUME NEW r \in rows PROVE r[1] \in Concerned(about[r[2]])
    <3>1. PICK e \in Events : \E n \in Told(about[e]) : r = RowOf(e, n)
      BY DEF NotifyInv, StoreInv, RowsTell
    <3>2. PICK n \in Told(about[e]) : r = RowOf(e, n) BY <3>1
    <3>3. about[e] \in DeedRecord BY DEF NotifyInv, StoreOK
    <3>4. n[1] \in Concerned(about[e]) BY <3>2, <3>3, ToldAre
    <3>5. r[1] = n[1] /\ r[2] = e BY <3>2 DEF RowOf
    <3> QED BY <3>4, <3>5
  <2> QED BY <2>1, <2>2 DEF StoredForAll
<1> QED BY <1>1, NotifyInvHolds, PTL

-----------------------------------------------------------------------------
(* Connections                                                             *)

ConnRecord ==
  [st : {"none", "registered", "open", "left"}, at : Instance \cup {None}, since : Nat,
   hub : BOOLEAN, closed : BOOLEAN, writing : BOOLEAN, subs : SUBSET Channel,
   buf : Seq(Frame), got : Seq(Frame), ask : Channel \cup {None}, answer : {None, "yes", "no"}]
SentOf(k) == k.got \o k.buf
Follows(k) == k.hub /\ ~k.closed /\ (k.writing \/ k.st = "registered")
Now(c) == IF c \in targets[conn[c].at] THEN at[conn[c].at] - 1 ELSE at[conn[c].at]

(* Where a connection is, and what its reader has asked *)
ConnOK ==
  /\ scenario \in Scenarios
  /\ conn \in [Conn -> ConnRecord]
  /\ cache \in [Instance -> [User -> {None, "yes", "no"}]]
  /\ \A c \in Conn :
       /\ conn[c].st # "none" => conn[c].at \in Instance
       /\ conn[c].hub => conn[c].at \in up /\ conn[c].st # "none"
       /\ conn[c].ask # None => conn[c].st = "open"
       /\ conn[c].answer # None => conn[c].ask # None

(* An instance has taken no more of the log than there is, and is sending  *)
(* the last of it to connections of its own.                               *)
HubOK ==
  /\ up \subseteq Instance
  /\ at \in [Instance -> Nat] /\ targets \in [Instance -> SUBSET Conn]
  /\ \A i \in Instance :
       /\ at[i] <= Len(log)
       /\ targets[i] # {} => at[i] > 0
       /\ \A c \in targets[i] : conn[c].at = i /\ conn[c].st # "none"
  /\ \A c \in Conn : conn[c].hub => conn[c].since <= Now(c)

(* Frames s are those of l for u behind a place and up to another. *)
Complete(s, u, l, since, now) ==
  LET own == {n \in 1..Len(s) : s[n].to = u}
  IN /\ {s[n] : n \in own} = {l[n] : n \in {m \in (since + 1)..now : l[m].to = u}}
     /\ \A m, n \in own : m < n => s[m].no < s[n].no

LEMMA NoGapsIs ==
  NoGaps <=> \A c \in Conn \ missed :
               Follows(conn[c]) => Complete(SentOf(conn[c]), Owner[c], log, conn[c].since, Now(c))
  BY DEF NoGaps, Follows, Complete, SentOf, Now

LEMMA CompleteAtFirst ==
  ASSUME NEW u, NEW l, NEW n \in Nat
  PROVE  Complete(<< >>, u, l, n, n)
<1>1. (n + 1)..n = {} OBVIOUS
<1>2. 1..Len(<< >>) = {} OBVIOUS
<1> QED BY <1>1, <1>2 DEF Complete

LEMMA CompleteOfOther ==
  ASSUME NEW s \in Seq(Frame), NEW f \in Frame, NEW u, f.to # u, NEW l, NEW a, NEW b,
         Complete(s, u, l, a, b)
  PROVE  Complete(Append(s, f), u, l, a, b)
<1> DEFINE t == Append(s, f)
           own == {n \in 1..Len(s) : s[n].to = u}
<1>1. /\ Len(t) = Len(s) + 1 /\ Len(s) \in Nat /\ t[Len(s) + 1] = f
      /\ \A n \in 1..Len(s) : t[n] = s[n]
  OBVIOUS
<1> HIDE DEF t
<1>2. {n \in 1..Len(t) : t[n].to = u} = own
  <2>1. \A n : n \in 1..Len(t) <=> n \in 1..Len(s) \/ n = Len(s) + 1 BY <1>1
  <2> QED BY <1>1, <2>1
<1>3. {t[n] : n \in own} = {s[n] : n \in own} BY <1>1
<1>4. \A m, n \in own : m < n => t[m].no < t[n].no BY <1>1 DEF Complete
<1> QED BY <1>2, <1>3, <1>4 DEF Complete, t

LEMMA CompleteAfterOther ==
  ASSUME NEW s, NEW u, NEW l, NEW a \in Nat, NEW b \in Nat, b > 0, l[b].to # u,
         Complete(s, u, l, a, b - 1)
  PROVE  Complete(s, u, l, a, b)
<1>1. {m \in (a + 1)..b : l[m].to = u} = {m \in (a + 1)..(b - 1) : l[m].to = u}
  <2>1. \A m : m \in (a + 1)..b => m \in (a + 1)..(b - 1) \/ m = b OBVIOUS
  <2>2. \A m : m \in (a + 1)..(b - 1) => m \in (a + 1)..b OBVIOUS
  <2> QED BY <2>1, <2>2
<1> QED BY <1>1 DEF Complete

LEMMA CompleteAfterOwn ==
  ASSUME NEW s \in Seq(Frame), NEW u, NEW l \in Seq(Frame), \A n \in 1..Len(l) : l[n].no = n,
         NEW a \in Nat, NEW b \in 1..Len(l), a < b, l[b].to = u,
         Complete(s, u, l, a, b - 1)
  PROVE  Complete(Append(s, l[b]), u, l, a, b)
<1> DEFINE t == Append(s, l[b])
           own == {n \in 1..Len(s) : s[n].to = u}
           due == {m \in (a + 1)..(b - 1) : l[m].to = u}
<1>1. /\ Len(t) = Len(s) + 1 /\ Len(s) \in Nat /\ t[Len(s) + 1] = l[b] /\ l[b].no = b
      /\ \A n \in 1..Len(s) : t[n] = s[n]
  OBVIOUS
<1> HIDE DEF t
<1>2. {n \in 1..Len(t) : t[n].to = u} = own \cup {Len(s) + 1}
  <2>1. \A n : n \in 1..Len(t) <=> n \in 1..Len(s) \/ n = Len(s) + 1 BY <1>1
  <2> QED BY <1>1, <2>1
<1>3. {m \in (a + 1)..b : l[m].to = u} = due \cup {b}
  <2>1. \A m : m \in (a + 1)..b <=> m \in (a + 1)..(b - 1) \/ m = b OBVIOUS
  <2> QED BY <2>1
<1>4. {s[n] : n \in own} = {l[n] : n \in due} /\ \A m, n \in own : m < n => s[m].no < s[n].no
  BY DEF Complete
<1>5. {t[n] : n \in own \cup {Len(s) + 1}} = {s[n] : n \in own} \cup {l[b]} BY <1>1
<1>6. {l[n] : n \in due \cup {b}} = {l[n] : n \in due} \cup {l[b]} OBVIOUS
<1>7. ASSUME NEW n \in own PROVE s[n].no \in Nat /\ s[n].no < b
  <2>1. s[n] \in {l[m] : m \in due} BY <1>4
  <2>2. PICK m \in due : s[n] = l[m] BY <2>1
  <2>3. m \in 1..Len(l) /\ m < b BY <2>2
  <2> QED BY <2>2, <2>3
<1>8. ASSUME NEW m \in own \cup {Len(s) + 1}, NEW n \in own \cup {Len(s) + 1}, m < n
      PROVE  t[m].no < t[n].no
  <2>1. m \in own BY <1>1, <1>8
  <2>2. CASE n \in own BY <1>1, <1>4, <1>8, <2>1, <2>2
  <2>3. CASE n = Len(s) + 1 BY <1>1, <1>7, <2>1, <2>3
  <2> QED BY <2>2, <2>3
<1>9. /\ {t[n] : n \in {x \in 1..Len(t) : t[x].to = u}} = {l[n] : n \in {x \in (a + 1)..b : l[x].to = u}}
      /\ \A m, n \in {x \in 1..Len(t) : t[x].to = u} : m < n => t[m].no < t[n].no
  BY <1>2, <1>3, <1>4, <1>5, <1>6, <1>8
<1> QED BY <1>9 DEF Complete, t

LEMMA CompleteInLonger ==
  ASSUME NEW s, NEW u, NEW l, NEW k, NEW a \in Nat, NEW b \in Int,
         \A n \in 1..b : k[n] = l[n], Complete(s, u, l, a, b)
  PROVE  Complete(s, u, k, a, b)
<1> DEFINE due == {m \in (a + 1)..b : l[m].to = u}
<1>1. \A m \in (a + 1)..b : m \in 1..b OBVIOUS
<1>2. {m \in (a + 1)..b : k[m].to = u} = due BY <1>1
<1>3. \A m \in due : k[m] = l[m] BY <1>1
<1>4. {k[n] : n \in due} = {l[n] : n \in due} BY <1>3
<1> QED BY <1>2, <1>4 DEF Complete

LEMMA AppendToSecond ==
  ASSUME NEW S, NEW s \in Seq(S), NEW t \in Seq(S), NEW e \in S
  PROVE  s \o Append(t, e) = Append(s \o t, e) /\ s \o t \in Seq(S)
<1>1. <<e>> \in Seq(S) /\ s \o t \in Seq(S) BY ConcatProperties
<1>2. Append(t, e) = t \o <<e>> /\ Append(s \o t, e) = (s \o t) \o <<e>> BY <1>1, AppendIsConcat
<1> QED BY <1>1, <1>2, ConcatAssociative

LEMMA HeadToFirst ==
  ASSUME NEW S, NEW s \in Seq(S), NEW t \in Seq(S), t # << >>
  PROVE  Append(s, Head(t)) \o Tail(t) = s \o t
<1>1. Head(t) \in S /\ Tail(t) \in Seq(S) /\ <<Head(t)>> \in Seq(S) BY HeadTailProperties
<1>2. Append(s, Head(t)) = s \o <<Head(t)>> BY <1>1, AppendIsConcat
<1>3. <<Head(t)>> \o Tail(t) = t
  <2>1. /\ <<Head(t)>> \o Tail(t) \in Seq(S)
        /\ Len(<<Head(t)>> \o Tail(t)) = 1 + Len(Tail(t))
        /\ \A n \in 1..(1 + Len(Tail(t))) :
             (<<Head(t)>> \o Tail(t))[n] = IF n <= 1 THEN <<Head(t)>>[n] ELSE Tail(t)[n - 1]
    <3>1. Len(<<Head(t)>>) = 1 OBVIOUS
    <3> QED BY <1>1, <3>1, ConcatProperties
  <2>2. /\ Len(Tail(t)) = Len(t) - 1 /\ Len(t) \in Nat
        /\ \A n \in 1..Len(Tail(t)) : Tail(t)[n] = t[n + 1]
    BY HeadTailProperties
  <2>3. ASSUME NEW n \in 1..Len(t) PROVE (<<Head(t)>> \o Tail(t))[n] = t[n]
    <3>1. CASE n = 1 BY <2>1, <2>2, <3>1
    <3>2. CASE n > 1
      <4>1. n - 1 \in 1..Len(Tail(t)) /\ (n - 1) + 1 = n /\ ~(n <= 1) BY <2>2, <3>2
      <4> QED BY <2>1, <2>2, <4>1
    <3> QED BY <3>1, <3>2
  <2>4. Len(<<Head(t)>> \o Tail(t)) = Len(t) BY <2>1, <2>2
  <2> QED BY <2>1, <2>3, <2>4, SeqEqual
<1> QED BY <1>1, <1>2, <1>3, ConcatAssociative

LEMMA SendToGives ==
  ASSUME NEW k \in ConnRecord, NEW f \in Frame
  PROVE  LET t == SendTo(k, f)
         IN /\ t \in ConnRecord
            /\ t.st = k.st /\ t.at = k.at /\ t.since = k.since /\ t.hub = k.hub
            /\ t.writing = k.writing /\ t.subs = k.subs /\ t.ask = k.ask /\ t.answer = k.answer
            /\ Follows(t) => Follows(k) /\ SentOf(t) = Append(SentOf(k), f)
<1>1. CASE Len(k.buf) < BufSize
  <2>1. SendTo(k, f) = [k EXCEPT !.buf = Append(k.buf, f)] BY <1>1 DEF SendTo
  <2>2. k.buf \in Seq(Frame) /\ k.got \in Seq(Frame) /\ Append(k.buf, f) \in Seq(Frame) BY DEF ConnRecord
  <2>3. k.got \o Append(k.buf, f) = Append(k.got \o k.buf, f)
    <3>1. \A x, y \in Seq(Frame) : x \o Append(y, f) = Append(x \o y, f) BY AppendToSecond
    <3> QED BY <2>2, <3>1
  <2> QED BY <2>1, <2>2, <2>3 DEF ConnRecord, Follows, SentOf
<1>2. CASE ~(Len(k.buf) < BufSize)
  <2>1. SendTo(k, f) = [k EXCEPT !.closed = TRUE] BY <1>2 DEF SendTo
  <2> QED BY <2>1 DEF ConnRecord, Follows
<1> QED BY <1>1, <1>2

(* What a connection's goroutines do to it, and the writer of it *)
Subscribed(k) == "project" \in k.subs \/ (k.answer = "yes" /\ k.ask = "project")
Moved(k, t) ==
  /\ t \in ConnRecord /\ k.st # "none" /\ t.st # "none"
  /\ t.at = k.at /\ t.since = k.since /\ (t.hub => k.hub)
  /\ t.ask # None => t.st = "open"
  /\ t.answer # None => t.ask # None
  /\ Follows(t) => Follows(k) /\ (SentOf(t) = SentOf(k) \/ SentOf(t) = Append(SentOf(k), ReplyFrame))
Registered(c, t) ==
  /\ conn[c] = NoConn /\ t.at \in up
  /\ t = [NoConn EXCEPT !.st = "registered", !.at = t.at, !.since = at[t.at], !.hub = TRUE]

LEMMA ReplyIsFrame == ReplyFrame \in Frame /\ \A u \in User : ReplyFrame.to # u
  BY DEF ReplyFrame, Frame

LEMMA WriterMoves ==
  ASSUME NEW k \in ConnRecord, k.buf # << >>,
         NEW t, t = [k EXCEPT !.buf = Tail(@), !.got = Append(@, Head(k.buf))]
  PROVE  t \in ConnRecord /\ SentOf(t) = SentOf(k)
<1>1. k.buf \in Seq(Frame) /\ k.got \in Seq(Frame) BY DEF ConnRecord
<1>2. Tail(k.buf) \in Seq(Frame) /\ Append(k.got, Head(k.buf)) \in Seq(Frame)
  <2>1. Head(k.buf) \in Frame /\ Tail(k.buf) \in Seq(Frame) BY <1>1, HeadTailProperties
  <2> QED BY <1>1, <2>1
<1>3. t \in ConnRecord /\ t.buf = Tail(k.buf) /\ t.got = Append(k.got, Head(k.buf))
  BY <1>2 DEF ConnRecord
<1>4. Append(k.got, Head(k.buf)) \o Tail(k.buf) = k.got \o k.buf
  <2>1. \A x, y \in Seq(Frame) : y # << >> => Append(x, Head(y)) \o Tail(y) = x \o y
    BY HeadToFirst
  <2> QED BY <1>1, <2>1
<1> QED BY <1>3, <1>4 DEF SentOf

(* A step of one of a connection's goroutines, in these terms *)
Becomes(c, t) ==
  /\ t \in ConnRecord /\ conn' = [conn EXCEPT ![c] = t]
  /\ Moved(conn[c], t) \/ Registered(c, t)
  /\ Subscribed(t) => Subscribed(conn[c]) \/ Owner[c] \in member \/ c \in stale'
Around ==
  /\ UNCHANGED <<log, routeVars, member, scenario>>
  /\ cache' \in [Instance -> [User -> {None, "yes", "no"}]]
  /\ stale \subseteq stale'

LEMMA QuietAround ==
  ASSUME ConnOK, OnlyConnected, UNCHANGED stale
  PROVE  Around
BY DEF ConnOK, OnlyConnected, Around

LEMMA OpeningGives ==
  ASSUME ConnOK, HubOK, NEW c \in Conn,
         \/ \E i \in Instance : RegisterConnection(c, i)
         \/ RegisterFails(c) \/ OpenConnection(c)
  PROVE  Around /\ \E t : Becomes(c, t)
<1>1. PICK k : k = conn[c] OBVIOUS
<1>2. k \in ConnRecord /\ (k.st # "none" => k.at \in Instance)
      /\ (k.ask # None => k.st = "open") /\ (k.answer # None => k.ask # None)
  BY <1>1 DEF ConnOK
<1>3. CASE \E i \in Instance : RegisterConnection(c, i)
  <2>1. PICK i \in Instance : RegisterConnection(c, i) BY <1>3
  <2>2. PICK t : t = [NoConn EXCEPT !.st = "registered", !.at = i, !.since = at[i], !.hub = TRUE]
    OBVIOUS
  <2>3. Around BY <2>1, QuietAround DEF RegisterConnection
  <2>4. conn' = [conn EXCEPT ![c] = t] /\ conn[c] = NoConn /\ i \in up
    BY <2>1, <2>2 DEF RegisterConnection, Set
  <2>5. t.at = i BY <2>2 DEF NoConn
  <2>6. Registered(c, t) BY <2>2, <2>4, <2>5 DEF Registered
  <2>7. t \in ConnRecord
    <3>1. at[i] \in Nat /\ i \in Instance BY <2>1 DEF HubOK
    <3>2. << >> \in Seq(Frame) OBVIOUS
    <3> QED BY <2>2, <3>1, <3>2 DEF NoConn, ConnRecord
  <2>8. ~Subscribed(t) BY <2>2 DEF NoConn, Subscribed, None
  <2> QED BY <2>3, <2>4, <2>6, <2>7, <2>8 DEF Becomes
<1>4. CASE RegisterFails(c)
  <2>1. PICK t : t = [k EXCEPT !.st = "left", !.closed = TRUE] OBVIOUS
  <2>2. Around BY <1>4, QuietAround DEF RegisterFails
  <2>3. conn' = [conn EXCEPT ![c] = t] /\ k.st = "registered"
    BY <1>1, <1>4, <2>1 DEF RegisterFails, Set
  <2>4. t \in ConnRecord BY <1>2, <2>1 DEF ConnRecord
  <2>5. Moved(k, t) BY <1>2, <2>1, <2>3, <2>4 DEF Moved, ConnRecord, Follows
  <2>6. Subscribed(t) => Subscribed(k) BY <1>2, <2>1 DEF Subscribed, ConnRecord
  <2> QED BY <1>1, <2>2, <2>3, <2>4, <2>5, <2>6 DEF Becomes
<1>5. CASE OpenConnection(c)
  <2>1. PICK o : o = [k EXCEPT !.st = "open", !.writing = TRUE] OBVIOUS
  <2>2. PICK t : t = SendTo(o, ReplyFrame) OBVIOUS
  <2>3. Around BY <1>5, QuietAround DEF OpenConnection
  <2>4. conn' = [conn EXCEPT ![c] = t] /\ k.st = "registered"
    BY <1>1, <1>5, <2>1, <2>2 DEF OpenConnection, Set
  <2>5. /\ o \in ConnRecord /\ o.st = "open" /\ o.at = k.at /\ o.since = k.since /\ o.hub = k.hub
        /\ o.subs = k.subs /\ o.ask = k.ask /\ o.answer = k.answer /\ SentOf(o) = SentOf(k)
        /\ o.closed = k.closed
    BY <1>2, <2>1 DEF ConnRecord, SentOf
  <2>6. Follows(o) => Follows(k) BY <2>4, <2>5 DEF Follows
  <2>7. /\ t \in ConnRecord
        /\ t.st = o.st /\ t.at = o.at /\ t.since = o.since /\ t.hub = o.hub
        /\ t.subs = o.subs /\ t.ask = o.ask /\ t.answer = o.answer
        /\ Follows(t) => Follows(o) /\ SentOf(t) = Append(SentOf(o), ReplyFrame)
    BY <2>2, <2>5, SendToGives, ReplyIsFrame
  <2>8. Moved(k, t) BY <1>2, <2>4, <2>5, <2>6, <2>7 DEF Moved
  <2>9. Subscribed(t) => Subscribed(k) BY <2>5, <2>7 DEF Subscribed
  <2> QED BY <1>1, <2>3, <2>4, <2>7, <2>8, <2>9 DEF Becomes
<1> QED BY <1>3, <1>4, <1>5

LEMMA TalkingGives ==
  ASSUME ConnOK, NEW c \in Conn,
         RunWriter(c) \/ WriteFails(c) \/ ReaderEnds(c) \/ Ping(c)
  PROVE  Around /\ \E t : Becomes(c, t)
<1>1. PICK k : k = conn[c] OBVIOUS
<1>2. k \in ConnRecord /\ (k.st # "none" => k.at \in Instance)
      /\ (k.ask # None => k.st = "open") /\ (k.answer # None => k.ask # None)
  BY <1>1 DEF ConnOK
<1>3. CASE RunWriter(c)
  <2>1. PICK t : t = [k EXCEPT !.buf = Tail(@), !.got = Append(@, Head(k.buf))] OBVIOUS
  <2>2. Around BY <1>3, QuietAround DEF RunWriter
  <2>3. conn' = [conn EXCEPT ![c] = t] /\ k.st = "open" /\ k.buf # << >>
    BY <1>1, <1>3, <2>1 DEF RunWriter, Set
  <2>4. t \in ConnRecord /\ SentOf(t) = SentOf(k) BY <1>2, <2>1, <2>3, WriterMoves
  <2>5. /\ t.st = k.st /\ t.at = k.at /\ t.since = k.since /\ t.hub = k.hub /\ t.closed = k.closed
        /\ t.writing = k.writing /\ t.subs = k.subs /\ t.ask = k.ask /\ t.answer = k.answer
    BY <1>2, <2>1 DEF ConnRecord
  <2>6. Moved(k, t) BY <1>2, <2>3, <2>4, <2>5 DEF Moved, Follows
  <2>7. Subscribed(t) => Subscribed(k) BY <2>5 DEF Subscribed
  <2> QED BY <1>1, <2>2, <2>3, <2>4, <2>6, <2>7 DEF Becomes
<1>4. CASE WriteFails(c)
  <2>1. PICK t : t = [k EXCEPT !.writing = FALSE] OBVIOUS
  <2>2. Around BY <1>4, QuietAround DEF WriteFails
  <2>3. conn' = [conn EXCEPT ![c] = t] /\ k.st = "open"
    BY <1>1, <1>4, <2>1 DEF WriteFails, Set
  <2>4. t \in ConnRecord BY <1>2, <2>1 DEF ConnRecord
  <2>5. Moved(k, t) BY <1>2, <2>1, <2>3, <2>4 DEF Moved, ConnRecord, Follows, SentOf
  <2>6. Subscribed(t) => Subscribed(k) BY <1>2, <2>1 DEF Subscribed, ConnRecord
  <2> QED BY <1>1, <2>2, <2>3, <2>4, <2>5, <2>6 DEF Becomes
<1>5. CASE ReaderEnds(c)
  <2>1. PICK t : t = [k EXCEPT !.st = "left", !.hub = FALSE, !.ask = None, !.answer = None] OBVIOUS
  <2>2. Around BY <1>5, QuietAround DEF ReaderEnds
  <2>3. conn' = [conn EXCEPT ![c] = t] /\ k.st = "open"
    BY <1>1, <1>5, <2>1 DEF ReaderEnds, Set
  <2>4. t \in ConnRecord BY <1>2, <2>1 DEF ConnRecord
  <2>5. Moved(k, t) BY <1>2, <2>1, <2>3, <2>4 DEF Moved, ConnRecord, Follows, SentOf
  <2>6. Subscribed(t) => Subscribed(k) BY <1>2, <2>1 DEF Subscribed, ConnRecord, None
  <2> QED BY <1>1, <2>2, <2>3, <2>4, <2>5, <2>6 DEF Becomes
<1>6. CASE Ping(c)
  <2>1. PICK t : t = SendTo(k, ReplyFrame) OBVIOUS
  <2>2. Around BY <1>6, QuietAround DEF Ping
  <2>3. conn' = [conn EXCEPT ![c] = t] /\ k.st = "open"
    BY <1>1, <1>6, <2>1 DEF Ping, Reads, Set
  <2>4. /\ t \in ConnRecord
        /\ t.st = k.st /\ t.at = k.at /\ t.since = k.since /\ t.hub = k.hub
        /\ t.subs = k.subs /\ t.ask = k.ask /\ t.answer = k.answer
        /\ Follows(t) => Follows(k) /\ SentOf(t) = Append(SentOf(k), ReplyFrame)
    BY <1>2, <2>1, SendToGives, ReplyIsFrame
  <2>5. Moved(k, t) BY <1>2, <2>3, <2>4 DEF Moved
  <2>6. Subscribed(t) => Subscribed(k) BY <2>4 DEF Subscribed
  <2> QED BY <1>1, <2>2, <2>3, <2>4, <2>5, <2>6 DEF Becomes
<1> QED BY <1>3, <1>4, <1>5, <1>6

LEMMA SubscribingGives ==
  ASSUME ConnOK, NEW c \in Conn,
         \/ \E ch \in scenario.channels : Subscribe(c, ch) \/ Unsubscribe(c, ch)
         \/ CheckChannelPermission(c) \/ AddSubscription(c)
  PROVE  Around /\ \E t : Becomes(c, t)
<1>1. PICK k : k = conn[c] OBVIOUS
<1>2. k \in ConnRecord /\ (k.st # "none" => k.at \in Instance)
      /\ (k.ask # None => k.st = "open") /\ (k.answer # None => k.ask # None)
  BY <1>1 DEF ConnOK
<1>3. ASSUME NEW ch \in scenario.channels, Subscribe(c, ch) PROVE Around /\ \E t : Becomes(c, t)
  <2>1. PICK t : t = [k EXCEPT !.ask = ch] OBVIOUS
  <2>2. Around BY <1>3, QuietAround DEF Subscribe
  <2>3. conn' = [conn EXCEPT ![c] = t] /\ k.st = "open" /\ k.ask = None
    BY <1>1, <1>3, <2>1 DEF Subscribe, Reads, Set
  <2>4. ch \in Channel BY NotificationsAssumption DEF ConnOK
  <2>5. t \in ConnRecord BY <1>2, <2>1, <2>4 DEF ConnRecord
  <2>6. k.answer = None BY <1>2, <2>3
  <2>7. Moved(k, t) BY <1>2, <2>1, <2>3, <2>5, <2>6 DEF Moved, ConnRecord, Follows, SentOf
  <2>8. Subscribed(t) => Subscribed(k) BY <1>2, <2>1, <2>6 DEF Subscribed, ConnRecord, None
  <2> QED BY <1>1, <2>2, <2>3, <2>5, <2>7, <2>8 DEF Becomes
<1>4. ASSUME NEW ch \in scenario.channels, Unsubscribe(c, ch) PROVE Around /\ \E t : Becomes(c, t)
  <2>1. PICK t : t = [k EXCEPT !.subs = @ \ {ch}] OBVIOUS
  <2>2. Around BY <1>4, QuietAround DEF Unsubscribe
  <2>3. conn' = [conn EXCEPT ![c] = t] /\ k.st = "open"
    BY <1>1, <1>4, <2>1 DEF Unsubscribe, Reads, Set
  <2>4. t \in ConnRecord BY <1>2, <2>1 DEF ConnRecord
  <2>5. Moved(k, t) BY <1>2, <2>1, <2>3, <2>4 DEF Moved, ConnRecord, Follows, SentOf
  <2>6. Subscribed(t) => Subscribed(k) BY <1>2, <2>1 DEF Subscribed, ConnRecord
  <2> QED BY <1>1, <2>2, <2>3, <2>4, <2>5, <2>6 DEF Becomes
<1>5. CASE CheckChannelPermission(c)
  <2>1. PICK answer :
          answer = IF k.ask # "project" THEN "yes"
                   ELSE IF cache[k.at][Owner[c]] # None THEN cache[k.at][Owner[c]]
                   ELSE IF Owner[c] \in member THEN "yes" ELSE "no"
    OBVIOUS
  <2>2. PICK t : t = [k EXCEPT !.answer = answer] OBVIOUS
  <2>3. /\ cache' = IF k.ask = "project" THEN [cache EXCEPT ![k.at][Owner[c]] = answer] ELSE cache
        /\ conn' = [conn EXCEPT ![c] = t]
        /\ stale' = IF answer = "yes" /\ Owner[c] \notin member THEN stale \cup {c} ELSE stale
        /\ UNCHANGED <<log, routeVars, member, scenario>>
        /\ k.ask # None
    BY <1>1, <1>5, <2>1, <2>2 DEF CheckChannelPermission, Set, bounds, Asked
  <2>4. k.at \in Instance /\ k.st = "open" /\ Owner[c] \in User
    BY <1>2, <2>3, NotificationsAssumption
  <2>5. answer \in {"yes", "no"}
    <3>1. cache[k.at][Owner[c]] \in {None, "yes", "no"} BY <2>4 DEF ConnOK
    <3> QED BY <2>1, <3>1
  <2>6. Around
    <3>1. cache' \in [Instance -> [User -> {None, "yes", "no"}]] BY <2>3, <2>4, <2>5 DEF ConnOK
    <3> QED BY <2>3, <3>1 DEF Around
  <2>7. t \in ConnRecord BY <1>2, <2>2, <2>5 DEF ConnRecord
  <2>8. Moved(k, t) BY <1>2, <2>2, <2>3, <2>4, <2>7 DEF Moved, ConnRecord, Follows, SentOf
  <2>9. Subscribed(t) => Subscribed(k) \/ Owner[c] \in member \/ c \in stale'
    BY <1>2, <2>2, <2>3 DEF Subscribed, ConnRecord
  <2> QED BY <1>1, <2>3, <2>6, <2>7, <2>8, <2>9 DEF Becomes
<1>6. CASE AddSubscription(c)
  <2>1. PICK o : o = [k EXCEPT !.ask = None, !.answer = None,
                               !.subs = IF k.answer = "yes" THEN @ \cup {k.ask} ELSE @]
    OBVIOUS
  <2>2. PICK t : t = IF o.closed THEN [o EXCEPT !.st = "left", !.hub = FALSE]
                     ELSE SendTo(o, ReplyFrame)
    OBVIOUS
  <2>3. Around BY <1>6, QuietAround DEF AddSubscription
  <2>4. conn' = [conn EXCEPT ![c] = t] /\ k.answer # None
    BY <1>1, <1>6, <2>1, <2>2 DEF AddSubscription, Set
  <2>5. k.ask \in Channel /\ k.st = "open" BY <1>2, <2>4 DEF ConnRecord
  <2>6. /\ o \in ConnRecord /\ o.st = "open" /\ o.at = k.at /\ o.since = k.since /\ o.hub = k.hub
        /\ o.ask = None /\ o.answer = None /\ SentOf(o) = SentOf(k)
        /\ o.closed = k.closed /\ o.writing = k.writing
    BY <1>2, <2>1, <2>5 DEF ConnRecord, SentOf
  <2>7. Subscribed(o) => Subscribed(k) BY <1>2, <2>1, <2>6 DEF Subscribed, ConnRecord, None
  <2>8. Follows(o) => Follows(k) BY <2>5, <2>6 DEF Follows
  <2>9. CASE o.closed
    <3>1. t = [o EXCEPT !.st = "left", !.hub = FALSE] BY <2>2, <2>9
    <3>2. t \in ConnRecord BY <2>6, <3>1 DEF ConnRecord
    <3>3. Moved(k, t) BY <2>5, <2>6, <3>1, <3>2 DEF Moved, ConnRecord, Follows
    <3>4. Subscribed(t) => Subscribed(k) BY <2>6, <2>7, <3>1 DEF Subscribed, ConnRecord
    <3> QED BY <1>1, <2>3, <2>4, <3>2, <3>3, <3>4 DEF Becomes
  <2>10. CASE ~o.closed
    <3>1. t = SendTo(o, ReplyFrame) BY <2>2, <2>10
    <3>2. /\ t \in ConnRecord
          /\ t.st = o.st /\ t.at = o.at /\ t.since = o.since /\ t.hub = o.hub
          /\ t.subs = o.subs /\ t.ask = o.ask /\ t.answer = o.answer
          /\ Follows(t) => Follows(o) /\ SentOf(t) = Append(SentOf(o), ReplyFrame)
      BY <2>6, <3>1, SendToGives, ReplyIsFrame
    <3>3. Moved(k, t) BY <2>5, <2>6, <2>8, <3>2 DEF Moved
    <3>4. Subscribed(t) => Subscribed(k) BY <2>7, <3>2 DEF Subscribed
    <3> QED BY <1>1, <2>3, <2>4, <3>2, <3>3, <3>4 DEF Becomes
  <2> QED BY <2>9, <2>10
<1> QED BY <1>3, <1>4, <1>5, <1>6

LEMMA ConnectionGives ==
  ASSUME ConnOK, HubOK, NEW c \in Conn, Connection(c)
  PROVE  Around /\ \E t : Becomes(c, t)
BY OpeningGives, TalkingGives, SubscribingGives DEF Connection

-----------------------------------------------------------------------------
(* The hub of each instance                                                *)

HubInv == ConnOK /\ HubOK /\ NoGaps
LogLonger == Len(log) <= Len(log') /\ \A n \in 1..Len(log) : log'[n] = log[n]

(* The same after a step *)
LEMMA NoGapsAfter ==
  ASSUME \A c \in Conn \ missed' :
           Follows(conn'[c]) => Complete(SentOf(conn'[c]), Owner[c], log', conn'[c].since, Now(c)')
  PROVE  NoGaps'
  BY DEF NoGaps, Follows, Complete, SentOf, Now

LEMMA NowIs ==
  ASSUME ConnOK, HubOK, LogOK, NEW c \in Conn, conn[c].hub
  PROVE  /\ conn[c].at \in Instance /\ conn[c].at \in up /\ at[conn[c].at] \in Nat
         /\ Now(c) \in Nat /\ Now(c) <= at[conn[c].at] /\ at[conn[c].at] <= Len(log)
         /\ conn[c].since \in Nat /\ conn[c].since <= Now(c) /\ Len(log) \in Nat
<1>1. PICK i : i = conn[c].at OBVIOUS
<1>2. i \in Instance /\ i \in up /\ conn[c].since \in Nat BY <1>1 DEF ConnOK, ConnRecord
<1>3. at[i] \in Nat /\ at[i] <= Len(log) /\ (c \in targets[i] => at[i] > 0) /\ conn[c].since <= Now(c)
  BY <1>2 DEF HubOK
<1>4. Len(log) \in Nat BY DEF LogOK
<1>5. Now(c) = IF c \in targets[i] THEN at[i] - 1 ELSE at[i] BY <1>1 DEF Now
<1> QED BY <1>1, <1>2, <1>3, <1>4, <1>5

LEMMA AppendIsLonger ==
  ASSUME LogOK, UNCHANGED log \/ \E f : log' = Append(log, f)
  PROVE  LogLonger
<1>1. log \in Seq(Frame) BY DEF LogOK
<1>2. CASE UNCHANGED log BY <1>1, <1>2 DEF LogLonger
<1>3. CASE \E f : log' = Append(log, f)
  <2>1. PICK f : log' = Append(log, f) BY <1>3
  <2>2. log \in Seq(Frame \cup {f}) /\ f \in Frame \cup {f}
    <3>1. \A n \in 1..Len(log) : log[n] \in Frame BY <1>1
    <3>2. log = [n \in 1..Len(log) |-> log[n]] /\ Len(log) \in Nat BY <1>1
    <3> QED BY <3>1, <3>2
  <2>3. Len(log') = Len(log) + 1 /\ Len(log) \in Nat /\ \A n \in 1..Len(log) : log'[n] = log[n]
    BY <2>1, <2>2
  <2> QED BY <2>3 DEF LogLonger
<1> QED BY <1>2, <1>3

(* Only the events' handling publishes. *)
LEMMA HandlingPublishes ==
  ASSUME NotifyInv, NEW i \in Instance, Handle(i)
  PROVE  LogLonger /\ UNCHANGED <<routeVars, conn, cache, scenario, member, stale>>
<1>1. /\ UNCHANGED log \/ \E f : log' = Append(log, f)
      /\ UNCHANGED <<routeVars, conn, permissionVars, scenario>>
  BY DEF Handle, TakeEvent, CreateNotification, CreateFails, BroadcastToUser, BroadcastToChannel,
         MarkEventProcessed, Acknowledge, RequeueEvent, OnlyHandled, OnlyPushed, PublishFrame
<1> QED BY <1>1, AppendIsLonger DEF permissionVars, NotifyInv

(* The log grows, the connections stand. *)
LEMMA StandingKeeps ==
  ASSUME HubInv, LogOK, LogLonger, UNCHANGED <<routeVars, conn, scenario>>,
         cache' \in [Instance -> [User -> {None, "yes", "no"}]]
  PROVE  HubInv'
<1>1. UNCHANGED <<up, at, targets, missed, conn, scenario>> BY DEF routeVars
<1>2. ConnOK' BY <1>1 DEF HubInv, ConnOK
<1>3. Len(log) \in Nat BY DEF LogOK
<1>4. HubOK'
  <2>1. \A c : Now(c)' = Now(c) BY <1>1 DEF Now
  <2>2. \A i \in Instance : at[i] <= Len(log') BY <1>3 DEF HubInv, HubOK, LogLonger
  <2> QED BY <1>1, <2>1, <2>2 DEF HubInv, HubOK
<1>5. NoGaps'
  <2> SUFFICES ASSUME NEW c \in Conn \ missed, Follows(conn[c])
               PROVE  Complete(SentOf(conn[c]), Owner[c], log', conn[c].since, Now(c))
    <3>1. ASSUME NEW c PROVE Now(c)' = Now(c) BY <1>1 DEF Now
    <3> QED BY <1>1, <3>1, NoGapsAfter
  <2>1. Complete(SentOf(conn[c]), Owner[c], log, conn[c].since, Now(c)) BY NoGapsIs DEF HubInv
  <2>2. Now(c) \in Nat /\ Now(c) <= Len(log) /\ conn[c].since \in Nat
    BY NowIs DEF HubInv, Follows
  <2>3. \A n \in 1..Now(c) : log'[n] = log[n] BY <1>3, <2>2 DEF LogLonger
  <2> QED BY <2>1, <2>2, <2>3, CompleteInLonger
<1> QED BY <1>2, <1>4, <1>5 DEF HubInv

(* What a connection does to itself leaves the others', and its frames.    *)
LEMMA BecomingKeeps ==
  ASSUME HubInv, LogOK, NEW c \in Conn, UNCHANGED log, Around, NEW t, Becomes(c, t)
  PROVE  HubInv'
<1>1. PICK k : k = conn[c] OBVIOUS
<1>2. /\ UNCHANGED <<up, at, targets, missed, log, scenario>>
      /\ cache' \in [Instance -> [User -> {None, "yes", "no"}]]
      /\ conn' = [conn EXCEPT ![c] = t] /\ t \in ConnRecord
      /\ Moved(k, t) \/ Registered(c, t)
      /\ conn \in [Conn -> ConnRecord] /\ up \subseteq Instance
  BY <1>1 DEF Around, routeVars, Becomes, HubInv, ConnOK, HubOK
<1>a. conn' = [conn EXCEPT ![c] = t] BY DEF Becomes
<1>b. t \in ConnRecord BY DEF Becomes
<1>c. conn \in [Conn -> ConnRecord] BY DEF HubInv, ConnOK
<1>3. \A d \in Conn : conn'[d] = IF d = c THEN t ELSE conn[d] BY <1>a, <1>c
<1>4. k \in ConnRecord /\ (k.st # "none" => k.at \in Instance) /\ (k.hub => k.at \in up /\ k.st # "none")
  BY <1>1 DEF HubInv, ConnOK
<1>5. Registered(c, t) => /\ t.at \in up /\ t.st = "registered" /\ t.since = at[t.at] /\ t.ask = None
                          /\ t.answer = None /\ t.got = << >> /\ t.buf = << >> /\ k.st = "none"
  <2> SUFFICES ASSUME Registered(c, t)
               PROVE  /\ t.at \in up /\ t.st = "registered" /\ t.since = at[t.at] /\ t.ask = None
                      /\ t.answer = None /\ t.got = << >> /\ t.buf = << >> /\ k.st = "none"
    OBVIOUS
  <2>1. PICK a : a = t.at OBVIOUS
  <2>2. /\ t = [NoConn EXCEPT !.st = "registered", !.at = a, !.since = at[a], !.hub = TRUE]
        /\ k = NoConn /\ a \in up
    BY <1>1, <2>1 DEF Registered
  <2> QED BY <2>1, <2>2 DEF NoConn
<1>6. ConnOK'
  <2>1. /\ t.st # "none" => t.at \in Instance
        /\ t.hub => t.at \in up /\ t.st # "none"
        /\ t.ask # None => t.st = "open"
        /\ t.answer # None => t.ask # None
    BY <1>2, <1>4, <1>5 DEF Moved
  <2>2. conn' \in [Conn -> ConnRecord] BY <1>a, <1>b, <1>c
  <2>3. ASSUME NEW d \in Conn
        PROVE  /\ conn'[d].st # "none" => conn'[d].at \in Instance
               /\ conn'[d].hub => conn'[d].at \in up /\ conn'[d].st # "none"
               /\ conn'[d].ask # None => conn'[d].st = "open"
               /\ conn'[d].answer # None => conn'[d].ask # None
    <3>1. CASE d = c BY <1>3, <2>1, <3>1
    <3>2. CASE d # c BY <1>3, <3>2 DEF HubInv, ConnOK
    <3> QED BY <3>1, <3>2
  <2> QED BY <1>2, <2>2, <2>3 DEF HubInv, ConnOK
<1>7. \A d \in Conn : d # c => Now(d)' = Now(d) BY <1>2, <1>3 DEF Now
<1>8. Moved(k, t) => Now(c)' = Now(c) BY <1>1, <1>2, <1>3 DEF Now, Moved
<1>9. Registered(c, t) => Now(c)' = at[t.at]
  <2> SUFFICES ASSUME Registered(c, t) PROVE Now(c)' = at[t.at]
    OBVIOUS
  <2>1. c \notin targets[t.at] BY <1>1, <1>2, <1>5 DEF HubInv, HubOK
  <2> QED BY <1>2, <1>3, <2>1 DEF Now
<1>10. HubOK'
  <2>1. ASSUME NEW i \in Instance, NEW d \in targets[i] PROVE conn'[d].at = i /\ conn'[d].st # "none"
    <3>1. d \in Conn /\ conn[d].at = i /\ conn[d].st # "none" BY <2>1 DEF HubInv, HubOK
    <3>2. CASE d # c BY <1>3, <3>1, <3>2
    <3>3. CASE d = c BY <1>1, <1>2, <1>3, <1>5, <3>1, <3>3 DEF Moved
    <3> QED BY <3>2, <3>3
  <2>2. ASSUME NEW d \in Conn, conn'[d].hub PROVE conn'[d].since <= Now(d)'
    <3>1. CASE d # c BY <1>3, <1>7, <2>2, <3>1 DEF HubInv, HubOK
    <3>2. CASE d = c /\ Moved(k, t)
      <4>1. t.since = k.since /\ k.hub BY <1>3, <2>2, <3>2 DEF Moved
      <4> QED BY <1>1, <1>3, <1>8, <3>2, <4>1 DEF HubInv, HubOK
    <3>3. CASE d = c /\ Registered(c, t)
      <4>1. at[t.at] \in Nat BY <1>2, <1>5, <3>3 DEF HubInv, HubOK
      <4> QED BY <1>3, <1>5, <1>9, <3>3, <4>1
    <3> QED BY <1>2, <3>1, <3>2, <3>3
  <2> QED BY <1>2, <2>1, <2>2 DEF HubInv, HubOK
<1>11. NoGaps'
  <2> SUFFICES ASSUME NEW d \in Conn \ missed, Follows(conn'[d])
               PROVE  Complete(SentOf(conn'[d]), Owner[d], log, conn'[d].since, Now(d)')
    BY <1>2, NoGapsAfter
  <2>1. Follows(conn[d]) => Complete(SentOf(conn[d]), Owner[d], log, conn[d].since, Now(d))
    BY NoGapsIs DEF HubInv
  <2>2. CASE d # c BY <1>3, <1>7, <2>1, <2>2
  <2>3. CASE d = c /\ Moved(k, t)
    <3>1. Follows(k) /\ t.since = k.since /\ (SentOf(t) = SentOf(k) \/ SentOf(t) = Append(SentOf(k), ReplyFrame))
      BY <1>3, <2>3 DEF Moved
    <3>2. Complete(SentOf(k), Owner[c], log, k.since, Now(c)) BY <1>1, <2>1, <2>3, <3>1
    <3>3. SentOf(k) \in Seq(Frame) BY <1>4, ConcatProperties DEF ConnRecord, SentOf
    <3>4. ReplyFrame \in Frame /\ ReplyFrame.to # Owner[c] BY ReplyIsFrame, NotificationsAssumption
    <3>5. Complete(SentOf(t), Owner[c], log, k.since, Now(c))
      <4>1. CASE SentOf(t) = SentOf(k) BY <3>2, <4>1
      <4>2. CASE SentOf(t) = Append(SentOf(k), ReplyFrame)
        <5>1. Complete(Append(SentOf(k), ReplyFrame), Owner[c], log, k.since, Now(c))
          BY <3>2, <3>3, <3>4, CompleteOfOther
        <5> QED BY <4>2, <5>1
      <4> QED BY <3>1, <4>1, <4>2
    <3> QED BY <1>3, <1>8, <2>3, <3>1, <3>5
  <2>4. CASE d = c /\ Registered(c, t)
    <3>1. SentOf(t) = << >>
      <4>1. << >> \o << >> = << >> OBVIOUS
      <4> QED BY <1>5, <2>4, <4>1 DEF SentOf
    <3>2. at[t.at] \in Nat BY <1>2, <1>5, <2>4 DEF HubInv, HubOK
    <3>3. Complete(<< >>, Owner[c], log, at[t.at], at[t.at]) BY <3>2, CompleteAtFirst
    <3> QED BY <1>3, <1>5, <1>9, <2>4, <3>1, <3>3
  <2> QED BY <1>2, <2>2, <2>3, <2>4
<1> QED BY <1>6, <1>10, <1>11 DEF HubInv

LEMMA RoutingKeeps ==
  ASSUME HubInv, LogOK, NEW i \in Instance, Route(i)
  PROVE  HubInv'
<1>1. PICK n : n = at[i] + 1 OBVIOUS
<1>2. PICK f : f = log[n] OBVIOUS
<1>3. /\ targets[i] = {} /\ at[i] < Len(log)
      /\ at' = [at EXCEPT ![i] = n] /\ targets' = [targets EXCEPT ![i] = Targets(i, f)]
      /\ UNCHANGED <<log, up, missed, conn, cache, scenario>>
  BY <1>1, <1>2 DEF Route, permissionVars, bounds
<1>4. at \in [Instance -> Nat] /\ targets \in [Instance -> SUBSET Conn] BY DEF HubInv, HubOK
<1>5. at[i] \in Nat /\ n \in Nat /\ n > 0 /\ n <= Len(log) /\ n - 1 = at[i]
  <2>1. Len(log) \in Nat BY DEF LogOK
  <2> QED BY <1>1, <1>3, <1>4, <2>1
<1>6. \A j \in Instance : at'[j] = IF j = i THEN n ELSE at[j] BY <1>3, <1>4
<1>7. \A j \in Instance : targets'[j] = IF j = i THEN Targets(i, f) ELSE targets[j] BY <1>3, <1>4
<1>8. \A c \in Targets(i, f) : c \in Conn /\ conn[c].hub /\ conn[c].at = i BY DEF Targets
<1>9. ConnOK' BY <1>3 DEF HubInv, ConnOK
<1>10. ASSUME NEW c \in Conn, conn[c].hub
       PROVE  /\ conn[c].at # i \/ c \in Targets(i, f) => Now(c)' = Now(c)
              /\ conn[c].at = i /\ c \notin Targets(i, f) => Now(c)' = n /\ Now(c) = n - 1
  <2>1. conn[c].at \in Instance BY <1>10 DEF HubInv, ConnOK
  <2> QED BY <1>3, <1>5, <1>6, <1>7, <1>8, <2>1 DEF Now
<1>11. HubOK'
  <2>1. \A j \in Instance : at'[j] <= Len(log) BY <1>5, <1>6 DEF HubInv, HubOK
  <2>2. \A j \in Instance : targets'[j] # {} => at'[j] > 0 BY <1>5, <1>6, <1>7 DEF HubInv, HubOK
  <2>3. ASSUME NEW j \in Instance, NEW c \in targets'[j] PROVE conn[c].at = j /\ conn[c].st # "none"
    <3>1. CASE j = i BY <1>7, <1>8, <2>3, <3>1 DEF HubInv, ConnOK
    <3>2. CASE j # i BY <1>7, <2>3, <3>2 DEF HubInv, HubOK
    <3> QED BY <3>1, <3>2
  <2>4. ASSUME NEW c \in Conn, conn[c].hub PROVE conn[c].since <= Now(c)'
    <3>1. conn[c].since <= Now(c) /\ conn[c].since \in Nat BY <2>4, NowIs DEF HubInv
    <3> QED BY <1>5, <1>10, <2>4, <3>1
  <2>5. at' \in [Instance -> Nat] BY <1>3, <1>4, <1>5
  <2>6. targets' \in [Instance -> SUBSET Conn]
    <3>1. Targets(i, f) \in SUBSET Conn BY <1>8
    <3> QED BY <1>3, <1>4, <3>1
  <2> QED BY <1>3, <2>1, <2>2, <2>3, <2>4, <2>5, <2>6 DEF HubInv, HubOK
<1>12. NoGaps'
  <2> SUFFICES ASSUME NEW c \in Conn \ missed, Follows(conn[c])
               PROVE  Complete(SentOf(conn[c]), Owner[c], log, conn[c].since, Now(c)')
    BY <1>3, NoGapsAfter
  <2>1. Complete(SentOf(conn[c]), Owner[c], log, conn[c].since, Now(c)) BY NoGapsIs DEF HubInv
  <2>2. conn[c].hub /\ conn[c].since \in Nat BY NowIs DEF HubInv, Follows
  <2>3. CASE conn[c].at # i \/ c \in Targets(i, f) BY <1>10, <2>1, <2>2, <2>3
  <2>4. CASE conn[c].at = i /\ c \notin Targets(i, f)
    <3>1. f.to # Owner[c]
      <4>1. Owner[c] \in User /\ Owner[c] \notin Channel BY NotificationsAssumption
      <4> QED BY <2>2, <2>4, <4>1 DEF Targets
    <3>2. Complete(SentOf(conn[c]), Owner[c], log, conn[c].since, n - 1) BY <1>10, <2>1, <2>2, <2>4
    <3>3. Complete(SentOf(conn[c]), Owner[c], log, conn[c].since, n)
      BY <1>2, <1>5, <2>2, <3>1, <3>2, CompleteAfterOther
    <3> QED BY <1>10, <2>2, <2>4, <3>3
  <2> QED BY <2>3, <2>4
<1> QED BY <1>9, <1>11, <1>12 DEF HubInv

LEMMA SendingKeeps ==
  ASSUME HubInv, LogOK, NEW i \in Instance, NEW c \in Conn, Send(i, c)
  PROVE  HubInv'
<1>1. PICK k : k = conn[c] OBVIOUS
<1>2. PICK f : f = log[at[i]] OBVIOUS
<1>3. PICK t : t = SendTo(k, f) OBVIOUS
<1>4. /\ c \in targets[i]
      /\ targets' = [targets EXCEPT ![i] = targets[i] \ {c}]
      /\ conn' = [conn EXCEPT ![c] = t]
      /\ UNCHANGED <<log, up, at, missed, cache, scenario>>
  BY <1>1, <1>2, <1>3 DEF Send, Set, permissionVars, bounds
<1>5. at \in [Instance -> Nat] /\ targets \in [Instance -> SUBSET Conn] BY DEF HubInv, HubOK
<1>6. conn \in [Conn -> ConnRecord] /\ log \in Seq(Frame) /\ Owner[c] \in User
  BY NotificationsAssumption DEF HubInv, ConnOK, LogOK
<1>7. /\ at[i] \in 1..Len(log) /\ f \in Frame /\ k.at = i /\ k \in ConnRecord /\ k.st # "none"
      /\ k.at \in Instance /\ (k.hub => k.at \in up)
      /\ (k.ask # None => k.st = "open") /\ (k.answer # None => k.ask # None)
  <2>1. at[i] > 0 /\ at[i] <= Len(log) /\ k.at = i /\ k.st # "none" /\ at[i] \in Nat
    BY <1>1, <1>4, <1>5 DEF HubInv, HubOK
  <2>2. Len(log) \in Nat BY <1>6
  <2>3. at[i] \in 1..Len(log) BY <2>1, <2>2
  <2>4. f \in Frame BY <1>2, <1>6, <2>3
  <2> QED BY <1>1, <1>6, <2>1, <2>3, <2>4 DEF HubInv, ConnOK
<1>8. /\ t \in ConnRecord
      /\ t.st = k.st /\ t.at = k.at /\ t.since = k.since /\ t.hub = k.hub
      /\ t.writing = k.writing /\ t.ask = k.ask /\ t.answer = k.answer
      /\ Follows(t) => Follows(k) /\ SentOf(t) = Append(SentOf(k), f)
  BY <1>3, <1>7, SendToGives
<1>9. \A d \in Conn : conn'[d] = IF d = c THEN t ELSE conn[d] BY <1>4, <1>6
<1>10. \A j \in Instance : targets'[j] = IF j = i THEN targets[i] \ {c} ELSE targets[j]
  BY <1>4, <1>5
<1>11. ConnOK'
  <2>1. conn' \in [Conn -> ConnRecord] BY <1>4, <1>6, <1>8
  <2>2. ASSUME NEW d \in Conn
        PROVE  /\ conn'[d].st # "none" => conn'[d].at \in Instance
               /\ conn'[d].hub => conn'[d].at \in up /\ conn'[d].st # "none"
               /\ conn'[d].ask # None => conn'[d].st = "open"
               /\ conn'[d].answer # None => conn'[d].ask # None
    <3>1. CASE d = c BY <1>7, <1>8, <1>9, <3>1
    <3>2. CASE d # c BY <1>9, <3>2 DEF HubInv, ConnOK
    <3> QED BY <3>1, <3>2
  <2> QED BY <1>4, <2>1, <2>2 DEF HubInv, ConnOK
<1>12. Now(c) = at[i] - 1 /\ Now(c)' = at[i]
  BY <1>1, <1>4, <1>7, <1>8, <1>9, <1>10 DEF Now
<1>13. ASSUME NEW d \in Conn, d # c, conn[d].hub PROVE Now(d)' = Now(d)
  <2>1. conn[d].at \in Instance BY <1>13 DEF HubInv, ConnOK
  <2> QED BY <1>4, <1>9, <1>10, <1>13, <2>1 DEF Now
<1>14. HubOK'
  <2>1. targets' \in [Instance -> SUBSET Conn] BY <1>4, <1>5
  <2>2. \A j \in Instance : targets'[j] # {} => at[j] > 0 BY <1>10 DEF HubInv, HubOK
  <2>3. ASSUME NEW j \in Instance, NEW d \in targets'[j] PROVE conn'[d].at = j /\ conn'[d].st # "none"
    <3>1. d \in targets[j] /\ d \in Conn BY <1>5, <1>10, <2>3
    <3>2. conn[d].at = j /\ conn[d].st # "none" BY <3>1 DEF HubInv, HubOK
    <3> QED BY <1>1, <1>8, <1>9, <3>1, <3>2
  <2>4. ASSUME NEW d \in Conn, conn'[d].hub PROVE conn'[d].since <= Now(d)'
    <3>1. CASE d # c BY <1>9, <1>13, <2>4, <3>1 DEF HubInv, HubOK
    <3>2. CASE d = c
      <4>1. k.hub /\ conn'[d].since = k.since BY <1>8, <1>9, <2>4, <3>2
      <4>2. k.since <= Now(c) /\ k.since \in Nat BY <1>1, <4>1, NowIs DEF HubInv
      <4> QED BY <1>7, <1>12, <3>2, <4>1, <4>2
    <3> QED BY <3>1, <3>2
  <2> QED BY <1>4, <2>1, <2>2, <2>3, <2>4 DEF HubInv, HubOK
<1>15. NoGaps'
  <2> SUFFICES ASSUME NEW d \in Conn \ missed, Follows(conn'[d])
               PROVE  Complete(SentOf(conn'[d]), Owner[d], log, conn'[d].since, Now(d)')
    BY <1>4, NoGapsAfter
  <2>1. Follows(conn[d]) => Complete(SentOf(conn[d]), Owner[d], log, conn[d].since, Now(d))
    BY NoGapsIs DEF HubInv
  <2>2. CASE d # c
    <3>1. conn'[d] = conn[d] BY <1>9, <2>2
    <3>2. conn[d].hub /\ Follows(conn[d]) BY <3>1 DEF Follows
    <3> QED BY <1>13, <2>1, <2>2, <3>1, <3>2
  <2>3. CASE d = c
    <3>1. conn'[d] = t /\ Follows(k) /\ SentOf(t) = Append(SentOf(k), f) BY <1>8, <1>9, <2>3
    <3>2. Complete(SentOf(k), Owner[c], log, k.since, at[i] - 1) BY <1>1, <1>12, <2>1, <2>3, <3>1
    <3>3. SentOf(k) \in Seq(Frame) BY <1>7, ConcatProperties DEF ConnRecord, SentOf
    <3>4. k.since \in Nat /\ k.since < at[i]
      <4>1. k.since \in Nat /\ k.since <= Now(c) BY <1>1, <3>1, NowIs DEF HubInv, Follows
      <4> QED BY <1>7, <1>12, <4>1
    <3>5. Complete(Append(SentOf(k), f), Owner[c], log, k.since, at[i])
      <4>1. CASE f.to = Owner[c]
        <5>1. \A n \in 1..Len(log) : log[n].no = n BY DEF LogOK
        <5> QED BY <1>2, <1>6, <1>7, <3>2, <3>3, <3>4, <4>1, <5>1, CompleteAfterOwn
      <4>2. CASE f.to # Owner[c]
        <5>1. Complete(Append(SentOf(k), f), Owner[c], log, k.since, at[i] - 1)
          BY <1>7, <3>2, <3>3, <4>2, CompleteOfOther
        <5>2. at[i] \in Nat /\ at[i] > 0 BY <1>7
        <5> QED BY <1>2, <3>4, <4>2, <5>1, <5>2, CompleteAfterOther
      <4> QED BY <4>1, <4>2
    <3> QED BY <1>8, <1>12, <2>3, <3>1, <3>5
  <2> QED BY <2>2, <2>3
<1> QED BY <1>11, <1>14, <1>15 DEF HubInv

(* An instance begins anew, loses Redis, or ends: none of its connections  *)
(* follows the log any more.                                               *)
LEMMA RestartingKeeps ==
  ASSUME HubInv, LogOK, NEW i \in Instance, Restart(i)
  PROVE  HubInv'
<1>1. /\ i \notin up /\ up' = up \cup {i} /\ at' = [at EXCEPT ![i] = Len(log)]
      /\ UNCHANGED <<log, targets, missed, conn, cache, scenario>>
  BY DEF Restart, permissionVars, bounds
<1>2. at \in [Instance -> Nat] /\ Len(log) \in Nat BY DEF HubInv, HubOK, LogOK
<1>3. \A j \in Instance : at'[j] = IF j = i THEN Len(log) ELSE at[j] BY <1>1, <1>2
<1>4. ConnOK' BY <1>1 DEF HubInv, ConnOK
<1>5. ASSUME NEW c \in Conn, conn[c].hub PROVE Now(c)' = Now(c)
  <2>1. conn[c].at \in Instance /\ conn[c].at # i BY <1>1, <1>5 DEF HubInv, ConnOK
  <2> QED BY <1>1, <1>3, <2>1 DEF Now
<1>6. HubOK'
  <2>1. at' \in [Instance -> Nat] BY <1>1, <1>2
  <2>2. ASSUME NEW j \in Instance PROVE at'[j] <= Len(log) /\ (targets[j] # {} => at'[j] > 0)
    <3>1. at[j] <= Len(log) /\ (targets[j] # {} => at[j] > 0) /\ at[j] \in Nat
      BY <1>2 DEF HubInv, HubOK
    <3> QED BY <1>2, <1>3, <3>1
  <2> QED BY <1>1, <1>5, <2>1, <2>2 DEF HubInv, HubOK
<1>7. NoGaps'
  <2> SUFFICES ASSUME NEW c \in Conn \ missed, Follows(conn[c])
               PROVE  Complete(SentOf(conn[c]), Owner[c], log, conn[c].since, Now(c)')
    BY <1>1, NoGapsAfter
  <2>1. conn[c].hub BY DEF Follows
  <2> QED BY <1>5, <2>1, NoGapsIs DEF HubInv
<1> QED BY <1>4, <1>6, <1>7 DEF HubInv

LEMMA LosingKeeps ==
  ASSUME HubInv, LogOK, NEW i \in Instance, LoseRedis(i)
  PROVE  HubInv'
<1>1. /\ at' = [at EXCEPT ![i] = Len(log)] /\ targets' = [targets EXCEPT ![i] = {}]
      /\ missed' = missed \cup {c \in Conn : conn[c].at = i}
      /\ UNCHANGED <<log, up, conn, cache, scenario>>
  BY DEF LoseRedis, permissionVars
<1>2. at \in [Instance -> Nat] /\ targets \in [Instance -> SUBSET Conn] /\ Len(log) \in Nat
  BY DEF HubInv, HubOK, LogOK
<1>3. \A j \in Instance : at'[j] = IF j = i THEN Len(log) ELSE at[j] BY <1>1, <1>2
<1>4. \A j \in Instance : targets'[j] = IF j = i THEN {} ELSE targets[j] BY <1>1, <1>2
<1>5. ConnOK' BY <1>1 DEF HubInv, ConnOK
<1>6. ASSUME NEW c \in Conn, conn[c].hub
      PROVE  /\ conn[c].at # i => Now(c)' = Now(c)
             /\ conn[c].at = i => Now(c)' = Len(log)
  <2>1. conn[c].at \in Instance BY <1>6 DEF HubInv, ConnOK
  <2> QED BY <1>1, <1>3, <1>4, <2>1 DEF Now
<1>7. HubOK'
  <2>1. at' \in [Instance -> Nat] /\ targets' \in [Instance -> SUBSET Conn] BY <1>1, <1>2
  <2>2. ASSUME NEW j \in Instance PROVE at'[j] <= Len(log) /\ (targets'[j] # {} => at'[j] > 0)
    <3>1. at[j] <= Len(log) /\ (targets[j] # {} => at[j] > 0) /\ at[j] \in Nat
      BY <1>2 DEF HubInv, HubOK
    <3> QED BY <1>2, <1>3, <1>4, <3>1
  <2>3. ASSUME NEW j \in Instance, NEW c \in targets'[j] PROVE conn[c].at = j /\ conn[c].st # "none"
    BY <1>4, <2>3 DEF HubInv, HubOK
  <2>4. ASSUME NEW c \in Conn, conn[c].hub PROVE conn[c].since <= Now(c)'
    <3>1. /\ conn[c].since <= Now(c) /\ conn[c].since \in Nat /\ Now(c) \in Nat
          /\ Now(c) <= at[conn[c].at] /\ at[conn[c].at] <= Len(log) /\ at[conn[c].at] \in Nat
      BY <2>4, NowIs DEF HubInv
    <3> QED BY <1>2, <1>6, <2>4, <3>1
  <2> QED BY <1>1, <2>1, <2>2, <2>3, <2>4 DEF HubInv, HubOK
<1>8. NoGaps'
  <2> SUFFICES ASSUME NEW c \in Conn \ missed', Follows(conn[c])
               PROVE  Complete(SentOf(conn[c]), Owner[c], log, conn[c].since, Now(c)')
    BY <1>1, NoGapsAfter
  <2>1. conn[c].hub /\ c \in Conn \ missed /\ conn[c].at # i BY <1>1 DEF Follows
  <2> QED BY <1>6, <2>1, NoGapsIs DEF HubInv
<1> QED BY <1>5, <1>7, <1>8 DEF HubInv

LEMMA StopKeeps ==
  ASSUME HubInv, LogOK, NEW i \in Instance, Stop(i)
  PROVE  HubInv'
<1>1. /\ up' = up \ {i} /\ targets' = [targets EXCEPT ![i] = {}]
      /\ cache' = [cache EXCEPT ![i] = [u \in User |-> None]]
      /\ UNCHANGED <<log, at, missed, scenario>>
  BY DEF Stop
<1>2. conn' = [c \in Conn |-> IF conn[c].at = i
                              THEN [conn[c] EXCEPT !.st = "left", !.hub = FALSE, !.ask = None,
                                                   !.answer = None]
                              ELSE conn[c]]
  BY DEF Stop
<1>3. /\ targets \in [Instance -> SUBSET Conn] /\ conn \in [Conn -> ConnRecord]
      /\ cache \in [Instance -> [User -> {None, "yes", "no"}]]
  BY DEF HubInv, HubOK, ConnOK
<1>4. \A j \in Instance : targets'[j] = IF j = i THEN {} ELSE targets[j] BY <1>1, <1>3
<1>5. ASSUME NEW c \in Conn
      PROVE  /\ conn[c].at # i => conn'[c] = conn[c]
             /\ conn[c].at = i => /\ conn'[c].hub = FALSE /\ conn'[c].ask = None /\ conn'[c].answer = None
                                  /\ conn'[c].at = i /\ conn'[c].st = "left"
             /\ conn'[c] \in ConnRecord
  <2>1. PICK k \in ConnRecord : k = conn[c] BY <1>3
  <2>2. PICK t : t = [k EXCEPT !.st = "left", !.hub = FALSE, !.ask = None, !.answer = None] OBVIOUS
  <2>3. conn'[c] = IF k.at = i THEN t ELSE k BY <1>2, <2>1, <2>2
  <2>4. /\ t \in ConnRecord /\ t.hub = FALSE /\ t.ask = None /\ t.answer = None /\ t.at = k.at
        /\ t.st = "left"
    BY <2>2 DEF ConnRecord
  <2> QED BY <2>1, <2>3, <2>4
<1>6. ConnOK'
  <2>1. conn' \in [Conn -> ConnRecord] BY <1>2, <1>5
  <2>2. cache' \in [Instance -> [User -> {None, "yes", "no"}]] BY <1>1, <1>3
  <2>3. ASSUME NEW c \in Conn
        PROVE  /\ conn'[c].st # "none" => conn'[c].at \in Instance
               /\ conn'[c].hub => conn'[c].at \in up' /\ conn'[c].st # "none"
               /\ conn'[c].ask # None => conn'[c].st = "open"
               /\ conn'[c].answer # None => conn'[c].ask # None
    <3>1. CASE conn[c].at = i BY <1>5, <3>1
    <3>2. CASE conn[c].at # i
      <4>1. /\ conn[c].st # "none" => conn[c].at \in Instance
            /\ conn[c].hub => conn[c].at \in up /\ conn[c].st # "none"
            /\ conn[c].ask # None => conn[c].st = "open"
            /\ conn[c].answer # None => conn[c].ask # None
        BY DEF HubInv, ConnOK
      <4>2. conn'[c] = conn[c] BY <1>5, <3>2
      <4>3. conn[c].at \in up => conn[c].at \in up' BY <1>1, <3>2
      <4> QED BY <4>1, <4>2, <4>3
    <3> QED BY <3>1, <3>2
  <2> QED BY <1>1, <2>1, <2>2, <2>3 DEF HubInv, ConnOK
<1>7. ASSUME NEW c \in Conn, conn'[c].hub
      PROVE  conn'[c] = conn[c] /\ Now(c)' = Now(c)
  <2>1. conn[c].at # i /\ conn'[c] = conn[c] BY <1>5, <1>7
  <2>2. conn[c].at \in Instance BY <1>7, <2>1 DEF HubInv, ConnOK
  <2> QED BY <1>1, <1>4, <2>1, <2>2 DEF Now
<1>8. HubOK'
  <2>1. targets' \in [Instance -> SUBSET Conn] BY <1>1, <1>3
  <2>2. \A j \in Instance : targets'[j] # {} => at[j] > 0 BY <1>4 DEF HubInv, HubOK
  <2>3. ASSUME NEW j \in Instance, NEW c \in targets'[j] PROVE conn'[c].at = j /\ conn'[c].st # "none"
    <3>1. j # i /\ c \in targets[j] /\ c \in Conn BY <1>3, <1>4, <2>3
    <3>2. conn[c].at = j /\ conn[c].st # "none" BY <3>1 DEF HubInv, HubOK
    <3> QED BY <1>5, <3>1, <3>2
  <2>4. ASSUME NEW c \in Conn, conn'[c].hub PROVE conn'[c].since <= Now(c)'
    BY <1>7, <2>4 DEF HubInv, HubOK
  <2> QED BY <1>1, <2>1, <2>2, <2>3, <2>4 DEF HubInv, HubOK
<1>9. NoGaps'
  <2> SUFFICES ASSUME NEW c \in Conn \ missed, Follows(conn'[c])
               PROVE  Complete(SentOf(conn'[c]), Owner[c], log, conn'[c].since, Now(c)')
    BY <1>1, NoGapsAfter
  <2>1. conn'[c] = conn[c] /\ Now(c)' = Now(c) BY <1>7 DEF Follows
  <2> QED BY <2>1, NoGapsIs DEF HubInv
<1> QED BY <1>6, <1>8, <1>9 DEF HubInv

LEMMA PermissionsGive ==
  ASSUME HubInv, PermissionsChange
  PROVE  /\ UNCHANGED <<storeVars, log, routeVars, conn, scenario>>
         /\ cache' \in [Instance -> [User -> {None, "yes", "no"}]]
<1>1. cache \in [Instance -> [User -> {None, "yes", "no"}]] BY DEF HubInv, ConnOK
<1>2. CASE \E u \in User : MemberLeaves(u) BY <1>1, <1>2 DEF MemberLeaves, bounds
<1>3. CASE \E i \in Instance : \E u \in User : CacheExpires(i, u)
  <2>1. PICK i \in Instance, u \in User : CacheExpires(i, u) BY <1>3
  <2>2. cache' = [cache EXCEPT ![i][u] = None] BY <2>1 DEF CacheExpires
  <2>3. cache' \in [Instance -> [User -> {None, "yes", "no"}]] BY <1>1, <2>1, <2>2
  <2> QED BY <2>1, <2>3 DEF CacheExpires, bounds
<1> QED BY <1>2, <1>3 DEF PermissionsChange

LEMMA CallsStand ==
  ASSUME HubInv, LogOK, UsersCall \/ UNCHANGED notificationVars
  PROVE  LogLonger /\ UNCHANGED <<log, routeVars, conn, cache, scenario, member, stale>>
<1>1. UNCHANGED <<log, routeVars, conn, permissionVars, scenario>>
  BY DEF UsersCall, MarkAllRead, MarkRead, DeleteNotification, DeleteOldNotifications, Delete,
         OnlyStored, notificationVars, bounds
<1> QED BY <1>1, AppendIsLonger DEF permissionVars

LEMMA HubInvHolds == NotificationsSpec => []HubInv
<1>1. NotificationsInit => HubInv
  <2> SUFFICES ASSUME NotificationsInit PROVE HubInv
    OBVIOUS
  <2>1. /\ scenario \in Scenarios /\ log = << >> /\ up \in kSubset(scenario.instances, Instance)
        /\ at = [i \in Instance |-> 0] /\ targets = [i \in Instance |-> {}]
        /\ conn = [c \in Conn |-> NoConn]
        /\ cache = [i \in Instance |-> [u \in User |-> None]]
    BY DEF NotificationsInit
  <2>2. up \subseteq Instance BY <2>1 DEF kSubset
  <2>3. NoConn \in ConnRecord
    <3>1. << >> \in Seq(Frame) OBVIOUS
    <3> QED BY <3>1 DEF NoConn, ConnRecord
  <2>4. \A c \in Conn : conn[c].st = "none" /\ conn[c].hub = FALSE /\ conn[c].ask = None /\ conn[c].answer = None
    BY <2>1 DEF NoConn
  <2>5. ConnOK BY <2>1, <2>3, <2>4 DEF ConnOK
  <2>6. HubOK BY <2>1, <2>2, <2>4 DEF HubOK
  <2>7. NoGaps BY <2>4, NoGapsIs DEF Follows
  <2> QED BY <2>5, <2>6, <2>7 DEF HubInv
<1>2. NotifyInv /\ HubInv /\ [NotificationsNext]_notificationVars => HubInv'
  <2> SUFFICES ASSUME NotifyInv, HubInv, [NotificationsNext]_notificationVars PROVE HubInv'
    OBVIOUS
  <2>1. LogOK /\ cache \in [Instance -> [User -> {None, "yes", "no"}]]
    BY DEF NotifyInv, HubInv, ConnOK
  <2>2. CASE \E i \in Instance : Handle(i)
    BY <2>1, <2>2, HandlingPublishes, StandingKeeps
  <2>3. CASE UsersCall \/ UNCHANGED notificationVars
    BY <2>1, <2>3, CallsStand, StandingKeeps
  <2>4. CASE \E i \in Instance : HubActs(i)
    BY <2>1, <2>4, RoutingKeeps, RestartingKeeps, LosingKeeps, SendingKeeps DEF HubActs
  <2>5. CASE \E i \in Instance : Panic(i) \/ Crash(i)
    BY <2>1, <2>5, StopKeeps DEF Panic, Crash
  <2>6. CASE \E c \in Conn : Connection(c)
    <3>1. PICK c \in Conn : Connection(c) BY <2>6
    <3>2. UNCHANGED log BY <2>6, OthersAreElsewhere DEF Elsewhere
    <3>3. PICK t : Around /\ Becomes(c, t) BY <3>1, ConnectionGives DEF HubInv
    <3> QED BY <2>1, <3>1, <3>2, <3>3, BecomingKeeps
  <2>7. CASE PermissionsChange
    <3>1. LogLonger BY <2>1, <2>7, PermissionsGive, AppendIsLonger
    <3> QED BY <2>1, <2>7, <3>1, PermissionsGive, StandingKeeps
  <2> QED BY <2>2, <2>3, <2>4, <2>5, <2>6, <2>7, NotificationSteps
<1> QED BY <1>1, <1>2, NotifyInvHolds, PTL DEF NotificationsSpec

(* What is pushed to a user is not pushed again, however often the event   *)
(* is delivered, unless he deleted its row; and an open connection misses  *)
(* nothing: it has been sent, or holds, exactly the frames of its user     *)
(* that its instance has taken from Redis since it was registered, in      *)
(* their order.                                                            *)
THEOREM EveryPushArrives == NotificationsSpec => []PushesArrive
<1>1. NotifyInv /\ HubInv => PushesArrive BY DEF NotifyInv, OnceInv, HubInv, PushesArrive
<1> QED BY <1>1, NotifyInvHolds, HubInvHolds, PTL

-----------------------------------------------------------------------------
(* Subscriptions                                                           *)

(* A positive answer counts from the moment it was given. *)
SubscribedInv == \A c \in Conn : Subscribed(conn[c]) => Owner[c] \in member \/ c \in stale

LEMMA SubscriptionsKeep ==
  ASSUME SubscribedInv, member \subseteq member', stale \subseteq stale',
         \A c \in Conn : Subscribed(conn'[c]) => Subscribed(conn[c])
  PROVE  SubscribedInv'
BY DEF SubscribedInv, Subscribed

LEMMA SubscribedInvHolds == NotificationsSpec => []SubscribedInv
<1>1. NotificationsInit => SubscribedInv
  BY DEF NotificationsInit, NoConn, SubscribedInv, Subscribed, None
<1>2. NotifyInv /\ HubInv /\ SubscribedInv /\ [NotificationsNext]_notificationVars => SubscribedInv'
  <2> SUFFICES ASSUME NotifyInv, HubInv, SubscribedInv, [NotificationsNext]_notificationVars
               PROVE  SubscribedInv'
    OBVIOUS
  <2>1. LogOK /\ conn \in [Conn -> ConnRecord] BY DEF NotifyInv, HubInv, ConnOK
  <2>2. CASE \E i \in Instance : Handle(i)
    BY <2>2, HandlingPublishes, SubscriptionsKeep
  <2>3. CASE UsersCall \/ UNCHANGED notificationVars
    BY <2>1, <2>3, CallsStand, SubscriptionsKeep
  <2>4. ASSUME NEW i \in Instance, Route(i) \/ Restart(i) \/ LoseRedis(i) PROVE SubscribedInv'
    <3>1. UNCHANGED <<conn, member, stale>> BY <2>4 DEF Route, Restart, LoseRedis, permissionVars
    <3> QED BY <3>1, SubscriptionsKeep
  <2>5. ASSUME NEW i \in Instance, NEW c \in Conn, Send(i, c) PROVE SubscribedInv'
    <3>1. PICK f : f = log[at[i]] OBVIOUS
    <3>2. PICK t : t = SendTo(conn[c], f) OBVIOUS
    <3>3. conn' = [conn EXCEPT ![c] = t] /\ UNCHANGED <<member, stale>>
      BY <2>5, <3>1, <3>2 DEF Send, Set, permissionVars
    <3>4. t.subs = conn[c].subs /\ t.ask = conn[c].ask /\ t.answer = conn[c].answer
      BY <2>1, <3>2 DEF SendTo, ConnRecord
    <3>5. \A d \in Conn : Subscribed(conn'[d]) => Subscribed(conn[d])
      BY <2>1, <3>3, <3>4 DEF Subscribed
    <3> QED BY <3>3, <3>5, SubscriptionsKeep
  <2>6. CASE \E i \in Instance : Panic(i) \/ Crash(i)
    <3>1. PICK i \in Instance : Stop(i) BY <2>6 DEF Panic, Crash
    <3>2. UNCHANGED <<member, stale>> BY <3>1 DEF Stop
    <3>3. ASSUME NEW c \in Conn PROVE Subscribed(conn'[c]) => Subscribed(conn[c])
      <4>1. conn'[c] = IF conn[c].at = i
                       THEN [conn[c] EXCEPT !.st = "left", !.hub = FALSE, !.ask = None, !.answer = None]
                       ELSE conn[c]
        BY <3>1 DEF Stop
      <4>2. conn[c] \in ConnRecord BY <2>1
      <4> QED BY <4>1, <4>2 DEF Subscribed, ConnRecord, None
    <3> QED BY <3>2, <3>3, SubscriptionsKeep
  <2>7. CASE \E c \in Conn : Connection(c)
    <3>1. PICK c \in Conn : Connection(c) BY <2>7
    <3>2. PICK t : Around /\ Becomes(c, t) BY <3>1, ConnectionGives DEF HubInv
    <3>3. /\ conn' = [conn EXCEPT ![c] = t] /\ member' = member /\ stale \subseteq stale'
          /\ Subscribed(t) => Subscribed(conn[c]) \/ Owner[c] \in member \/ c \in stale'
      BY <3>2 DEF Becomes, Around
    <3>4. \A d \in Conn : conn'[d] = IF d = c THEN t ELSE conn[d] BY <2>1, <3>3
    <3>5. ASSUME NEW d \in Conn, Subscribed(conn'[d]) PROVE Owner[d] \in member \/ d \in stale'
      <4>1. CASE d = c BY <3>3, <3>4, <3>5, <4>1 DEF SubscribedInv
      <4>2. CASE d # c BY <3>3, <3>4, <3>5, <4>2 DEF SubscribedInv
      <4> QED BY <4>1, <4>2
    <3> QED BY <3>3, <3>5 DEF SubscribedInv, Subscribed
  <2>8. ASSUME NEW u \in User, MemberLeaves(u) PROVE SubscribedInv'
    <3>1. /\ member' = member \ {u} /\ UNCHANGED conn
          /\ stale' = stale \cup {c \in Conn : Owner[c] = u /\
                                    (conn[c].answer = "yes" \/ "project" \in conn[c].subs)}
      BY <2>8 DEF MemberLeaves
    <3>2. ASSUME NEW c \in Conn, Subscribed(conn[c]) PROVE Owner[c] \in member' \/ c \in stale'
      <4>1. Owner[c] \in member \/ c \in stale BY <3>2 DEF SubscribedInv
      <4>2. conn[c].answer = "yes" \/ "project" \in conn[c].subs BY <3>2 DEF Subscribed
      <4> QED BY <3>1, <4>1, <4>2
    <3> QED BY <3>1, <3>2 DEF SubscribedInv, Subscribed
  <2>9. ASSUME NEW i \in Instance, NEW u \in User, CacheExpires(i, u) PROVE SubscribedInv'
    <3>1. UNCHANGED <<conn, member, stale>> BY <2>9 DEF CacheExpires
    <3> QED BY <3>1, SubscriptionsKeep
  <2> QED
    BY <2>2, <2>3, <2>4, <2>5, <2>6, <2>7, <2>8, <2>9, NotificationSteps DEF HubActs, PermissionsChange
<1> QED BY <1>1, <1>2, NotifyInvHolds, HubInvHolds, PTL DEF NotificationsSpec

(* A connection is subscribed to a project's channel when its user is a    *)
(* member, or was when he was asked about.                                 *)
THEOREM OnlyMembersSubscribed == NotificationsSpec => []SubscribedMembers
<1>1. SubscribedInv => SubscribedMembers BY DEF SubscribedInv, Subscribed, SubscribedMembers
<1> QED BY <1>1, SubscribedInvHolds, PTL

==============================================================================
