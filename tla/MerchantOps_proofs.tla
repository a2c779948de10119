-------------------------- MODULE MerchantOps_proofs --------------------------
(***************************************************************************)
(* Proofs about payments and delivery together, for any set of orders,     *)
(* events and sweeps: the composition does to each part what the part's    *)
(* own specification allows, and a shop fulfils only what was paid for.    *)
(***************************************************************************)
EXTENDS MerchantOps, WebhookDelivery_proofs

\* What the composition does to the webhooks, WebhookDelivery does: all that
\* was proved of deliveries alone holds when the payments drive the queue.
THEOREM OpsImplementDelivery == OpsSpec => Spec
  <1>1. OpsInit => Init
    BY DEF OpsInit
  <1>2. [OpsNext]_system => [Next]_vars
    <2> SUFFICES ASSUME [OpsNext]_system PROVE [Next]_vars
      OBVIOUS
    <2>1. ASSUME NEW o \in Orders, OpenIntent(o) \/ SettleIntent(o) PROVE Next
      BY <2>1 DEF OpenIntent, SettleIntent, EventsOf, Next
    <2>2. CASE DeliveryNext
      BY <2>2 DEF Next
    <2> QED BY <2>1, <2>2 DEF OpsNext, system
  <1> QED BY <1>1, <1>2, PTL DEF OpsSpec, Spec

\* What the composition does to the money, the abstract specification does.
THEOREM OpsImplementSettlement == OpsSpec => SettlementSpec
  <1>1. OpsInit => SettlementInit
    BY DEF OpsInit
  <1>2. [OpsNext]_system => [SettlementNext]_settlement
    BY OrderAssumption DEF OpsNext, system, OpenIntent, SettleIntent, SettlementNext
  <1> QED BY <1>1, <1>2, PTL DEF OpsSpec, SettlementSpec

-----------------------------------------------------------------------------

\* Somebody, the server, the network or the shop, has heard of the event.
Known(e) ==
    \/ row[e].status # "absent"
    \/ e \in late \cup acknowledged \cup seen
    \/ \E s \in Sweeps : \/ sweep[s].pc \in InAttempt /\ sweep[s].at.event = e
                         \/ \E a \in sweep[s].batch : a.event = e

\* The news of a payment are true, and an order ships on such news only.
NewsAreTrue ==
    /\ \A e \in PaidEvents : Known(e) => OrderOf[e] \in issued
    /\ \A o \in Orders : order[o] = "fulfilled" => o \in issued

\* A delivery passes on what is known and makes nothing up.
LEMMA NothingNew ==
  ASSUME TypeOK, DeliveryNext, NEW e \in Events, Known(e)'
  PROVE  Known(e)
  <1> USE DEF Known
  <1>1. ASSUME NEW s \in Sweeps, SweepNext(s) PROVE Known(e)
    <2> USE <1>1
    <2>1. CASE Tick(s)
      <3>1. \A t \in Sweeps : sweep'[t] = IF t = s THEN
               [pc |-> "next", at |-> NoAttempt, batch |-> {Snapshot(f) : f \in Due}]
             ELSE sweep[t]
        BY <2>1 DEF Tick, TypeOK
      <3>2. \A f \in Due : row[f].status # "absent" /\ Snapshot(f).event = f
        BY DEF Due, Snapshot
      <3>3. "next" \notin InAttempt
        BY DEF InAttempt
      <3> QED BY <2>1, <3>1, <3>2, <3>3 DEF Tick, shop
    <2>2. CASE Attempt(s)
      <3>1. PICK a \in sweep[s].batch :
              sweep' = [sweep EXCEPT ![s] =
                          [pc |-> IF a.event \in Configured THEN "sent" ELSE "failed",
                           at |-> a, batch |-> @.batch \ {a}]]
        BY <2>2 DEF Attempt
      <3>2. /\ sweep'[s].at = a /\ sweep'[s].batch = sweep[s].batch \ {a}
            /\ \A t \in Sweeps \ {s} : sweep'[t] = sweep[t]
        BY <3>1 DEF TypeOK
      <3> QED BY <2>2, <3>2 DEF Attempt, shop
    <2>3. CASE Arrives(s) \/ Refused(s) \/ TimesOut(s)
      <3>1. sweep[s].pc \in InAttempt
        BY <2>3 DEF Arrives, Refused, TimesOut, InAttempt
      <3>2. \A t \in Sweeps : /\ sweep'[t].at = sweep[t].at /\ sweep'[t].batch = sweep[t].batch
                              /\ t # s => sweep'[t] = sweep[t]
        BY <2>3 DEF Arrives, Refused, TimesOut, Outcome, TypeOK
      <3>3. row' = row
        BY <2>3 DEF Arrives, Refused, TimesOut
      <3>4. e \in late' \cup acknowledged' \cup seen'
              => e \in late \cup acknowledged \cup seen \cup {sweep[s].at.event}
        BY <2>3 DEF Arrives, Refused, TimesOut, HandleWebhook, shop
      <3> QED BY <3>1, <3>2, <3>3, <3>4
    <2>4. CASE RecordDelivered(s) \/ RecordDuplicate(s) \/ RecordFailure(s)
      <3>1. sweep[s].pc \in InAttempt
        BY <2>4 DEF RecordDelivered, RecordDuplicate, RecordFailure, InAttempt
      <3>2. \A t \in Sweeps : sweep'[t] = IF t = s THEN
               [pc |-> "next", at |-> NoAttempt, batch |-> sweep[s].batch] ELSE sweep[t]
        BY <2>4 DEF RecordDelivered, RecordDuplicate, RecordFailure, Recorded, TypeOK
      <3>3. e # sweep[s].at.event => row'[e] = row[e]
        BY <2>4 DEF RecordDelivered, RecordDuplicate, RecordFailure, TypeOK
      <3>4. "next" \notin InAttempt /\ UNCHANGED <<late, shop>>
        BY <2>4 DEF InAttempt, RecordDelivered, RecordDuplicate, RecordFailure
      <3> QED BY <3>1, <3>2, <3>3, <3>4 DEF shop
    <2>5. CASE SweepEnds(s) \/ SweepAborts(s)
      <3>1. \A t \in Sweeps : sweep'[t] = IF t = s THEN IdleSweep ELSE sweep[t]
        BY <2>5 DEF SweepEnds, SweepAborts, TypeOK
      <3> QED BY <2>5, <3>1 DEF SweepEnds, SweepAborts, IdleSweep, InAttempt, shop
    <2> QED BY <2>1, <2>2, <2>3, <2>4, <2>5 DEF SweepNext
  <1>2. ASSUME NEW f \in Events, Replay(f) PROVE Known(e)
    BY <1>2 DEF Replay, TypeOK, shop
  <1>3. ASSUME NEW f \in Events, RetryFallsDue(f) PROVE Known(e)
    BY <1>3 DEF RetryFallsDue, TypeOK, shop
  <1>4. ASSUME NEW f \in Events, ArrivesLate(f) PROVE Known(e)
    <2>1. e \in late' \cup acknowledged' \cup seen' => e \in late \cup acknowledged \cup seen
      BY <1>4 DEF ArrivesLate, HandleWebhook
    <2> QED BY <1>4, <2>1 DEF ArrivesLate, server
  <1>5. ASSUME NEW f \in Events, IsLost(f) PROVE Known(e)
    BY <1>5 DEF IsLost, server, shop
  <1>6. ASSUME NEW o \in Orders, PlaceOrder(o), UNCHANGED <<server, late, bounds>> PROVE Known(e)
    BY <1>6 DEF PlaceOrder, server
  <1>7. CASE ServerRestarts
    <2>1. late' = late \cup {sweep[s].at.event : s \in {t \in Sweeps : sweep[t].pc = "sent"}}
      BY <1>7 DEF ServerRestarts
    <2>2. e \in late' => Known(e)
      BY <2>1 DEF InAttempt
    <2> QED BY <1>7, <2>2 DEF ServerRestarts, IdleSweep, InAttempt, shop
  <1>8. CASE ShopRestarts
    BY <1>8 DEF ShopRestarts, ShopBoots, server
  <1> QED BY <1>1, <1>2, <1>3, <1>4, <1>5, <1>6, <1>7, <1>8, DeliveryNext DEF DeliveryNext

\* An order becomes fulfilled only by its payment event, which was known.
LEMMA FulfilledOnNews ==
  ASSUME TypeOK, DeliveryNext, NEW o \in Orders, order'[o] = "fulfilled", order[o] # "fulfilled"
  PROVE  \E e \in PaidEvents : OrderOf[e] = o /\ Known(e)
  <1>1. ASSUME NEW f \in Events, HandleWebhook(f), Known(f)
        PROVE  \E e \in PaidEvents : OrderOf[e] = o /\ Known(e)
    <2>1. f \notin seen /\ OrderOf[f] = o
      BY <1>1 DEF HandleWebhook, Apply, TypeOK
    <2>2. order'[o] = IF TypeOf[f] \in DrivingTypes THEN OrderStatusByType[TypeOf[f]]
                                                   ELSE EnsureOrder(order[o])
      BY <1>1, <2>1 DEF HandleWebhook, Apply, TypeOK
    <2>3. EnsureOrder(order[o]) # "fulfilled"
      BY DEF EnsureOrder
    <2>4. TypeOf[f] = "payment_intent.paid"
      BY <2>2, <2>3 DEF DrivingTypes, OrderStatusByType
    <2> QED BY <1>1, <2>1, <2>4 DEF PaidEvents
  <1>2. ASSUME NEW s \in Sweeps, SweepNext(s)
        PROVE  \E e \in PaidEvents : OrderOf[e] = o /\ Known(e)
    <2>1. Arrives(s)
      BY <1>2 DEF SweepNext, Tick, Attempt, Refused, TimesOut, RecordDelivered,
         RecordDuplicate, RecordFailure, SweepEnds, SweepAborts, shop
    <2>2. sweep[s].pc \in InAttempt
      BY <2>1 DEF Arrives, InAttempt
    <2>3. sweep[s].at.event \in Events
      BY <2>2, InAttemptShape
    <2> QED BY <1>1, <2>1, <2>2, <2>3 DEF Arrives, Known
  <1>3. ASSUME NEW f \in Events, ArrivesLate(f)
        PROVE  \E e \in PaidEvents : OrderOf[e] = o /\ Known(e)
    BY <1>1, <1>3 DEF ArrivesLate, Known
  <1>4. ASSUME NEW f \in Events, Replay(f) \/ RetryFallsDue(f) \/ IsLost(f) PROVE FALSE
    BY <1>4 DEF Replay, RetryFallsDue, IsLost, shop
  <1>5. ASSUME NEW p \in Orders, PlaceOrder(p) PROVE FALSE
    BY <1>5 DEF PlaceOrder, EnsureOrder, TypeOK
  <1>6. CASE ServerRestarts
    BY <1>6 DEF ServerRestarts, shop
  <1>7. CASE ShopRestarts
    BY <1>7 DEF ShopRestarts, ShopBoots
  <1> QED BY <1>2, <1>3, <1>4, <1>5, <1>6, <1>7, DeliveryNext DEF DeliveryNext

\* Whatever is retried, replayed, delayed or repeated after crashes on either
\* side, a fulfilled order has its receipt, and nobody hears of a payment
\* before the receipt exists.
THEOREM FulfilledWasPaidHolds == OpsSpec => []FulfilledWasPaid
  <1>1. OpsInit => NewsAreTrue
    BY DEF OpsInit, Init, ShopInit, NoRow, IdleSweep, InAttempt, NewsAreTrue, Known, PaidEvents
  <1>2. ASSUME TypeOK, NewsAreTrue, [OpsNext]_system PROVE NewsAreTrue'
    <2>1. ASSUME NEW o \in Orders, OpenIntent(o) \/ SettleIntent(o) PROVE NewsAreTrue'
      <3>1. PICK S \in SUBSET Events :
              /\ Queue(S)
              /\ \A e \in S : e \in PaidEvents => OrderOf[e] \in issued'
        <4>1. CASE OpenIntent(o)
          BY <4>1 DEF OpenIntent, EventsOf, PaidEvents
        <4>2. CASE SettleIntent(o)
          BY <4>2 DEF SettleIntent, Settle, EventsOf, PaidEvents
        <4> QED BY <2>1, <4>1, <4>2
      <3>2. issued \subseteq issued'
        BY <2>1 DEF OpenIntent, Open, SettleIntent, Settle
      <3>3. \A e \in Events : Known(e)' => Known(e) \/ e \in S
        BY <3>1 DEF Queue, Known, shop
      <3>4. UNCHANGED shop
        BY <3>1 DEF Queue
      <3> QED BY <1>2, <3>1, <3>2, <3>3, <3>4 DEF NewsAreTrue, PaidEvents, shop
    <2>2. CASE DeliveryNext /\ UNCHANGED settlement
      BY <1>2, <2>2, NothingNew, FulfilledOnNews DEF NewsAreTrue, PaidEvents, settlement
    <2>3. CASE issued' = issued /\ UNCHANGED vars
      BY <1>2, <2>3 DEF NewsAreTrue, Known, PaidEvents, vars, server, shop
    <2> QED BY <1>2, <2>1, <2>2, <2>3 DEF OpsNext, Pay, Forget, system, settlement
  <1>3. TypeOK /\ NewsAreTrue /\ [OpsNext]_system => NewsAreTrue'
    BY <1>2
  <1>4. OpsSpec => [](TypeOK /\ RowConsistent /\ SnapshotsFresh)
    BY OpsImplementDelivery, Typed, PTL
  <1>5. NewsAreTrue => FulfilledWasPaid
    BY DEF NewsAreTrue, FulfilledWasPaid, Known, PaidEvents
  <1> QED BY <1>1, <1>3, <1>4, <1>5, PTL DEF OpsSpec
=============================================================================
