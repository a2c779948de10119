------------------------------ MODULE MerchantOps ------------------------------
(***************************************************************************)
(* The way of the money: the payment server, by its abstract promise       *)
(* Settlement, and the delivery of the webhooks it queues, up to the order *)
(* of the shop.  What opens or settles an intent queues its webhooks in    *)
(* the same transaction; nothing else queues any.                          *)
(***************************************************************************)
EXTENDS WebhookDelivery, Settlement

\* An order has one intent (OneIntentPerOrder), which goes by the order's name.
ASSUME OrderAssumption == Intents = Orders

system == <<vars, settlement>>

EventsOf(o, types) == {e \in Events : OrderOf[e] = o /\ TypeOf[e] \in types}

OpsInit == Init /\ SettlementInit

\* Faulty variant: everything an intent may announce is queued at once.
OpenAnnouncingAll(o) == Open(o) /\ Queue({e \in Events : OrderOf[e] = o})

\* The promotion of PaymentIntentService.create.
OpenIntent(o) == Open(o) /\ Queue(EventsOf(o, {"payment_intent.created"}))

\* PaymentStatusTracker.applyPaid.
SettleIntent(o) == Settle(o) /\ Queue(EventsOf(o, {"payment_intent.paid", "receipt.created"}))

OpsNext ==
    \/ \E o \in Orders : OpenIntent(o) \/ SettleIntent(o)
    \/ ((\E o \in Orders : Pay(o)) \/ Forget) /\ UNCHANGED vars
    \/ DeliveryNext /\ UNCHANGED settlement

OpsSpec == OpsInit /\ [][OpsNext]_system

-----------------------------------------------------------------------------

PaidEvents == {e \in Events : TypeOf[e] = "payment_intent.paid"}

\* A shop ships only what was paid for: whatever is retried, replayed, delayed
\* or repeated after crashes on either side, a fulfilled order has its receipt,
\* and so had a paid invoice; and nobody was ever told of a payment before it.
FulfilledWasPaid ==
    /\ \A o \in Orders : order[o] = "fulfilled" => o \in issued
    /\ \A e \in PaidEvents : row[e].status # "absent" \/ e \in late \cup acknowledged
                               => OrderOf[e] \in issued
=============================================================================
