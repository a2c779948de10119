----------------------------- MODULE MerchantDemo -----------------------------
(***************************************************************************)
(* The demo merchant: an in-memory store of orders and of the webhook      *)
(* events already seen, and the handler of a signed webhook.  The handler  *)
(* and the store are synchronous, so one request is one step.              *)
(***************************************************************************)
EXTENDS Naturals

CONSTANTS
    Events,         \* webhook events, each with an id of its own
    Orders,
    TypeOf,         \* webhook type of each event
    OrderOf         \* order that the payload of each event names

ASSUME EventAssumption == OrderOf \in [Events -> Orders]

VARIABLES
    seen,           \* event ids handled since the shop started
    order,          \* status of each order, "none" before it exists
    fulfilments,    \* history: how often each order was fulfilled since then
    acknowledged    \* history: events the shop ever handled

shop == <<seen, order, fulfilments, acknowledged>>

OrderStatuses == {"none", "pending", "fulfilled", "expired", "failed"}

\* Event types that drive an order; any other is only acknowledged.
DrivingTypes == {"payment_intent.paid", "payment_intent.expired", "payment_intent.failed"}

OrderStatusByType ==
    [ t \in DrivingTypes |->
        CASE t = "payment_intent.paid"    -> "fulfilled"
          [] t = "payment_intent.expired" -> "expired"
          [] t = "payment_intent.failed"  -> "failed" ]

ShopInit ==
    /\ seen = {}
    /\ order = [o \in Orders |-> "none"]
    /\ fulfilments = [o \in Orders |-> 0]
    /\ acknowledged = {}

\* Faulty variant: every event creates its order anew.
EnsureOrderAnew(s) == "pending"

EnsureOrder(s) == IF s = "none" THEN "pending" ELSE s

\* What handling event e makes of its order.
Apply(e) ==
    LET o == OrderOf[e]
        s == IF TypeOf[e] \in DrivingTypes THEN OrderStatusByType[TypeOf[e]]
                                           ELSE EnsureOrder(order[o])
    IN  /\ order' = [order EXCEPT ![o] = s]
        /\ fulfilments' = [fulfilments EXCEPT ![o] =
                             IF TypeOf[e] = "payment_intent.paid" THEN @ + 1 ELSE @]

\* Faulty variant: no de-duplication by event id.
HandleEveryTime(e) ==
    /\ seen' = seen \cup {e}
    /\ Apply(e)
    /\ acknowledged' = acknowledged \cup {e}

\* A verified request: a duplicate is acknowledged and changes nothing.
HandleWebhook(e) ==
    /\ IF e \in seen THEN UNCHANGED <<seen, order, fulfilments>>
                     ELSE seen' = seen \cup {e} /\ Apply(e)
    /\ acknowledged' = acknowledged \cup {e}

\* POST /orders
PlaceOrder(o) ==
    /\ order[o] = "none"
    /\ order' = [order EXCEPT ![o] = EnsureOrder(@)]
    /\ UNCHANGED <<seen, fulfilments, acknowledged>>

\* The shop starts empty on each boot.
ShopBoots ==
    /\ seen' = {}
    /\ order' = [o \in Orders |-> "none"]
    /\ fulfilments' = [o \in Orders |-> 0]
    /\ UNCHANGED acknowledged
=============================================================================
