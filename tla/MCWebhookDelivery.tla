-------------------------- MODULE MCWebhookDelivery --------------------------
(* Small instances of WebhookDelivery. *)
EXTENDS WebhookDelivery, TLC

CONSTANTS paid, created, o1

\* The order of one intent: its creation is announced first, then its payment.
BothTypes == created :> "payment_intent.created" @@ paid :> "payment_intent.paid"
PaidOnly == paid :> "payment_intent.paid"
SameOrderFor(events) == [e \in events |-> o1]
BothOnOrder == SameOrderFor({created, paid})
PaidOnOrder == SameOrderFor({paid})

AnySweep == Permutations(Sweeps)
=============================================================================
