---------------------------- MODULE MCMerchantOps ----------------------------
(* A small instance of MerchantOps: the two webhooks of one order. *)
EXTENDS MerchantOps, TLC

CONSTANTS paidEvent, createdEvent, o1

BothTypes == createdEvent :> "payment_intent.created" @@ paidEvent :> "payment_intent.paid"
BothOnOrder == [e \in {createdEvent, paidEvent} |-> o1]

AnySweep == Permutations(Sweeps)
=============================================================================
