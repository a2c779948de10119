------------------------------ MODULE Settlement ------------------------------
(***************************************************************************)
(* What the payment server promises about money, with all of its callers,  *)
(* snapshots and crashes left out: an intent is opened, its invoice is     *)
(* paid at the adapter, and from then on it may be settled, once and for   *)
(* ever, by a receipt and its announcement together.  PaymentIntents       *)
(* implements it; MerchantOps builds on it.                                *)
(***************************************************************************)

CONSTANTS
    Intents,
    Volatile        \* the adapter forgets its invoices in a restart

ASSUME VolatileAssumption == Volatile \in BOOLEAN

VARIABLES
    opened,         \* intents promoted to requires_payment
    paid,           \* intents whose invoice the adapter holds as paid
    issued,         \* intents with a receipt
    announced       \* intents with a payment_intent.paid webhook

settlement == <<opened, paid, issued, announced>>

SettlementInit ==
    /\ opened = {}
    /\ paid = {}
    /\ issued = {}
    /\ announced = {}

Open(i) ==
    /\ i \in Intents \ opened
    /\ opened' = opened \cup {i}
    /\ UNCHANGED <<paid, issued, announced>>

\* The invoice is payable before the intent is promoted.
Pay(i) ==
    /\ i \in Intents \ paid
    /\ paid' = paid \cup {i}
    /\ UNCHANGED <<opened, issued, announced>>

Forget ==
    /\ Volatile
    /\ paid' = {}
    /\ UNCHANGED <<opened, issued, announced>>

Settle(i) ==
    /\ i \in (opened \cap paid) \ issued
    /\ issued' = issued \cup {i}
    /\ announced' = announced \cup {i}
    /\ UNCHANGED <<opened, paid>>

SettlementNext ==
    \/ \E i \in Intents : Open(i) \/ Pay(i) \/ Settle(i)
    \/ Forget

SettlementSpec == SettlementInit /\ [][SettlementNext]_settlement
=============================================================================
