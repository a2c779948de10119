------------------------------ MODULE Lifecycle ------------------------------
(***************************************************************************)
(* The merchant-facing lifecycle of a payment intent: the status registry, *)
(* the table of legal moves, what a status reported by the Fiber adapter   *)
(* means for the intent, and which ledger event and webhook announce it.   *)
(***************************************************************************)

Statuses == {"created", "requires_payment", "processing",
             "paid", "expired", "failed"}

TerminalStatuses == {"paid", "expired", "failed"}

IsTerminalStatus(s) == s \in TerminalStatuses

AllowedTransitions ==
    [ created          |-> {"requires_payment", "failed"},
      requires_payment |-> {"processing", "paid", "expired", "failed"},
      processing       |-> {"paid", "expired", "failed"},
      paid             |-> {},
      expired          |-> {},
      failed           |-> {} ]

CanTransition(from, to) == to \in AllowedTransitions[from]

\* Adapter statuses that imply an intent status; "unknown" implies none.
IntentStatusByAdapterStatus ==
    [ created    |-> "requires_payment",
      processing |-> "processing",
      paid       |-> "paid",
      expired    |-> "expired",
      failed     |-> "failed" ]

AdapterStatuses == DOMAIN IntentStatusByAdapterStatus \cup {"unknown"}

\* Faulty variant: a payment in flight counts as paid.
IntentStatusEager(a) ==
    IF a = "processing" THEN "paid"
    ELSE IF a \in DOMAIN IntentStatusByAdapterStatus
         THEN IntentStatusByAdapterStatus[a] ELSE "none"

IntentStatusFromAdapterStatus(a) ==
    IF a \in DOMAIN IntentStatusByAdapterStatus
    THEN IntentStatusByAdapterStatus[a] ELSE "none"

\* Only these statuses are ever written by a refresh.
LedgerEventByStatus ==
    [ processing |-> "payment_processing",
      paid       |-> "payment_paid",
      expired    |-> "payment_expired",
      failed     |-> "payment_failed" ]

WebhookTypeByStatus ==
    [ processing |-> "payment_intent.processing",
      paid       |-> "payment_intent.paid",
      expired    |-> "payment_intent.expired",
      failed     |-> "payment_intent.failed" ]

RefreshTargets == DOMAIN LedgerEventByStatus

\* Faulty variant: every report is written, a repeated one too.
ActionableAlways(previous, target) == target \in RefreshTargets

\* The filter of PaymentStatusTracker.refreshIntent.
Actionable(previous, target) ==
    /\ target \in RefreshTargets
    /\ target # previous
    /\ CanTransition(previous, target)
=============================================================================
