---------------------------- MODULE FiberAdapter ----------------------------
(***************************************************************************)
(* What an invoice is to the two adapters.  In "real" mode it lives in a   *)
(* Fiber node (fnn) and moves by itself; in "simulated" mode it lives in   *)
(* the memory of the API process and moves when it lapses or when a demo   *)
(* endpoint drives it.                                                     *)
(***************************************************************************)
EXTENDS Lifecycle

CONSTANT Mode    \* FIBER_ADAPTER_MODE

ASSUME ModeAssumption == Mode \in {"real", "simulated"}

\* The adapter knows no such invoice: never issued, or lost in a restart.
Absent == "absent"

InvoiceStatusMap ==
    [ Open      |-> "created",
      Received  |-> "processing",
      Paid      |-> "paid",
      Expired   |-> "expired",
      Cancelled |-> "failed" ]

SimulatedStatuses == {"created", "processing", "paid", "expired", "failed"}

InvoiceStates == IF Mode = "real" THEN DOMAIN InvoiceStatusMap
                                  ELSE SimulatedStatuses

NewInvoice == IF Mode = "real" THEN "Open" ELSE "created"

PaidInvoice == IF Mode = "real" THEN "Paid" ELSE "paid"

\* The moves of an fnn invoice: the last three states are final.
NodeMoves ==
    [ Open      |-> {"Received", "Paid", "Expired", "Cancelled"},
      Received  |-> {"Paid", "Expired", "Cancelled"},
      Paid      |-> {},
      Expired   |-> {},
      Cancelled |-> {} ]

\* Both adapters answer with a status for an invoice they know; anything
\* else is "unknown".
Reported(s) ==
    IF Mode = "real"
    THEN IF s \in DOMAIN InvoiceStatusMap THEN InvoiceStatusMap[s] ELSE "unknown"
    ELSE IF s \in SimulatedStatuses THEN s ELSE "unknown"

\* applyExpiry is lazy: the clock may or may not have passed expiresAt when an
\* invoice that can still lapse is looked at.
AfterExpiry(s) == {s} \cup (IF s \in {"created", "processing"} THEN {"expired"} ELSE {})

DemoActions == {"mark-paid", "mark-expired", "mark-failed"}

\* Faulty variant: a paid invoice may still be marked expired or failed.
MarkOutcomesUnguarded(action, s) ==
    IF s = Absent THEN {[to |-> s, accepted |-> FALSE]}
    ELSE {[to |-> IF action = "mark-paid" THEN "paid"
                  ELSE IF action = "mark-expired" THEN "expired" ELSE "failed",
           accepted |-> TRUE]}

\* The outcomes of driving a simulated invoice: its state afterwards (a lapse
\* noticed on the way is kept even when the mark is refused) and whether the
\* adapter accepted the mark.
MarkOutcomes(action, s) ==
    IF s = Absent THEN {[to |-> s, accepted |-> FALSE]}
    ELSE IF action = "mark-paid"
         THEN {[to |-> IF t \in {"expired", "failed"} THEN t ELSE "paid",
                accepted |-> t \notin {"expired", "failed"}] : t \in AfterExpiry(s)}
         ELSE {[to |-> IF s = "paid" THEN s
                       ELSE IF action = "mark-expired" THEN "expired" ELSE "failed",
                accepted |-> s # "paid"]}
=============================================================================
