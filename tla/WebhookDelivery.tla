--------------------------- MODULE WebhookDelivery ---------------------------
(***************************************************************************)
(* Webhooks from the queued row to the merchant: the worker that sweeps    *)
(* the due rows, one delivery attempt of WebhookDispatcher per row, the    *)
(* replay endpoint, the network between them and the demo merchant, and    *)
(* restarts of both.                                                       *)
(*                                                                         *)
(* A sweep acts on the rows as it listed them: by the time an attempt is   *)
(* recorded its copy of `attempts` and `deliveredAt` may be old.  The rows *)
(* of one listing are attempted in any order.                              *)
(***************************************************************************)
EXTENDS MerchantDemo, Sequences, FiniteSets

CONSTANTS
    Configured,     \* events whose merchant has a webhook_url and a secret
    Sweeps,         \* calls of the worker's tick that may run at once
    NoAttempt,
    MaxReplays,     \* bound on replay requests
    MaxRestarts     \* bound on restarts of the server, and of the shop

ASSUME DeliveryAssumption ==
    Configured \subseteq Events /\ MaxReplays \in Nat /\ MaxRestarts \in Nat

VARIABLES
    row,            \* WebhookEvent rows: status, attempts, nextRetryAt, deliveredAt
    log,            \* append-only ledger types of each event
    running,        \* reentrancy guard of the worker
    sweep,          \* tick calls: progress, listed rows, current attempt
    late,           \* requests given up by the server that may still arrive
    replays,
    restarts

server == <<row, log, running, sweep>>
bounds == <<replays, restarts>>
vars   == <<server, late, bounds, shop>>

WEBHOOK_MAX_ATTEMPTS == 4

\* nextRetryAt is null, in the future or reached.
NoRow == [status |-> "absent", attempts |-> 0, retryAt |-> "null", delivered |-> FALSE]

IdleSweep == [pc |-> "idle", batch |-> {}, at |-> NoAttempt]

Init ==
    /\ row = [e \in Events |-> NoRow]
    /\ log = [e \in Events |-> <<>>]
    /\ running = FALSE
    /\ sweep = [s \in Sweeps |-> IdleSweep]
    /\ late = {}
    /\ replays = 0
    /\ restarts = 0
    /\ ShopInit

LogTo(e, types) == log' = [log EXCEPT ![e] = @ \o types]

-----------------------------------------------------------------------------
(* Queue and replay *)

PendingRow == [status |-> "pending", attempts |-> 0, retryAt |-> "reached", delivered |-> FALSE]

\* WebhookService.queue, for all the webhooks of the transaction they announce.
Queue(S) ==
    /\ S # {} /\ \A e \in S : row[e].status = "absent"
    /\ row' = [e \in Events |-> IF e \in S THEN PendingRow ELSE row[e]]
    /\ log' = [e \in Events |-> IF e \in S THEN log[e] \o <<"webhook_queued">> ELSE log[e]]
    /\ UNCHANGED <<running, sweep, late, bounds, shop>>

\* Faulty variant: deliveredAt is reset with the rest of the row.
ReplayAfresh(e) ==
    /\ row[e].status # "absent"
    /\ replays < MaxReplays
    /\ replays' = replays + 1
    /\ row' = [row EXCEPT ![e] = PendingRow]
    /\ LogTo(e, <<"webhook_replayed">>)
    /\ UNCHANGED <<running, sweep, late, restarts, shop>>

\* POST /v1/webhooks/:event_id/replay, from any status; deliveredAt stays.
Replay(e) ==
    /\ row[e].status # "absent"
    /\ replays < MaxReplays
    /\ replays' = replays + 1
    /\ row' = [row EXCEPT ![e] = [status |-> "pending", attempts |-> 0,
                                  retryAt |-> "reached", delivered |-> @.delivered]]
    /\ LogTo(e, <<"webhook_replayed">>)
    /\ UNCHANGED <<running, sweep, late, restarts, shop>>

\* The clock passes nextRetryAt.
RetryFallsDue(e) ==
    /\ row[e].retryAt = "future"
    /\ row' = [row EXCEPT ![e] = [status |-> @.status, attempts |-> @.attempts,
                                  retryAt |-> "reached", delivered |-> @.delivered]]
    /\ UNCHANGED <<log, running, sweep, late, bounds, shop>>

-----------------------------------------------------------------------------
(* A sweep *)

\* Faulty variant: only rows that were never attempted are listed.
DueOnce == {e \in Events : row[e].status = "pending" /\ row[e].retryAt = "reached"}

Due == {e \in Events : /\ row[e].status \in {"pending", "retrying"}
                       /\ row[e].retryAt = "reached"}

Snapshot(e) == [event |-> e, attempts |-> row[e].attempts, delivered |-> row[e].delivered]

\* Faulty variant: a slow sweep may overlap the next one.
TickUnguarded(s) ==
    /\ sweep[s].pc = "idle"
    /\ running' = TRUE
    /\ sweep' = [sweep EXCEPT ![s] = [pc |-> "next", at |-> NoAttempt,
                                      batch |-> {Snapshot(e) : e \in Due}]]
    /\ UNCHANGED <<row, log, late, bounds, shop>>

\* The timer of the worker fires while no sweep runs, and the sweep lists.
Tick(s) ==
    /\ ~running
    /\ sweep[s].pc = "idle"
    /\ running' = TRUE
    /\ sweep' = [sweep EXCEPT ![s] = [pc |-> "next", at |-> NoAttempt,
                                      batch |-> {Snapshot(e) : e \in Due}]]
    /\ UNCHANGED <<row, log, late, bounds, shop>>

\* deliverOne: without an endpoint the attempt fails before any request.
Attempt(s) ==
    /\ sweep[s].pc = "next"
    /\ \E a \in sweep[s].batch :
         sweep' = [sweep EXCEPT ![s] =
                     [pc |-> IF a.event \in Configured THEN "sent" ELSE "failed",
                      at |-> a, batch |-> @.batch \ {a}]]
    /\ UNCHANGED <<row, log, running, late, bounds, shop>>

Outcome(s, pc) == sweep' = [sweep EXCEPT ![s] = [pc |-> pc, at |-> @.at, batch |-> @.batch]]

\* The merchant handles the request and its 200 arrives, or does not in time.
Arrives(s) ==
    /\ sweep[s].pc = "sent"
    /\ HandleWebhook(sweep[s].at.event)
    /\ \E pc \in {"succeeded", "failed"} : Outcome(s, pc)
    /\ UNCHANGED <<row, log, running, late, bounds>>

\* Faulty variant: any answer counts as a delivery.
RefusedButDelivered(s) ==
    /\ sweep[s].pc = "sent"
    /\ Outcome(s, "succeeded")
    /\ UNCHANGED <<row, log, running, late, bounds, shop>>

\* Connection refused, or an answer that is not 2xx.
Refused(s) ==
    /\ sweep[s].pc = "sent"
    /\ Outcome(s, "failed")
    /\ UNCHANGED <<row, log, running, late, bounds, shop>>

\* AbortSignal.timeout while the request is still on its way.
TimesOut(s) ==
    /\ sweep[s].pc = "sent"
    /\ Outcome(s, "failed")
    /\ late' = late \cup {sweep[s].at.event}
    /\ UNCHANGED <<row, log, running, bounds, shop>>

\* A request the server gave up arrives, perhaps not the last one of its event.
ArrivesLate(e) ==
    /\ e \in late
    /\ HandleWebhook(e)
    /\ late' \in {late, late \ {e}}
    /\ UNCHANGED <<server, bounds>>

IsLost(e) ==
    /\ e \in late
    /\ late' = late \ {e}
    /\ UNCHANGED <<server, bounds, shop>>

Recorded(s) == sweep' = [sweep EXCEPT ![s] = [pc |-> "next", at |-> NoAttempt,
                                              batch |-> @.batch]]

\* First success: the row is delivered, whatever it says by now.
RecordDelivered(s) ==
    LET a == sweep[s].at
    IN  /\ sweep[s].pc = "succeeded" /\ ~a.delivered
        /\ row' = [row EXCEPT ![a.event] =
                     [status |-> "delivered", attempts |-> @.attempts,
                      retryAt |-> "null", delivered |-> TRUE]]
        /\ LogTo(a.event, <<"webhook_delivered">>)
        /\ Recorded(s)
        /\ UNCHANGED <<running, late, bounds, shop>>

\* A redelivery keeps the first deliveredAt.
RecordDuplicate(s) ==
    LET a == sweep[s].at
    IN  /\ sweep[s].pc = "succeeded" /\ a.delivered
        /\ row' = [row EXCEPT ![a.event] =
                     [status |-> "delivered", attempts |-> @.attempts,
                      retryAt |-> "null", delivered |-> @.delivered]]
        /\ LogTo(a.event, <<"duplicate_event_ignored">>)
        /\ Recorded(s)
        /\ UNCHANGED <<running, late, bounds, shop>>

\* Faulty variant: the schedule ends one attempt late.
ExhaustedLate(completed) == completed > WEBHOOK_MAX_ATTEMPTS

\* nextRetryAtMs is null: the schedule has no further attempt.
Exhausted(completed) == completed >= WEBHOOK_MAX_ATTEMPTS

RecordFailure(s) ==
    LET a == sweep[s].at
        attempts == a.attempts + 1
    IN  /\ sweep[s].pc = "failed"
        /\ row' = [row EXCEPT ![a.event] =
                     [status |-> IF Exhausted(attempts) THEN "dead_lettered" ELSE "retrying",
                      attempts |-> attempts,
                      retryAt |-> IF Exhausted(attempts) THEN "null" ELSE "future",
                      delivered |-> @.delivered]]
        /\ LogTo(a.event, IF Exhausted(attempts)
                          THEN <<"webhook_failed", "webhook_dead_lettered">>
                          ELSE <<"webhook_failed">>)
        /\ Recorded(s)
        /\ UNCHANGED <<running, late, bounds, shop>>

SweepEnds(s) ==
    /\ sweep[s].pc = "next" /\ sweep[s].batch = {}
    /\ sweep' = [sweep EXCEPT ![s] = IdleSweep]
    /\ running' = FALSE
    /\ UNCHANGED <<row, log, late, bounds, shop>>

\* A database error ends the whole sweep; the guard is released all the same.
SweepAborts(s) ==
    /\ sweep[s].pc \in {"next", "succeeded", "failed"}
    /\ sweep' = [sweep EXCEPT ![s] = IdleSweep]
    /\ running' = FALSE
    /\ UNCHANGED <<row, log, late, bounds, shop>>

-----------------------------------------------------------------------------
(* Restarts *)

\* The requests of a sweep that dies may still arrive.
ServerRestarts ==
    /\ restarts < MaxRestarts
    /\ restarts' = restarts + 1
    /\ running' = FALSE
    /\ sweep' = [s \in Sweeps |-> IdleSweep]
    /\ late' = late \cup {sweep[s].at.event : s \in {t \in Sweeps : sweep[t].pc = "sent"}}
    /\ UNCHANGED <<row, log, replays, shop>>

ShopRestarts ==
    /\ restarts < MaxRestarts
    /\ restarts' = restarts + 1
    /\ ShopBoots
    /\ UNCHANGED <<server, late, replays>>

-----------------------------------------------------------------------------

SweepNext(s) ==
    \/ Tick(s) \/ Attempt(s)
    \/ Arrives(s) \/ Refused(s) \/ TimesOut(s)
    \/ RecordDelivered(s) \/ RecordDuplicate(s) \/ RecordFailure(s)
    \/ SweepEnds(s) \/ SweepAborts(s)

\* Everything but the queueing, which follows the payments.
DeliveryNext ==
    \/ \E e \in Events : Replay(e) \/ RetryFallsDue(e) \/ ArrivesLate(e) \/ IsLost(e)
    \/ \E s \in Sweeps : SweepNext(s)
    \/ \E o \in Orders : PlaceOrder(o) /\ UNCHANGED <<server, late, bounds>>
    \/ ServerRestarts \/ ShopRestarts

Next ==
    \/ \E S \in SUBSET Events : Queue(S)
    \/ DeliveryNext

Spec == Init /\ [][Next]_vars

\* The timer keeps firing, the clock advances, no request outlives its timeout,
\* and the database takes the outcome of every row's attempts again and again.
OutcomeOf(e, s) ==
    /\ sweep[s].at # NoAttempt /\ sweep[s].at.event = e
    /\ RecordDelivered(s) \/ RecordDuplicate(s) \/ RecordFailure(s)

AttemptOf(e, s) == Attempt(s) /\ sweep'[s].at.event = e

FairSpec ==
    /\ Spec
    /\ \A e \in Events : WF_vars(RetryFallsDue(e))
    /\ WF_vars(\E s \in Sweeps : Tick(s))
    /\ \A s \in Sweeps : /\ WF_vars(SweepEnds(s))
                         /\ WF_vars(Arrives(s) \/ Refused(s) \/ TimesOut(s))
    /\ \A e \in Events :
         /\ SF_vars(\E s \in Sweeps : AttemptOf(e, s))
         /\ SF_vars(\E s \in Sweeps : OutcomeOf(e, s))

-----------------------------------------------------------------------------
(* Types *)

RowStatuses == {"absent", "pending", "delivered", "retrying", "dead_lettered"}

EventLog == {"webhook_queued", "webhook_replayed", "webhook_delivered",
             "duplicate_event_ignored", "webhook_failed", "webhook_dead_lettered"}

Rows == [status : RowStatuses, attempts : 0..WEBHOOK_MAX_ATTEMPTS,
         retryAt : {"null", "future", "reached"}, delivered : BOOLEAN]

Attempts == [event : Events, attempts : 0..(WEBHOOK_MAX_ATTEMPTS - 1), delivered : BOOLEAN]

InAttempt == {"sent", "succeeded", "failed"}

SweepStates ==
    {IdleSweep}
      \cup [pc : {"next"}, batch : SUBSET Attempts, at : {NoAttempt}]
      \cup [pc : InAttempt, batch : SUBSET Attempts, at : Attempts]

\* Every variable holds a value the program can hold; an attempt in progress
\* carries a count that leaves room for one more (webhook-dispatcher.ts:56-62).
TypeOK ==
    /\ row \in [Events -> Rows]
    /\ log \in [Events -> Seq(EventLog)]
    /\ running \in BOOLEAN
    /\ sweep \in [Sweeps -> SweepStates]
    /\ late \subseteq Events
    /\ replays \in 0..MaxReplays
    /\ restarts \in 0..MaxRestarts
    /\ seen \subseteq Events
    /\ order \in [Orders -> OrderStatuses]
    /\ fulfilments \in [Orders -> Nat]
    /\ acknowledged \subseteq Events

-----------------------------------------------------------------------------
(* Safety *)

Occurs(x, l) == \E k \in DOMAIN l : l[k] = x
Once(x, l) == \A j, k \in DOMAIN l : l[j] = x /\ l[k] = x => j = k

\* The columns of a row agree whichever writer came last: a retry is scheduled
\* exactly for the rows the worker lists, a row waiting for a retry has attempts
\* left, and a dead-lettered one has used the whole schedule.
RowConsistent ==
    \A e \in Events :
      LET w == row[e]
      IN  /\ w.retryAt # "null" <=> w.status \in {"pending", "retrying"}
          /\ w.status = "pending" => w.attempts = 0
          /\ w.status = "retrying" => w.attempts \in 1..(WEBHOOK_MAX_ATTEMPTS - 1)
          /\ w.status = "dead_lettered" => w.attempts = WEBHOOK_MAX_ATTEMPTS
          /\ w.status = "delivered" => w.delivered
          /\ w.status = "absent" => ~w.delivered

\* Through retries, replays, lost answers and restarts an event is recorded as
\* delivered at most once, and deliveredAt is set exactly then; every later
\* success is a duplicate_event_ignored.
DeliveredOnce ==
    \A e \in Events :
      /\ Once("webhook_delivered", log[e])
      /\ row[e].delivered <=> Occurs("webhook_delivered", log[e])
      /\ Occurs("duplicate_event_ignored", log[e]) => row[e].delivered

\* The guard leaves one sweep at a time, and the copies of deliveredAt that it
\* took when it listed the rows hold until it records their outcome, although
\* attempts take seconds and rows are queued and replayed meanwhile.
SnapshotsFresh ==
    \A s \in Sweeps : sweep[s].pc # "idle" =>
      /\ running
      /\ \A t \in Sweeps \ {s} : sweep[t].pc = "idle"
      /\ \A a \in sweep[s].batch : a.delivered = row[a.event].delivered
      /\ \A a, b \in sweep[s].batch : a.event = b.event => a = b
      /\ sweep[s].pc \in InAttempt =>
           /\ sweep[s].at.delivered = row[sweep[s].at.event].delivered
           /\ \A b \in sweep[s].batch : b.event # sweep[s].at.event

\* An event is recorded as delivered only if the merchant handled it.
DeliveredWasHandled == \A e \in Events : row[e].delivered => e \in acknowledged

PaidEventsOf(o) == {e \in Events : OrderOf[e] = o /\ TypeOf[e] = "payment_intent.paid"}

\* Between two boots of the shop an order is fulfilled at most once for each
\* payment_intent.paid event, however often the event arrives: retried,
\* replayed, late, or sent again after a restart of the server.
FulfilledOnce ==
    \A o \in Orders : \A e \in PaidEventsOf(o) :
      PaidEventsOf(o) = {e} => fulfilments[o] = (IF e \in seen THEN 1 ELSE 0)

DrivingEventsOf(o) == {e \in Events : OrderOf[e] = o /\ TypeOf[e] \in DrivingTypes}

\* The order shows what its one settlement event says as soon as that event was
\* handled, and in whatever order the other events arrive around it.
OrderFollowsSettlement ==
    \A o \in Orders : \A e \in DrivingEventsOf(o) :
      DrivingEventsOf(o) = {e} =>
        order[o] \in (IF e \in seen THEN {OrderStatusByType[TypeOf[e]]}
                                    ELSE {"none", "pending"})

\* The failures recorded since the event was queued or last replayed.
FailuresSinceReset(l) ==
    LET resets == {k \in DOMAIN l : l[k] \in {"webhook_queued", "webhook_replayed"}}
    IN  {k \in DOMAIN l : l[k] = "webhook_failed" /\ \A j \in resets : j < k}

\* An event is given up exactly when four attempts have failed since it was
\* queued or last replayed: none is skipped and none is lost.
DeadLetterEarned ==
    \A e \in Events : row[e].status = "dead_lettered" =>
      Cardinality(FailuresSinceReset(log[e])) = WEBHOOK_MAX_ATTEMPTS

\* However outcomes, replays and crashes interleave, an event is given up only
\* after the whole schedule: four recorded failures, and no more than four if it
\* was never replayed.
GivenUpAfterFour ==
    \A e \in Events : row[e].status = "dead_lettered" =>
      LET failures == Cardinality({k \in DOMAIN log[e] : log[e][k] = "webhook_failed"})
      IN  IF Occurs("webhook_replayed", log[e]) THEN failures >= WEBHOOK_MAX_ATTEMPTS
                                                ELSE failures = WEBHOOK_MAX_ATTEMPTS

\* Every queued event is delivered or given up in the end.
EventuallySettled ==
    \A e \in Events :
      row[e].status \in {"pending", "retrying"}
        ~> row[e].status \in {"delivered", "dead_lettered"}
=============================================================================
