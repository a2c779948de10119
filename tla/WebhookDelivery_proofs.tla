------------------------ MODULE WebhookDelivery_proofs ------------------------
(***************************************************************************)
(* Proofs about webhook delivery, for any set of events, any number of     *)
(* overlapping ticks, replays and restarts: rows stay consistent, the      *)
(* copies a sweep acts on stay true, and an event is recorded as delivered *)
(* at most once.                                                           *)
(***************************************************************************)
EXTENDS WebhookDelivery, SequenceTheorems, FiniteSetTheorems, TLAPS

-----------------------------------------------------------------------------
(* Types *)

\* A sweep with an attempt in progress holds the snapshot of one event.
LEMMA InAttemptShape ==
  ASSUME TypeOK, NEW s \in Sweeps, sweep[s].pc \in InAttempt
  PROVE  /\ sweep[s].at \in Attempts /\ sweep[s].at.event \in Events
         /\ sweep[s].at.attempts \in 0..3 /\ sweep[s].at.delivered \in BOOLEAN
         /\ sweep[s].batch \in SUBSET Attempts
  <1>1. sweep[s] \in SweepStates
    BY DEF TypeOK
  <1>2. sweep[s] \in [pc : InAttempt, batch : SUBSET Attempts, at : Attempts]
    BY <1>1 DEF SweepStates, IdleSweep, InAttempt
  <1>3. sweep[s].at \in Attempts /\ sweep[s].batch \in SUBSET Attempts
    BY <1>2
  <1> QED BY <1>3 DEF Attempts, WEBHOOK_MAX_ATTEMPTS

\* Between attempts a sweep still has a batch of snapshots.
LEMMA NextShape ==
  ASSUME TypeOK, NEW s \in Sweeps, sweep[s].pc = "next"
  PROVE  sweep[s].batch \in SUBSET Attempts /\ sweep[s].at = NoAttempt
  <1>1. sweep[s] \in SweepStates
    BY DEF TypeOK
  <1> QED BY <1>1 DEF SweepStates, IdleSweep, InAttempt

\* Appending known types keeps the ledger of every event well typed.
LEMMA LogTyped ==
  ASSUME log \in [Events -> Seq(EventLog)], NEW e \in Events,
         NEW types \in Seq(EventLog), LogTo(e, types)
  PROVE  log' \in [Events -> Seq(EventLog)]
  <1>1. log[e] \o types \in Seq(EventLog)
    OBVIOUS
  <1> QED BY <1>1 DEF LogTo

\* Handling a request keeps the shop well typed.
LEMMA HandleTyped ==
  ASSUME TypeOK, NEW e \in Events, HandleWebhook(e)
  PROVE  /\ seen' \subseteq Events /\ acknowledged' \subseteq Events
         /\ order' \in [Orders -> OrderStatuses] /\ fulfilments' \in [Orders -> Nat]
  <1>1. OrderOf[e] \in Orders
    BY EventAssumption
  <1>2. CASE e \in seen
    BY <1>2 DEF HandleWebhook, TypeOK
  <1>3. CASE e \notin seen
    <2>1. Apply(e) /\ seen' = seen \cup {e} /\ acknowledged' = acknowledged \cup {e}
      BY <1>3 DEF HandleWebhook
    <2>2. TypeOf[e] \in DrivingTypes => OrderStatusByType[TypeOf[e]] \in OrderStatuses
      BY DEF DrivingTypes, OrderStatusByType, OrderStatuses
    <2>3. EnsureOrder(order[OrderOf[e]]) \in OrderStatuses
      BY <1>1 DEF EnsureOrder, OrderStatuses, TypeOK
    <2>4. order' \in [Orders -> OrderStatuses]
      BY <1>1, <2>1, <2>2, <2>3 DEF Apply, TypeOK
    <2>5. fulfilments' \in [Orders -> Nat]
      BY <1>1, <2>1 DEF Apply, TypeOK
    <2> QED BY <2>1, <2>4, <2>5 DEF TypeOK
  <1> QED BY <1>2, <1>3

\* Only a row with attempts left is listed.
LEMMA DueSnapshots ==
  ASSUME TypeOK, RowConsistent
  PROVE  {Snapshot(e) : e \in Due} \in SUBSET Attempts
  <1> SUFFICES ASSUME NEW e \in Due PROVE Snapshot(e) \in Attempts
    OBVIOUS
  <1>1. e \in Events /\ row[e] \in Rows /\ row[e].status \in {"pending", "retrying"}
    BY DEF Due, TypeOK
  <1>2. row[e].attempts \in 0..3 /\ row[e].delivered \in BOOLEAN
    BY <1>1 DEF RowConsistent, Rows, WEBHOOK_MAX_ATTEMPTS
  <1> QED BY <1>1, <1>2 DEF Snapshot, Attempts, WEBHOOK_MAX_ATTEMPTS

\* A write of a consistent row keeps the table typed and consistent.
LEMMA RowWritten ==
  ASSUME TypeOK, RowConsistent, NEW e \in Events, NEW w \in Rows,
         row' = [row EXCEPT ![e] = w],
         w.retryAt # "null" <=> w.status \in {"pending", "retrying"},
         w.status = "pending" => w.attempts = 0,
         w.status = "retrying" => w.attempts \in 1..3,
         w.status = "dead_lettered" => w.attempts = 4,
         w.status = "delivered" => w.delivered, w.status # "absent"
  PROVE  row' \in [Events -> Rows] /\ RowConsistent'
  <1>1. row' \in [Events -> Rows]
    BY DEF TypeOK
  <1>2. \A f \in Events : row'[f] = IF f = e THEN w ELSE row[f]
    BY DEF TypeOK
  <1> QED BY <1>1, <1>2 DEF RowConsistent, WEBHOOK_MAX_ATTEMPTS

\* The variables that neither a row write nor a sweep touches.
Surroundings ==
    /\ late \subseteq Events
    /\ replays \in 0..MaxReplays
    /\ restarts \in 0..MaxRestarts
    /\ seen \subseteq Events
    /\ order \in [Orders -> OrderStatuses]
    /\ fulfilments \in [Orders -> Nat]
    /\ acknowledged \subseteq Events

\* The type invariant by parts, now and in the next state.
LEMMA TypeParts ==
  TypeOK <=> /\ row \in [Events -> Rows] /\ log \in [Events -> Seq(EventLog)]
             /\ running \in BOOLEAN /\ sweep \in [Sweeps -> SweepStates]
             /\ Surroundings
  BY Zenon DEF TypeOK, Surroundings

LEMMA TypePartsNext ==
  ASSUME row' \in [Events -> Rows], log' \in [Events -> Seq(EventLog)],
         running' \in BOOLEAN, sweep' \in [Sweeps -> SweepStates], Surroundings'
  PROVE  TypeOK'
  BY Zenon DEF TypeOK, Surroundings

\* The initial state is typed and its (absent) rows are consistent.
THEOREM InitTyped == Init => TypeOK /\ RowConsistent
  <1> SUFFICES ASSUME Init PROVE TypeOK /\ RowConsistent
    OBVIOUS
  <1>1. NoRow \in Rows
    BY DEF NoRow, Rows, RowStatuses, WEBHOOK_MAX_ATTEMPTS
  <1>2. row \in [Events -> Rows] /\ RowConsistent
    BY <1>1 DEF Init, NoRow, RowConsistent
  <1>3. log \in [Events -> Seq(EventLog)] /\ sweep \in [Sweeps -> SweepStates]
    BY DEF Init, SweepStates
  <1>4. Surroundings
    BY DeliveryAssumption DEF Init, ShopInit, Surroundings, OrderStatuses
  <1>5. running \in BOOLEAN
    BY DEF Init
  <1> QED BY <1>2, <1>3, <1>4, <1>5, TypeParts, Zenon

\* Each step keeps the types and the rows consistent; a recorded duplicate does
\* so because the sweep's copy of deliveredAt is still true.
LEMMA TypedStep ==
  TypeOK /\ RowConsistent /\ SnapshotsFresh /\ [Next]_vars => TypeOK' /\ RowConsistent'
  <1> SUFFICES ASSUME TypeOK, RowConsistent, SnapshotsFresh, [Next]_vars
               PROVE TypeOK' /\ RowConsistent'
    OBVIOUS
  <1>a. /\ row \in [Events -> Rows] /\ log \in [Events -> Seq(EventLog)]
        /\ running \in BOOLEAN /\ sweep \in [Sweeps -> SweepStates] /\ Surroundings
    BY TypeParts, Zenon
  <1>b. (UNCHANGED row) => RowConsistent'
    BY DEF RowConsistent
  <1>1. ASSUME NEW S \in SUBSET Events, Queue(S) PROVE TypeOK' /\ RowConsistent'
    <2>1. PendingRow \in Rows
      BY DEF PendingRow, Rows, RowStatuses, WEBHOOK_MAX_ATTEMPTS
    <2>2. /\ row' = [f \in Events |-> IF f \in S THEN PendingRow ELSE row[f]]
          /\ log' = [f \in Events |-> IF f \in S THEN log[f] \o <<"webhook_queued">> ELSE log[f]]
      BY <1>1 DEF Queue
    <2>3. row' \in [Events -> Rows]
      BY <2>1, <2>2, <1>a
    <2>4. RowConsistent'
      BY <2>2 DEF RowConsistent, PendingRow
    <2>5. log' \in [Events -> Seq(EventLog)]
      <3>1. \A f \in Events : log[f] \o <<"webhook_queued">> \in Seq(EventLog)
        BY <1>a DEF EventLog
      <3> QED BY <2>2, <3>1, <1>a
    <2>6. running' \in BOOLEAN /\ sweep' \in [Sweeps -> SweepStates] /\ Surroundings'
      BY <1>1, <1>a DEF Queue, bounds, shop, Surroundings
    <2> QED BY <2>3, <2>4, <2>5, <2>6, TypePartsNext
  <1>2. ASSUME NEW e \in Events, Replay(e) PROVE TypeOK' /\ RowConsistent'
    <2> DEFINE w == [status |-> "pending", attempts |-> 0, retryAt |-> "reached",
                     delivered |-> row[e].delivered]
    <2>1. w \in Rows
      BY <1>a DEF Rows, RowStatuses, WEBHOOK_MAX_ATTEMPTS
    <2>2. row' = [row EXCEPT ![e] = w] /\ LogTo(e, <<"webhook_replayed">>)
      BY <1>2 DEF Replay
    <2>3. row' \in [Events -> Rows] /\ RowConsistent'
      <3>1. w.status = "pending" /\ w.attempts = 0 /\ w.retryAt = "reached"
        OBVIOUS
      <3> HIDE DEF w
      <3> QED BY <2>1, <2>2, <3>1, RowWritten
    <2>4. log' \in [Events -> Seq(EventLog)]
      <3>1. <<"webhook_replayed">> \in Seq(EventLog)
        BY DEF EventLog
      <3> QED BY <2>2, <3>1, LogTyped, <1>a
    <2>5. running' \in BOOLEAN /\ sweep' \in [Sweeps -> SweepStates]
      BY <1>2, <1>a DEF Replay
    <2>6. Surroundings'
      BY <1>2, <1>a, DeliveryAssumption DEF Replay, shop, Surroundings
    <2> QED BY <2>3, <2>4, <2>5, <2>6, TypePartsNext
  <1>3. ASSUME NEW e \in Events, RetryFallsDue(e) PROVE TypeOK' /\ RowConsistent'
    <2> DEFINE w == [status |-> row[e].status, attempts |-> row[e].attempts,
                     retryAt |-> "reached", delivered |-> row[e].delivered]
    <2>0. row[e] \in Rows
      BY <1>a
    <2>1. w \in Rows
      BY <2>0 DEF Rows
    <2>2. row' = [row EXCEPT ![e] = w]
      BY <1>3 DEF RetryFallsDue
    <2>3. row' \in [Events -> Rows] /\ RowConsistent'
      <3>1. /\ w.status = row[e].status /\ w.attempts = row[e].attempts
            /\ w.retryAt = "reached" /\ w.delivered = row[e].delivered
        OBVIOUS
      <3>2. /\ row[e].status \in {"pending", "retrying"}
            /\ row[e].status = "pending" => row[e].attempts = 0
            /\ row[e].status = "retrying" => row[e].attempts \in 1..3
        BY <1>3 DEF RetryFallsDue, RowConsistent, WEBHOOK_MAX_ATTEMPTS
      <3> HIDE DEF w
      <3> QED BY <2>1, <2>2, <3>1, <3>2, RowWritten
    <2>5. UNCHANGED <<log, running, sweep>> /\ Surroundings'
      BY <1>3, <1>a DEF RetryFallsDue, bounds, shop, Surroundings
    <2> QED BY <2>3, <2>5, <1>a, TypePartsNext
  <1>4. ASSUME NEW e \in Events, ArrivesLate(e) PROVE TypeOK' /\ RowConsistent'
    <2>1. HandleWebhook(e) /\ late' \subseteq late /\ UNCHANGED <<row, log, running, sweep, bounds>>
      BY <1>4 DEF ArrivesLate, server
    <2>2. Surroundings'
      BY <2>1, <1>a, HandleTyped DEF Surroundings, bounds
    <2> QED BY <2>1, <2>2, <1>a, <1>b, TypePartsNext
  <1>5. ASSUME NEW e \in Events, IsLost(e) PROVE TypeOK' /\ RowConsistent'
    <2>1. UNCHANGED <<row, log, running, sweep>> /\ Surroundings'
      BY <1>5, <1>a DEF IsLost, server, bounds, shop, Surroundings
    <2> QED BY <2>1, <1>a, <1>b, TypePartsNext
  <1>6. ASSUME NEW s \in Sweeps, Tick(s) PROVE TypeOK' /\ RowConsistent'
    <2>1. [pc |-> "next", at |-> NoAttempt, batch |-> {Snapshot(e) : e \in Due}] \in SweepStates
      BY DueSnapshots DEF SweepStates
    <2>2. sweep' \in [Sweeps -> SweepStates] /\ running' \in BOOLEAN
      BY <1>6, <1>a, <2>1 DEF Tick
    <2>3. UNCHANGED <<row, log>> /\ Surroundings'
      BY <1>6, <1>a DEF Tick, bounds, shop, Surroundings
    <2> QED BY <2>2, <2>3, <1>a, <1>b, TypePartsNext
  <1>7. ASSUME NEW s \in Sweeps, Attempt(s) PROVE TypeOK' /\ RowConsistent'
    <2>1. PICK a \in sweep[s].batch :
            sweep' = [sweep EXCEPT ![s] =
                        [pc |-> IF a.event \in Configured THEN "sent" ELSE "failed",
                         at |-> a, batch |-> sweep[s].batch \ {a}]]
      BY <1>7 DEF Attempt
    <2>2. sweep[s].batch \in SUBSET Attempts
      BY <1>7, NextShape DEF Attempt
    <2>3. sweep' \in [Sweeps -> SweepStates]
      BY <2>1, <2>2, <1>a DEF SweepStates, InAttempt
    <2>4. UNCHANGED <<row, log, running>> /\ Surroundings'
      BY <1>7, <1>a DEF Attempt, bounds, shop, Surroundings
    <2> QED BY <2>3, <2>4, <1>a, <1>b, TypePartsNext
  <1>c. ASSUME NEW s \in Sweeps, sweep[s].pc \in InAttempt, NEW pc \in InAttempt, Outcome(s, pc)
        PROVE  sweep' \in [Sweeps -> SweepStates]
    <2>1. [pc |-> pc, at |-> sweep[s].at, batch |-> sweep[s].batch] \in SweepStates
      BY <1>c, InAttemptShape DEF SweepStates
    <2> QED BY <1>c, <2>1, <1>a DEF Outcome
  <1>d. ASSUME NEW s \in Sweeps, sweep[s].pc \in InAttempt, Recorded(s)
        PROVE  sweep' \in [Sweeps -> SweepStates]
    <2>1. [pc |-> "next", at |-> NoAttempt, batch |-> sweep[s].batch] \in SweepStates
      BY <1>d, InAttemptShape DEF SweepStates
    <2> QED BY <1>d, <2>1, <1>a DEF Recorded
  <1>8. ASSUME NEW s \in Sweeps, Arrives(s) PROVE TypeOK' /\ RowConsistent'
    <2>1. sweep[s].pc \in InAttempt /\ \E pc \in InAttempt : Outcome(s, pc)
      BY <1>8 DEF Arrives, InAttempt
    <2>2. sweep' \in [Sweeps -> SweepStates]
      BY <2>1, <1>c
    <2>3. UNCHANGED <<row, log, running, late, bounds>> /\ HandleWebhook(sweep[s].at.event)
      BY <1>8 DEF Arrives
    <2>4. Surroundings'
      BY <2>1, <2>3, <1>a, HandleTyped, InAttemptShape DEF Surroundings, bounds
    <2> QED BY <2>2, <2>3, <2>4, <1>a, <1>b, TypePartsNext
  <1>9. ASSUME NEW s \in Sweeps, Refused(s) PROVE TypeOK' /\ RowConsistent'
    <2>1. sweep' \in [Sweeps -> SweepStates]
      BY <1>9, <1>c DEF Refused, InAttempt
    <2>2. UNCHANGED <<row, log, running>> /\ Surroundings'
      BY <1>9, <1>a DEF Refused, bounds, shop, Surroundings
    <2> QED BY <2>1, <2>2, <1>a, <1>b, TypePartsNext
  <1>10. ASSUME NEW s \in Sweeps, TimesOut(s) PROVE TypeOK' /\ RowConsistent'
    <2>1. sweep' \in [Sweeps -> SweepStates]
      BY <1>10, <1>c DEF TimesOut, InAttempt
    <2>2. sweep[s].at.event \in Events
      BY <1>10, InAttemptShape DEF TimesOut, InAttempt
    <2>3. UNCHANGED <<row, log, running>> /\ Surroundings'
      BY <1>10, <1>a, <2>2 DEF TimesOut, bounds, shop, Surroundings
    <2> QED BY <2>1, <2>3, <1>a, <1>b, TypePartsNext
  <1>11. ASSUME NEW s \in Sweeps, RecordDelivered(s) PROVE TypeOK' /\ RowConsistent'
    <2> DEFINE a == sweep[s].at
               w == [status |-> "delivered", attempts |-> row[a.event].attempts,
                     retryAt |-> "null", delivered |-> TRUE]
    <2>1. sweep[s].pc \in InAttempt
      BY <1>11 DEF RecordDelivered, InAttempt
    <2>2. PICK e \in Events : e = a.event
      BY <2>1, InAttemptShape
    <2>3. row[e] \in Rows
      BY <1>a
    <2>4. w \in Rows
      BY <2>2, <2>3 DEF Rows, RowStatuses
    <2>5. row' = [row EXCEPT ![e] = w] /\ LogTo(e, <<"webhook_delivered">>) /\ Recorded(s)
      BY <1>11, <2>2 DEF RecordDelivered
    <2>6. w.status = "delivered" /\ w.retryAt = "null" /\ w.delivered
      OBVIOUS
    <2>7. <<"webhook_delivered">> \in Seq(EventLog)
      BY DEF EventLog
    <2>8. running' \in BOOLEAN /\ Surroundings'
      BY <1>11, <1>a DEF RecordDelivered, bounds, shop, Surroundings
    <2>9. log' \in [Events -> Seq(EventLog)] /\ sweep' \in [Sweeps -> SweepStates]
      BY <1>a, <1>d, <2>1, <2>5, <2>7, LogTyped
    <2> HIDE DEF a, w
    <2>10. row' \in [Events -> Rows] /\ RowConsistent'
      BY <2>4, <2>5, <2>6, RowWritten
    <2> QED BY <2>8, <2>9, <2>10, TypePartsNext
  <1>12. ASSUME NEW s \in Sweeps, RecordDuplicate(s) PROVE TypeOK' /\ RowConsistent'
    <2> DEFINE a == sweep[s].at
               w == [status |-> "delivered", attempts |-> row[a.event].attempts,
                     retryAt |-> "null", delivered |-> row[a.event].delivered]
    <2>1. sweep[s].pc \in InAttempt
      BY <1>12 DEF RecordDuplicate, InAttempt
    <2>2. PICK e \in Events : e = a.event
      BY <2>1, InAttemptShape
    <2>3. row[e] \in Rows
      BY <1>a
    <2>4. w \in Rows
      BY <2>2, <2>3 DEF Rows, RowStatuses
    <2>5. row' = [row EXCEPT ![e] = w] /\ LogTo(e, <<"duplicate_event_ignored">>) /\ Recorded(s)
      BY <1>12, <2>2 DEF RecordDuplicate
    <2>6. a.delivered /\ a.delivered = row[e].delivered
      BY <1>12, <2>1, <2>2 DEF SnapshotsFresh, RecordDuplicate, InAttempt
    <2>7. w.status = "delivered" /\ w.retryAt = "null" /\ w.delivered
      BY <2>2, <2>6
    <2>8. <<"duplicate_event_ignored">> \in Seq(EventLog)
      BY DEF EventLog
    <2>9. running' \in BOOLEAN /\ Surroundings'
      BY <1>12, <1>a DEF RecordDuplicate, bounds, shop, Surroundings
    <2>10. log' \in [Events -> Seq(EventLog)] /\ sweep' \in [Sweeps -> SweepStates]
      BY <1>a, <1>d, <2>1, <2>5, <2>8, LogTyped
    <2> HIDE DEF a, w
    <2>11. row' \in [Events -> Rows] /\ RowConsistent'
      BY <2>4, <2>5, <2>7, RowWritten
    <2> QED BY <2>9, <2>10, <2>11, TypePartsNext
  <1>13. ASSUME NEW s \in Sweeps, RecordFailure(s) PROVE TypeOK' /\ RowConsistent'
    <2> DEFINE a == sweep[s].at
               n == a.attempts + 1
               w == [status |-> IF Exhausted(n) THEN "dead_lettered" ELSE "retrying",
                     attempts |-> n,
                     retryAt |-> IF Exhausted(n) THEN "null" ELSE "future",
                     delivered |-> row[a.event].delivered]
               types == IF Exhausted(n) THEN <<"webhook_failed", "webhook_dead_lettered">>
                                        ELSE <<"webhook_failed">>
    <2>1. sweep[s].pc \in InAttempt
      BY <1>13 DEF RecordFailure, InAttempt
    <2>2. PICK e \in Events : e = a.event
      BY <2>1, InAttemptShape
    <2>3. row[e] \in Rows
      BY <1>a
    <2>4. n \in 1..4 /\ (Exhausted(n) <=> n = 4)
      <3>1. a.attempts \in 0..3
        BY <2>1, InAttemptShape
      <3> QED BY <3>1 DEF Exhausted, WEBHOOK_MAX_ATTEMPTS
    <2>5. types \in Seq(EventLog)
      <3>1. /\ <<"webhook_failed", "webhook_dead_lettered">> \in Seq(EventLog)
            /\ <<"webhook_failed">> \in Seq(EventLog)
        BY DEF EventLog
      <3> QED BY <3>1
    <2>6. row' = [row EXCEPT ![e] = w] /\ LogTo(e, types) /\ Recorded(s)
      BY <1>13, <2>2 DEF RecordFailure
    <2>7. /\ w.attempts = n /\ w.delivered = row[e].delivered
          /\ n = 4 => w.status = "dead_lettered" /\ w.retryAt = "null"
          /\ n # 4 => w.status = "retrying" /\ w.retryAt = "future"
      BY <2>2, <2>4
    <2>8. w \in Rows
      BY <2>2, <2>3, <2>4 DEF Rows, RowStatuses, WEBHOOK_MAX_ATTEMPTS
    <2>9. running' \in BOOLEAN /\ Surroundings'
      BY <1>13, <1>a DEF RecordFailure, bounds, shop, Surroundings
    <2> HIDE DEF types
    <2>10. log' \in [Events -> Seq(EventLog)] /\ sweep' \in [Sweeps -> SweepStates]
      BY <1>a, <1>d, <2>1, <2>5, <2>6, LogTyped
    <2> HIDE DEF a, n, w
    <2>11. /\ w.retryAt # "null" <=> w.status \in {"pending", "retrying"}
           /\ w.status \notin {"pending", "delivered", "absent"}
           /\ w.status = "retrying" => w.attempts \in 1..3
           /\ w.status = "dead_lettered" => w.attempts = 4
      BY <2>4, <2>7
    <2>12. row' \in [Events -> Rows] /\ RowConsistent'
      BY <2>6, <2>8, <2>11, RowWritten
    <2> QED BY <2>9, <2>10, <2>12, TypePartsNext
  <1>14. ASSUME NEW s \in Sweeps, SweepEnds(s) \/ SweepAborts(s) PROVE TypeOK' /\ RowConsistent'
    <2>1. sweep' = [sweep EXCEPT ![s] = IdleSweep] /\ running' = FALSE
      BY <1>14 DEF SweepEnds, SweepAborts
    <2>2. sweep' \in [Sweeps -> SweepStates] /\ running' \in BOOLEAN
      BY <2>1, <1>a DEF SweepStates
    <2>3. UNCHANGED <<row, log>> /\ Surroundings'
      BY <1>14, <1>a DEF SweepEnds, SweepAborts, bounds, shop, Surroundings
    <2> QED BY <2>2, <2>3, <1>a, <1>b, TypePartsNext
  <1>15. ASSUME NEW o \in Orders, PlaceOrder(o), UNCHANGED <<server, late, bounds>>
         PROVE TypeOK' /\ RowConsistent'
    <2>1. order' \in [Orders -> OrderStatuses]
      BY <1>15, <1>a DEF PlaceOrder, Surroundings, EnsureOrder, OrderStatuses
    <2>2. UNCHANGED <<row, log, running, sweep>> /\ Surroundings'
      BY <1>15, <1>a, <2>1 DEF PlaceOrder, server, bounds, Surroundings
    <2> QED BY <2>2, <1>a, <1>b, TypePartsNext
  <1>16. ASSUME ServerRestarts PROVE TypeOK' /\ RowConsistent'
    <2>1. sweep' \in [Sweeps -> SweepStates] /\ running' \in BOOLEAN
      BY <1>16 DEF ServerRestarts, SweepStates
    <2>2. {sweep[s].at.event : s \in {t \in Sweeps : sweep[t].pc = "sent"}} \subseteq Events
      BY InAttemptShape DEF InAttempt
    <2>3. UNCHANGED <<row, log>> /\ Surroundings'
      BY <1>16, <1>a, <2>2, DeliveryAssumption DEF ServerRestarts, shop, Surroundings
    <2> QED BY <2>1, <2>3, <1>a, <1>b, TypePartsNext
  <1>17. ASSUME ShopRestarts PROVE TypeOK' /\ RowConsistent'
    <2>1. UNCHANGED <<row, log, running, sweep>>
      BY <1>17 DEF ShopRestarts, server
    <2>2. Surroundings'
      BY <1>17, <1>a, DeliveryAssumption DEF ShopRestarts, ShopBoots, Surroundings, OrderStatuses
    <2> QED BY <2>1, <2>2, <1>a, <1>b, TypePartsNext
  <1>18. ASSUME UNCHANGED vars PROVE TypeOK' /\ RowConsistent'
    <2>1. UNCHANGED <<row, log, running, sweep>> /\ Surroundings'
      BY <1>18, <1>a DEF vars, server, bounds, shop, Surroundings
    <2> QED BY <2>1, <1>a, <1>b, TypePartsNext
  <1> QED BY <1>1, <1>2, <1>3, <1>4, <1>5, <1>6, <1>7, <1>8, <1>9, <1>10, <1>11, <1>12,
             <1>13, <1>14, <1>15, <1>16, <1>17, <1>18 DEF Next, DeliveryNext, SweepNext
-----------------------------------------------------------------------------
(* The copies a sweep acts on *)

\* With no sweep at work there is no copy to go stale.
LEMMA NoSweepFresh ==
  ASSUME \A s \in Sweeps : sweep'[s].pc = "idle"
  PROVE  SnapshotsFresh'
  BY DEF SnapshotsFresh

\* A step that moves neither the sweeps nor any deliveredAt keeps the copies true.
LEMMA DeliveredKept ==
  ASSUME SnapshotsFresh, TypeOK, UNCHANGED <<running, sweep>>,
         \A e \in Events : row'[e].delivered = row[e].delivered
  PROVE  SnapshotsFresh'
  <1> SUFFICES ASSUME NEW s \in Sweeps, sweep[s].pc # "idle"
               PROVE  /\ running
                      /\ \A t \in Sweeps \ {s} : sweep[t].pc = "idle"
                      /\ \A a \in sweep[s].batch : a.delivered = row'[a.event].delivered
                      /\ \A a, b \in sweep[s].batch : a.event = b.event => a = b
                      /\ sweep[s].pc \in InAttempt =>
                           /\ sweep[s].at.delivered = row'[sweep[s].at.event].delivered
                           /\ \A b \in sweep[s].batch : b.event # sweep[s].at.event
    BY DEF SnapshotsFresh
  <1>1. sweep[s].pc \in {"next"} \cup InAttempt
    <2>1. sweep[s] \in SweepStates
      BY DEF TypeOK
    <2> QED BY <2>1 DEF SweepStates, IdleSweep, InAttempt
  <1>2. \A a \in sweep[s].batch : a.event \in Events
    BY <1>1, NextShape, InAttemptShape DEF Attempts
  <1>3. sweep[s].pc \in InAttempt => sweep[s].at.event \in Events
    BY InAttemptShape
  <1> QED BY <1>2, <1>3 DEF SnapshotsFresh

\* A step of the one sweep at work keeps the copies true if those it still holds
\* come from before and their rows keep their deliveredAt.
LEMMA OneSweepFresh ==
  ASSUME SnapshotsFresh, TypeOK, NEW s \in Sweeps, sweep[s].pc # "idle",
         NEW v \in SweepStates, sweep' = [sweep EXCEPT ![s] = v], running' = running,
         v.batch \subseteq sweep[s].batch,
         \A a \in v.batch : row'[a.event].delivered = row[a.event].delivered,
         v.pc \in InAttempt =>
           /\ v.at.delivered = row'[v.at.event].delivered
           /\ \A b \in v.batch : b.event # v.at.event
  PROVE  SnapshotsFresh'
  <1>1. sweep'[s] = v /\ \A t \in Sweeps \ {s} : sweep'[t] = sweep[t]
    BY DEF TypeOK
  <1>2. running /\ \A t \in Sweeps \ {s} : sweep'[t].pc = "idle"
    BY <1>1 DEF SnapshotsFresh
  <1> SUFFICES ASSUME NEW t \in Sweeps, sweep'[t].pc # "idle"
               PROVE  /\ running'
                      /\ \A u \in Sweeps \ {t} : sweep'[u].pc = "idle"
                      /\ \A a \in sweep'[t].batch : a.delivered = row'[a.event].delivered
                      /\ \A a, b \in sweep'[t].batch : a.event = b.event => a = b
                      /\ sweep'[t].pc \in InAttempt =>
                           /\ sweep'[t].at.delivered = row'[sweep'[t].at.event].delivered
                           /\ \A b \in sweep'[t].batch : b.event # sweep'[t].at.event
    BY DEF SnapshotsFresh
  <1>3. t = s
    BY <1>2
  <1>4. \A a, b \in v.batch : a.delivered = row'[a.event].delivered /\ (a.event = b.event => a = b)
    BY DEF SnapshotsFresh
  <1> QED BY <1>1, <1>2, <1>3, <1>4

\* Recording the outcome of the attempt touches only the row of its event, of
\* which the batch holds no second copy.
LEMMA RecordFresh ==
  ASSUME SnapshotsFresh, TypeOK, NEW s \in Sweeps, sweep[s].pc \in InAttempt,
         Recorded(s), running' = running,
         \A e \in Events \ {sweep[s].at.event} : row'[e] = row[e]
  PROVE  SnapshotsFresh'
  <1> DEFINE v == [pc |-> "next", at |-> NoAttempt, batch |-> sweep[s].batch]
  <1>1. sweep[s].batch \in SUBSET Attempts /\ sweep[s].pc # "idle"
    BY InAttemptShape DEF InAttempt
  <1>2. v \in SweepStates /\ v.pc \notin InAttempt /\ v.batch = sweep[s].batch
    BY <1>1 DEF SweepStates, InAttempt
  <1>3. \A a \in sweep[s].batch : a.event \in Events \ {sweep[s].at.event}
    BY <1>1 DEF SnapshotsFresh, Attempts
  <1>4. sweep' = [sweep EXCEPT ![s] = v]
    BY DEF Recorded
  <1> HIDE DEF v
  <1> QED BY <1>1, <1>2, <1>3, <1>4, OneSweepFresh

\* An attempt that moves on within its request keeps the copies true.
LEMMA OutcomeFresh ==
  ASSUME SnapshotsFresh, TypeOK, NEW s \in Sweeps, sweep[s].pc \in InAttempt,
         NEW pc \in InAttempt, Outcome(s, pc), UNCHANGED <<row, running>>
  PROVE  SnapshotsFresh'
  <1> DEFINE v == [pc |-> pc, at |-> sweep[s].at, batch |-> sweep[s].batch]
  <1>1. /\ sweep[s].batch \in SUBSET Attempts /\ sweep[s].at \in Attempts
        /\ sweep[s].pc # "idle"
    BY InAttemptShape DEF InAttempt
  <1>2. v \in SweepStates /\ v.at = sweep[s].at /\ v.batch = sweep[s].batch
    BY <1>1 DEF SweepStates
  <1>3. /\ sweep[s].at.delivered = row[sweep[s].at.event].delivered
        /\ \A b \in sweep[s].batch : b.event # sweep[s].at.event
    BY <1>1 DEF SnapshotsFresh
  <1>4. sweep' = [sweep EXCEPT ![s] = v]
    BY DEF Outcome
  <1> HIDE DEF v
  <1> QED BY <1>1, <1>2, <1>3, <1>4, OneSweepFresh

LEMMA FreshStep ==
  TypeOK /\ RowConsistent /\ SnapshotsFresh /\ [Next]_vars => SnapshotsFresh'
  <1> SUFFICES ASSUME TypeOK, RowConsistent, SnapshotsFresh, [Next]_vars PROVE SnapshotsFresh'
    OBVIOUS
  <1>0. ASSUME NEW S \in SUBSET Events, Queue(S) PROVE SnapshotsFresh'
    <2>1. \A f \in Events : row[f] \in Rows /\ row[f].delivered \in BOOLEAN
      BY DEF TypeOK, Rows
    <2>2. \A f \in S : row[f].delivered = FALSE
      BY <1>0, <2>1 DEF Queue, RowConsistent
    <2>3. \A f \in Events : row'[f].delivered = row[f].delivered
      BY <1>0, <2>2 DEF Queue, PendingRow
    <2>4. UNCHANGED <<running, sweep>>
      BY <1>0 DEF Queue
    <2> QED BY <2>3, <2>4, DeliveredKept
  <1>1. ASSUME NEW e \in Events, Replay(e) \/ RetryFallsDue(e) PROVE SnapshotsFresh'
    <2>1. \A f \in Events : row'[f].delivered = row[f].delivered
      <3>1. CASE Replay(e)
        BY <3>1 DEF Replay, TypeOK
      <3>2. CASE RetryFallsDue(e)
        BY <3>2 DEF RetryFallsDue, TypeOK
      <3> QED BY <1>1, <3>1, <3>2
    <2>2. UNCHANGED <<running, sweep>>
      BY <1>1 DEF Replay, RetryFallsDue
    <2> QED BY <2>1, <2>2, DeliveredKept
  <1>2. ASSUME UNCHANGED <<row, running, sweep>> PROVE SnapshotsFresh'
    BY <1>2, DeliveredKept
  <1>3. ASSUME NEW s \in Sweeps, Tick(s) PROVE SnapshotsFresh'
    <2>1. \A t \in Sweeps : sweep[t].pc = "idle"
      BY <1>3 DEF Tick, SnapshotsFresh
    <2>2. /\ running' = TRUE /\ UNCHANGED row
          /\ sweep'[s] = [pc |-> "next", at |-> NoAttempt, batch |-> {Snapshot(e) : e \in Due}]
          /\ \A t \in Sweeps \ {s} : sweep'[t].pc = "idle"
      BY <1>3, <2>1 DEF Tick, TypeOK
    <2>3. /\ \A a \in sweep'[s].batch : a.delivered = row[a.event].delivered
          /\ \A a, b \in sweep'[s].batch : a.event = b.event => a = b
      BY <2>2 DEF Snapshot
    <2>4. sweep'[s].pc \notin InAttempt
      BY <2>2 DEF InAttempt
    <2> QED BY <2>2, <2>3, <2>4 DEF SnapshotsFresh
  <1>4. ASSUME NEW s \in Sweeps, Attempt(s) PROVE SnapshotsFresh'
    <2>1. PICK a \in sweep[s].batch :
            sweep' = [sweep EXCEPT ![s] =
                        [pc |-> IF a.event \in Configured THEN "sent" ELSE "failed",
                         at |-> a, batch |-> sweep[s].batch \ {a}]]
      BY <1>4 DEF Attempt
    <2> DEFINE v == [pc |-> IF a.event \in Configured THEN "sent" ELSE "failed",
                     at |-> a, batch |-> sweep[s].batch \ {a}]
    <2>2. sweep[s].batch \in SUBSET Attempts /\ sweep[s].pc # "idle" /\ UNCHANGED <<row, running>>
      BY <1>4, NextShape DEF Attempt
    <2>3. v \in SweepStates
      BY <2>2 DEF SweepStates, InAttempt
    <2>4. v.at = a /\ v.batch = sweep[s].batch \ {a} /\ sweep' = [sweep EXCEPT ![s] = v]
      BY <2>1
    <2>5. a.delivered = row[a.event].delivered /\ \A b \in sweep[s].batch \ {a} : b.event # a.event
      BY <2>2 DEF SnapshotsFresh
    <2> HIDE DEF v
    <2> QED BY <2>2, <2>3, <2>4, <2>5, OneSweepFresh
  <1>5. ASSUME NEW s \in Sweeps, Arrives(s) \/ Refused(s) \/ TimesOut(s) PROVE SnapshotsFresh'
    <2>1. sweep[s].pc \in InAttempt /\ UNCHANGED <<row, running>> /\ \E pc \in InAttempt : Outcome(s, pc)
      BY <1>5 DEF Arrives, Refused, TimesOut, InAttempt
    <2> QED BY <2>1, OutcomeFresh
  <1>6. ASSUME NEW s \in Sweeps, RecordDelivered(s) \/ RecordDuplicate(s) \/ RecordFailure(s)
        PROVE  SnapshotsFresh'
    <2>1. sweep[s].pc \in InAttempt /\ Recorded(s) /\ UNCHANGED running
      BY <1>6 DEF RecordDelivered, RecordDuplicate, RecordFailure, InAttempt
    <2>2. \A e \in Events \ {sweep[s].at.event} : row'[e] = row[e]
      BY <1>6 DEF RecordDelivered, RecordDuplicate, RecordFailure, TypeOK
    <2> QED BY <2>1, <2>2, RecordFresh
  <1>7. ASSUME NEW s \in Sweeps, SweepEnds(s) \/ SweepAborts(s) PROVE SnapshotsFresh'
    <2>1. sweep[s].pc # "idle" /\ sweep' = [sweep EXCEPT ![s] = IdleSweep]
      BY <1>7 DEF SweepEnds, SweepAborts
    <2>2. \A t \in Sweeps : sweep'[t].pc = "idle"
      BY <2>1 DEF SnapshotsFresh, TypeOK, IdleSweep
    <2> QED BY <2>2, NoSweepFresh
  <1>8. ASSUME ServerRestarts PROVE SnapshotsFresh'
    BY <1>8, NoSweepFresh DEF ServerRestarts, IdleSweep
  <1>9. ASSUME NEW e \in Events, ArrivesLate(e) \/ IsLost(e) PROVE SnapshotsFresh'
    BY <1>9, <1>2 DEF ArrivesLate, IsLost, server
  <1>10. ASSUME NEW o \in Orders, PlaceOrder(o), UNCHANGED <<server, late, bounds>> PROVE SnapshotsFresh'
    BY <1>10, <1>2 DEF server
  <1>11. CASE ShopRestarts
    BY <1>11, <1>2 DEF ShopRestarts, server
  <1>12. CASE UNCHANGED vars
    BY <1>12, <1>2 DEF vars, server
  <1> QED BY <1>0, <1>1, <1>3, <1>4, <1>5, <1>6, <1>7, <1>8, <1>9, <1>10, <1>11, <1>12 DEF Next, DeliveryNext, SweepNext

\* Types, consistent rows and true copies, for every number of events, ticks,
\* replays and restarts: the inductive core of the other theorems.
THEOREM Typed == Spec => [](TypeOK /\ RowConsistent /\ SnapshotsFresh)
  <1>1. Init => TypeOK /\ RowConsistent /\ SnapshotsFresh
    <2>1. Init => SnapshotsFresh
      BY DEF Init, SnapshotsFresh, IdleSweep
    <2> QED BY <2>1, InitTyped
  <1>2. TypeOK /\ RowConsistent /\ SnapshotsFresh /\ [Next]_vars
          => TypeOK' /\ RowConsistent' /\ SnapshotsFresh'
    BY TypedStep, FreshStep
  <1> QED BY <1>1, <1>2, PTL DEF Spec

\* Through retries, replays and restarts no attempt count leaves the schedule
\* and no row, sweep or order holds a value the program cannot hold.
THEOREM DeliveryTypeOKHolds == Spec => []TypeOK
  BY Typed, PTL

-----------------------------------------------------------------------------
(* Delivered once *)

\* Appending entries other than x neither adds x to a log nor repeats it.
LEMMA AppendOther ==
  ASSUME NEW T, NEW l \in Seq(T), NEW m \in Seq(T), NEW x, ~Occurs(x, m)
  PROVE  /\ Occurs(x, l \o m) <=> Occurs(x, l)
         /\ Once(x, l) => Once(x, l \o m)
  <1> DEFINE n == l \o m
  <1>1. /\ DOMAIN n = 1..(Len(l) + Len(m)) /\ DOMAIN l = 1..Len(l)
        /\ Len(l) \in Nat /\ Len(m) \in Nat
        /\ \A k \in 1..Len(l) : n[k] = l[k]
    OBVIOUS
  <1>2. \A k \in DOMAIN n : k \notin 1..Len(l) => n[k] # x
    <2> SUFFICES ASSUME NEW k \in DOMAIN n, k \notin 1..Len(l) PROVE n[k] # x
      OBVIOUS
    <2>1. n[k] = m[k - Len(l)] /\ k - Len(l) \in DOMAIN m
      BY <1>1
    <2> QED BY <2>1 DEF Occurs
  <1> HIDE DEF n
  <1>3. /\ Occurs(x, n) <=> Occurs(x, l)
        /\ Once(x, l) => Once(x, n)
    BY <1>1, <1>2 DEF Occurs, Once
  <1> QED BY <1>3 DEF n

\* Appending x to a log without it leaves exactly one.
LEMMA AppendFirst ==
  ASSUME NEW T, NEW l \in Seq(T), NEW x \in T
  PROVE  /\ Occurs(x, l \o <<x>>)
         /\ ~Occurs(x, l) => Once(x, l \o <<x>>)
  <1> DEFINE n == l \o <<x>>
  <1>1. /\ DOMAIN n = 1..(Len(l) + 1) /\ DOMAIN l = 1..Len(l) /\ Len(l) \in Nat
        /\ n[Len(l) + 1] = x /\ \A k \in 1..Len(l) : n[k] = l[k]
    OBVIOUS
  <1> HIDE DEF n
  <1>2. Occurs(x, n)
    BY <1>1 DEF Occurs
  <1>3. ASSUME ~Occurs(x, l) PROVE Once(x, n)
    <2>1. \A k \in DOMAIN n : n[k] = x => k = Len(l) + 1
      BY <1>1, <1>3 DEF Occurs
    <2> QED BY <2>1 DEF Once
  <1> QED BY <1>2, <1>3 DEF n

\* Entries about anything but a success leave the count of deliveries alone.
LEMMA OtherEntry ==
  ASSUME TypeOK, DeliveredOnce, NEW e \in Events, NEW types \in Seq(EventLog),
         LogTo(e, types),
         ~Occurs("webhook_delivered", types), ~Occurs("duplicate_event_ignored", types),
         \A f \in Events : row'[f].delivered = row[f].delivered
  PROVE  DeliveredOnce'
  <1> SUFFICES ASSUME NEW f \in Events
               PROVE  /\ Once("webhook_delivered", log'[f])
                      /\ row'[f].delivered <=> Occurs("webhook_delivered", log'[f])
                      /\ Occurs("duplicate_event_ignored", log'[f]) => row'[f].delivered
    BY DEF DeliveredOnce
  <1>1. log[f] \in Seq(EventLog) /\ log[e] \in Seq(EventLog)
    BY DEF TypeOK
  <1>2. /\ Once("webhook_delivered", log[f])
        /\ row[f].delivered <=> Occurs("webhook_delivered", log[f])
        /\ Occurs("duplicate_event_ignored", log[f]) => row[f].delivered
    BY DEF DeliveredOnce
  <1>3. log'[f] = IF f = e THEN log[f] \o types ELSE log[f]
    BY DEF LogTo, TypeOK
  <1>4. /\ Occurs("webhook_delivered", log[f] \o types) <=> Occurs("webhook_delivered", log[f])
        /\ Once("webhook_delivered", log[f]) => Once("webhook_delivered", log[f] \o types)
        /\ Occurs("duplicate_event_ignored", log[f] \o types)
             <=> Occurs("duplicate_event_ignored", log[f])
    BY <1>1, AppendOther
  <1> QED BY <1>2, <1>3, <1>4

\* A step that writes neither the ledger nor a deliveredAt changes nothing here.
LEMMA NoEntry ==
  ASSUME DeliveredOnce, UNCHANGED log, \A f \in Events : row'[f].delivered = row[f].delivered
  PROVE  DeliveredOnce'
  BY DEF DeliveredOnce

LEMMA DeliveredOnceStep ==
  TypeOK /\ RowConsistent /\ SnapshotsFresh /\ DeliveredOnce /\ [Next]_vars => DeliveredOnce'
  <1> SUFFICES ASSUME TypeOK, RowConsistent, SnapshotsFresh, DeliveredOnce, [Next]_vars
               PROVE  DeliveredOnce'
    OBVIOUS
  <1>a. \A f \in Events : row[f] \in Rows /\ row[f].delivered \in BOOLEAN
    BY DEF TypeOK, Rows
  <1>1. ASSUME NEW S \in SUBSET Events, Queue(S) PROVE DeliveredOnce'
    <2> DEFINE entry == <<"webhook_queued">>
    <2>1. \A f \in S : row[f].delivered = FALSE
      BY <1>1, <1>a DEF Queue, RowConsistent
    <2>2. \A f \in Events : row'[f].delivered = row[f].delivered
      BY <1>1, <2>1 DEF Queue, PendingRow
    <2>3. /\ entry \in Seq(EventLog)
          /\ ~Occurs("webhook_delivered", entry) /\ ~Occurs("duplicate_event_ignored", entry)
      BY DEF EventLog, Occurs
    <2>4. \A f \in Events : log'[f] = (IF f \in S THEN log[f] \o entry ELSE log[f])
      BY <1>1 DEF Queue
    <2> HIDE DEF entry
    <2>5. \A f \in Events : log[f] \in Seq(EventLog)
      BY DEF TypeOK
    <2>6. \A f \in Events :
            /\ Occurs("webhook_delivered", log'[f]) <=> Occurs("webhook_delivered", log[f])
            /\ Occurs("duplicate_event_ignored", log'[f]) <=> Occurs("duplicate_event_ignored", log[f])
            /\ Once("webhook_delivered", log[f]) => Once("webhook_delivered", log'[f])
      BY <2>3, <2>4, <2>5, AppendOther
    <2> QED BY <2>2, <2>6 DEF DeliveredOnce
  <1>2. ASSUME NEW e \in Events, Replay(e) PROVE DeliveredOnce'
    <2>1. \A f \in Events : row'[f].delivered = row[f].delivered
      BY <1>2 DEF Replay, TypeOK
    <2>2. /\ <<"webhook_replayed">> \in Seq(EventLog) /\ LogTo(e, <<"webhook_replayed">>)
          /\ ~Occurs("webhook_delivered", <<"webhook_replayed">>)
          /\ ~Occurs("duplicate_event_ignored", <<"webhook_replayed">>)
      BY <1>2 DEF Replay, EventLog, Occurs
    <2> QED BY <2>1, <2>2, OtherEntry
  <1>3. ASSUME NEW e \in Events, RetryFallsDue(e) PROVE DeliveredOnce'
    <2>1. \A f \in Events : row'[f].delivered = row[f].delivered
      BY <1>3 DEF RetryFallsDue, TypeOK
    <2> QED BY <1>3, <2>1, NoEntry DEF RetryFallsDue
  <1>4. ASSUME UNCHANGED <<row, log>> PROVE DeliveredOnce'
    BY <1>4, NoEntry
  <1>5. ASSUME NEW s \in Sweeps, RecordDelivered(s) PROVE DeliveredOnce'
    <2>1. sweep[s].pc \in InAttempt
      BY <1>5 DEF RecordDelivered, InAttempt
    <2>2. PICK e \in Events : e = sweep[s].at.event
      BY <2>1, InAttemptShape
    <2>3. ~row[e].delivered
      BY <1>5, <2>1, <2>2 DEF RecordDelivered, SnapshotsFresh, InAttempt
    <2>4. /\ log' = [log EXCEPT ![e] = log[e] \o <<"webhook_delivered">>]
          /\ row'[e].delivered = TRUE /\ \A f \in Events \ {e} : row'[f] = row[f]
      BY <1>5, <2>2 DEF RecordDelivered, LogTo, TypeOK
    <2>5. ~Occurs("webhook_delivered", log[e])
      BY <2>3 DEF DeliveredOnce
    <2>6. log[e] \in Seq(EventLog) /\ "webhook_delivered" \in EventLog
      BY DEF TypeOK, EventLog
    <2>7. /\ Occurs("webhook_delivered", log[e] \o <<"webhook_delivered">>)
          /\ Once("webhook_delivered", log[e] \o <<"webhook_delivered">>)
      BY <2>5, <2>6, AppendFirst
    <2>8. /\ log'[e] = log[e] \o <<"webhook_delivered">>
          /\ \A f \in Events \ {e} : log'[f] = log[f]
      BY <2>4 DEF TypeOK
    <2> QED BY <2>4, <2>7, <2>8 DEF DeliveredOnce
  <1>6. ASSUME NEW s \in Sweeps, RecordDuplicate(s) PROVE DeliveredOnce'
    <2>1. sweep[s].pc \in InAttempt
      BY <1>6 DEF RecordDuplicate, InAttempt
    <2>2. PICK e \in Events : e = sweep[s].at.event
      BY <2>1, InAttemptShape
    <2>3. row[e].delivered
      BY <1>6, <2>1, <2>2 DEF RecordDuplicate, SnapshotsFresh, InAttempt
    <2>4. /\ log' = [log EXCEPT ![e] = log[e] \o <<"duplicate_event_ignored">>]
          /\ \A f \in Events : row'[f].delivered = row[f].delivered
      BY <1>6, <2>2 DEF RecordDuplicate, LogTo, TypeOK
    <2>5. /\ log[e] \in Seq(EventLog) /\ <<"duplicate_event_ignored">> \in Seq(EventLog)
          /\ ~Occurs("webhook_delivered", <<"duplicate_event_ignored">>)
      BY DEF TypeOK, EventLog, Occurs
    <2>6. /\ Occurs("webhook_delivered", log[e] \o <<"duplicate_event_ignored">>)
               <=> Occurs("webhook_delivered", log[e])
          /\ Once("webhook_delivered", log[e])
               => Once("webhook_delivered", log[e] \o <<"duplicate_event_ignored">>)
      BY <2>5, AppendOther
    <2>7. /\ log'[e] = log[e] \o <<"duplicate_event_ignored">>
          /\ \A f \in Events \ {e} : log'[f] = log[f]
      BY <2>4 DEF TypeOK
    <2> QED BY <2>3, <2>4, <2>6, <2>7 DEF DeliveredOnce
  <1>7. ASSUME NEW s \in Sweeps, RecordFailure(s) PROVE DeliveredOnce'
    <2> DEFINE failed == <<"webhook_failed">>
               dead == <<"webhook_failed", "webhook_dead_lettered">>
    <2>1. sweep[s].pc \in InAttempt
      BY <1>7 DEF RecordFailure, InAttempt
    <2>2. PICK e \in Events : e = sweep[s].at.event
      BY <2>1, InAttemptShape
    <2>3. /\ \A f \in Events : row'[f].delivered = row[f].delivered
          /\ LogTo(e, failed) \/ LogTo(e, dead)
      BY <1>7, <2>2 DEF RecordFailure, TypeOK
    <2>4. /\ failed \in Seq(EventLog) /\ dead \in Seq(EventLog)
          /\ ~Occurs("webhook_delivered", failed) /\ ~Occurs("webhook_delivered", dead)
          /\ ~Occurs("duplicate_event_ignored", failed)
          /\ ~Occurs("duplicate_event_ignored", dead)
      BY DEF EventLog, Occurs
    <2> HIDE DEF failed, dead
    <2> QED BY <2>3, <2>4, OtherEntry
  <1>8. ASSUME NEW s \in Sweeps,
               \/ Tick(s) \/ Attempt(s) \/ Arrives(s) \/ Refused(s) \/ TimesOut(s)
               \/ SweepEnds(s) \/ SweepAborts(s)
        PROVE  DeliveredOnce'
    BY <1>8, <1>4 DEF Tick, Attempt, Arrives, Refused, TimesOut, SweepEnds, SweepAborts
  <1>9. ASSUME NEW e \in Events, ArrivesLate(e) \/ IsLost(e) PROVE DeliveredOnce'
    BY <1>9, <1>4 DEF ArrivesLate, IsLost, server
  <1>10. ASSUME NEW o \in Orders, PlaceOrder(o), UNCHANGED <<server, late, bounds>> PROVE DeliveredOnce'
    BY <1>10, <1>4 DEF server
  <1>11. CASE ServerRestarts \/ ShopRestarts
    BY <1>11, <1>4 DEF ServerRestarts, ShopRestarts, server
  <1>12. CASE UNCHANGED vars
    BY <1>12, <1>4 DEF vars, server
  <1> QED BY <1>1, <1>2, <1>3, <1>5, <1>6, <1>7, <1>8, <1>9, <1>10, <1>11, <1>12
          DEF Next, DeliveryNext, SweepNext

\* Whatever is retried, replayed, lost or restarted, the ledger of an event has
\* at most one webhook_delivered, deliveredAt is set exactly then, and every
\* later success is recorded as duplicate_event_ignored.
THEOREM DeliveredOnceHolds == Spec => []DeliveredOnce
  <1>1. Init => DeliveredOnce
    <2> SUFFICES ASSUME Init PROVE DeliveredOnce
      OBVIOUS
    <2>1. \A e \in Events : log[e] = <<>> /\ row[e].delivered = FALSE
      BY DEF Init, NoRow
    <2>2. \A x : ~Occurs(x, <<>>) /\ Once(x, <<>>)
      BY DEF Occurs, Once
    <2> QED BY <2>1, <2>2 DEF DeliveredOnce
  <1>2. TypeOK /\ RowConsistent /\ SnapshotsFresh /\ DeliveredOnce /\ [Next]_vars
          => DeliveredOnce'
    BY DeliveredOnceStep
  <1> QED BY <1>1, <1>2, Typed, PTL DEF Spec

-----------------------------------------------------------------------------
(* The shop *)

\* Every step that touches the shop is a request it handles, an order it takes
\* or a boot.
ShopStep ==
    \/ \E e \in Events : HandleWebhook(e)
    \/ \E o \in Orders : PlaceOrder(o)
    \/ ShopBoots
    \/ UNCHANGED shop

\* Only the snapshot of an event is attempted.
LEMMA ShopSteps == TypeOK /\ [Next]_vars => ShopStep
  <1> SUFFICES ASSUME TypeOK, [Next]_vars PROVE ShopStep
    OBVIOUS
  <1>1. ASSUME NEW s \in Sweeps, SweepNext(s) PROVE ShopStep
    <2>1. CASE Arrives(s)
      <3>1. sweep[s].pc \in InAttempt
        BY <2>1 DEF Arrives, InAttempt
      <3>2. sweep[s].at.event \in Events
        BY <3>1, InAttemptShape
      <3> QED BY <2>1, <3>2 DEF Arrives, ShopStep
    <2>2. CASE ~Arrives(s)
      BY <1>1, <2>2 DEF SweepNext, Tick, Attempt, Refused, TimesOut, RecordDelivered,
         RecordDuplicate, RecordFailure, SweepEnds, SweepAborts, ShopStep
    <2> QED BY <2>1, <2>2
  <1>2. ASSUME NEW e \in Events, Replay(e) \/ RetryFallsDue(e) \/ ArrivesLate(e) \/ IsLost(e)
        PROVE  ShopStep
    BY <1>2 DEF Replay, RetryFallsDue, ArrivesLate, IsLost, ShopStep
  <1>3. ASSUME NEW S \in SUBSET Events, Queue(S) PROVE ShopStep
    BY <1>3 DEF Queue, ShopStep
  <1>4. CASE ServerRestarts \/ ShopRestarts
    BY <1>4 DEF ServerRestarts, ShopRestarts, ShopStep
  <1>5. CASE UNCHANGED vars
    BY <1>5 DEF vars, ShopStep
  <1> QED BY <1>1, <1>2, <1>3, <1>4, <1>5 DEF Next, DeliveryNext, ShopStep

\* Between two boots of the shop an order is fulfilled at most once for its
\* payment_intent.paid event, however often the event arrives.
THEOREM FulfilledOnceHolds == Spec => []FulfilledOnce
  <1>1. Init => FulfilledOnce
    BY DEF Init, ShopInit, FulfilledOnce
  <1>2. ASSUME TypeOK, FulfilledOnce, ShopStep PROVE FulfilledOnce'
    <2> SUFFICES ASSUME NEW o \in Orders, NEW e \in PaidEventsOf(o), PaidEventsOf(o) = {e}
                 PROVE  fulfilments'[o] = (IF e \in seen' THEN 1 ELSE 0)
      BY DEF FulfilledOnce, PaidEventsOf
    <2>1. fulfilments[o] = (IF e \in seen THEN 1 ELSE 0)
      BY <1>2 DEF FulfilledOnce
    <2>2. e \in Events /\ OrderOf[e] = o /\ TypeOf[e] = "payment_intent.paid"
      BY DEF PaidEventsOf
    <2>3. ASSUME NEW f \in Events, HandleWebhook(f), f \notin seen
          PROVE  fulfilments'[o] = (IF e \in seen' THEN 1 ELSE 0)
      <3>1. /\ seen' = seen \cup {f}
            /\ fulfilments' = [fulfilments EXCEPT ![OrderOf[f]] =
                                 IF TypeOf[f] = "payment_intent.paid" THEN @ + 1 ELSE @]
        BY <2>3 DEF HandleWebhook, Apply
      <3>2. fulfilments'[o] = IF OrderOf[f] = o /\ TypeOf[f] = "payment_intent.paid"
                              THEN fulfilments[o] + 1 ELSE fulfilments[o]
        BY <1>2, <3>1 DEF TypeOK
      <3>3. (OrderOf[f] = o /\ TypeOf[f] = "payment_intent.paid") <=> f = e
        BY <2>2 DEF PaidEventsOf
      <3> QED BY <2>1, <2>3, <3>1, <3>2, <3>3
    <2>4. ASSUME NEW f \in Events, HandleWebhook(f), f \in seen
          PROVE  fulfilments'[o] = (IF e \in seen' THEN 1 ELSE 0)
      BY <2>1, <2>4 DEF HandleWebhook
    <2>5. CASE \E p \in Orders : PlaceOrder(p)
      BY <2>1, <2>5 DEF PlaceOrder
    <2>6. CASE ShopBoots
      BY <2>6 DEF ShopBoots
    <2>7. CASE UNCHANGED shop
      BY <2>1, <2>7 DEF shop
    <2> QED BY <1>2, <2>3, <2>4, <2>5, <2>6, <2>7 DEF ShopStep
  <1>3. TypeOK /\ FulfilledOnce /\ [Next]_vars => FulfilledOnce'
    BY <1>2, ShopSteps
  <1> QED BY <1>1, <1>3, Typed, PTL DEF Spec

\* The order shows what its one settlement event says once that event was
\* handled, in whatever order the other events arrive around it.
THEOREM OrderFollowsSettlementHolds == Spec => []OrderFollowsSettlement
  <1>1. Init => OrderFollowsSettlement
    BY DEF Init, ShopInit, OrderFollowsSettlement
  <1>2. ASSUME TypeOK, OrderFollowsSettlement, ShopStep PROVE OrderFollowsSettlement'
    <2> SUFFICES ASSUME NEW o \in Orders, NEW e \in DrivingEventsOf(o), DrivingEventsOf(o) = {e}
                 PROVE  order'[o] \in (IF e \in seen' THEN {OrderStatusByType[TypeOf[e]]}
                                                       ELSE {"none", "pending"})
      BY DEF OrderFollowsSettlement, DrivingEventsOf
    <2> DEFINE shown == OrderStatusByType[TypeOf[e]]
    <2>1. order[o] \in (IF e \in seen THEN {shown} ELSE {"none", "pending"})
      BY <1>2 DEF OrderFollowsSettlement
    <2>2. e \in Events /\ OrderOf[e] = o /\ TypeOf[e] \in DrivingTypes
      BY DEF DrivingEventsOf
    <2>3. shown \in {"fulfilled", "expired", "failed"}
      BY <2>2 DEF DrivingTypes, OrderStatusByType
    <2>4. ASSUME NEW f \in Events, HandleWebhook(f), f \notin seen
          PROVE  order'[o] \in (IF e \in seen' THEN {shown} ELSE {"none", "pending"})
      <3> DEFINE v == IF TypeOf[f] \in DrivingTypes THEN OrderStatusByType[TypeOf[f]]
                                                    ELSE EnsureOrder(order[OrderOf[f]])
      <3>1. seen' = seen \cup {f} /\ order' = [order EXCEPT ![OrderOf[f]] = v]
        BY <2>4 DEF HandleWebhook, Apply
      <3>2. order'[o] = IF OrderOf[f] = o THEN v ELSE order[o]
        BY <1>2, <3>1 DEF TypeOK
      <3>3. CASE f = e
        BY <2>2, <3>1, <3>2, <3>3
      <3>4. CASE f # e /\ OrderOf[f] = o
        <4>1. v = EnsureOrder(order[o])
          BY <3>4 DEF DrivingEventsOf
        <4>2. order'[o] = IF order[o] = "none" THEN "pending" ELSE order[o]
          BY <3>2, <3>4, <4>1 DEF EnsureOrder
        <4> HIDE DEF v, shown
        <4> QED BY <2>1, <2>3, <3>1, <3>4, <4>2
      <3>5. CASE OrderOf[f] # o
        BY <2>1, <2>2, <3>1, <3>2, <3>5
      <3> QED BY <3>3, <3>4, <3>5
    <2>5. ASSUME NEW f \in Events, HandleWebhook(f), f \in seen
          PROVE  order'[o] \in (IF e \in seen' THEN {shown} ELSE {"none", "pending"})
      BY <2>1, <2>5 DEF HandleWebhook
    <2>6. ASSUME NEW p \in Orders, PlaceOrder(p)
          PROVE  order'[o] \in (IF e \in seen' THEN {shown} ELSE {"none", "pending"})
      <3>1. order[p] = "none" /\ order' = [order EXCEPT ![p] = "pending"] /\ seen' = seen
        BY <2>6 DEF PlaceOrder, EnsureOrder
      <3>2. order'[o] = IF o = p THEN "pending" ELSE order[o]
        BY <1>2, <3>1 DEF TypeOK
      <3> HIDE DEF shown
      <3> QED BY <2>1, <2>3, <3>1, <3>2
    <2>7. CASE ShopBoots
      BY <2>7 DEF ShopBoots
    <2>8. CASE UNCHANGED shop
      BY <2>1, <2>8 DEF shop
    <2> QED BY <1>2, <2>4, <2>5, <2>6, <2>7, <2>8 DEF ShopStep
  <1>3. TypeOK /\ OrderFollowsSettlement /\ [Next]_vars => OrderFollowsSettlement'
    BY <1>2, ShopSteps
  <1> QED BY <1>1, <1>3, Typed, PTL DEF Spec

\* A sweep calls an attempt a success only after the shop handled the request.
SuccessWasHandled ==
    \A s \in Sweeps : sweep[s].pc = "succeeded" => sweep[s].at.event \in acknowledged

\* An event is recorded as delivered only if the merchant handled it.
THEOREM DeliveredWasHandledHolds == Spec => []DeliveredWasHandled
  <1> DEFINE Handled == DeliveredWasHandled /\ SuccessWasHandled
  <1>1. Init => Handled
    BY DEF Init, NoRow, IdleSweep, DeliveredWasHandled, SuccessWasHandled
  <1>2. ASSUME TypeOK, Handled, [Next]_vars PROVE Handled'
    <2>1. acknowledged \subseteq acknowledged'
      BY <1>2, ShopSteps DEF ShopStep, HandleWebhook, PlaceOrder, ShopBoots, shop
    <2>2. ASSUME NEW s \in Sweeps, SweepNext(s) PROVE Handled'
      <3>1. CASE Tick(s) \/ Attempt(s) \/ Refused(s) \/ TimesOut(s) \/ SweepEnds(s) \/ SweepAborts(s)
        <4>1. \A t \in Sweeps : sweep'[t].pc = "succeeded" => sweep'[t] = sweep[t]
          BY <1>2, <3>1 DEF Tick, Attempt, Refused, TimesOut, SweepEnds, SweepAborts, Outcome,
             IdleSweep, TypeOK
        <4>2. row' = row
          BY <3>1 DEF Tick, Attempt, Refused, TimesOut, SweepEnds, SweepAborts
        <4> QED BY <1>2, <2>1, <4>1, <4>2 DEF DeliveredWasHandled, SuccessWasHandled
      <3>2. CASE Arrives(s)
        <4>1. sweep[s].at.event \in acknowledged' /\ row' = row
          BY <3>2 DEF Arrives, HandleWebhook
        <4>2. \A t \in Sweeps : sweep'[t].at = sweep[t].at /\ (t # s => sweep'[t] = sweep[t])
          BY <1>2, <3>2 DEF Arrives, Outcome, TypeOK
        <4> QED BY <1>2, <2>1, <4>1, <4>2 DEF DeliveredWasHandled, SuccessWasHandled
      <3>3. CASE RecordDelivered(s) \/ RecordDuplicate(s) \/ RecordFailure(s)
        <4>1. \A t \in Sweeps : sweep'[t].pc = "succeeded" => sweep'[t] = sweep[t]
          BY <1>2, <3>3 DEF RecordDelivered, RecordDuplicate, RecordFailure, Recorded, TypeOK
        <4>2. SuccessWasHandled'
          BY <1>2, <2>1, <4>1 DEF SuccessWasHandled
        <4>3. \A e \in Events : row'[e].delivered =>
                 row[e].delivered \/ (sweep[s].pc = "succeeded" /\ e = sweep[s].at.event)
          <5>1. CASE RecordDelivered(s)
            BY <1>2, <5>1 DEF RecordDelivered, TypeOK
          <5>2. CASE RecordDuplicate(s)
            BY <1>2, <5>2 DEF RecordDuplicate, TypeOK
          <5>3. CASE RecordFailure(s)
            BY <1>2, <5>3 DEF RecordFailure, TypeOK
          <5> QED BY <3>3, <5>1, <5>2, <5>3
        <4> QED BY <1>2, <2>1, <4>2, <4>3 DEF DeliveredWasHandled, SuccessWasHandled
      <3> QED BY <2>2, <3>1, <3>2, <3>3 DEF SweepNext
    <2>3. ASSUME NEW e \in Events, Replay(e) \/ RetryFallsDue(e) \/ ArrivesLate(e) \/ IsLost(e)
          PROVE  Handled'
      <3>1. sweep' = sweep
        BY <2>3 DEF Replay, RetryFallsDue, ArrivesLate, IsLost, server
      <3>2. \A f \in Events : row'[f].delivered = row[f].delivered
        <4>1. CASE Replay(e)
          BY <1>2, <4>1 DEF Replay, TypeOK
        <4>2. CASE RetryFallsDue(e)
          BY <1>2, <4>2 DEF RetryFallsDue, TypeOK
        <4>3. CASE ArrivesLate(e) \/ IsLost(e)
          BY <4>3 DEF ArrivesLate, IsLost, server
        <4> QED BY <2>3, <4>1, <4>2, <4>3
      <3> QED BY <1>2, <2>1, <3>1, <3>2 DEF DeliveredWasHandled, SuccessWasHandled
    <2>4. ASSUME NEW S \in SUBSET Events, Queue(S) PROVE Handled'
      <3>1. sweep' = sweep /\ \A f \in Events : row'[f].delivered => row[f].delivered
        BY <2>4 DEF Queue, PendingRow
      <3> QED BY <1>2, <2>1, <3>1 DEF DeliveredWasHandled, SuccessWasHandled
    <2>5. ASSUME NEW o \in Orders, PlaceOrder(o), UNCHANGED <<server, late, bounds>> PROVE Handled'
      BY <1>2, <2>1, <2>5 DEF server, DeliveredWasHandled, SuccessWasHandled
    <2>6. CASE ServerRestarts
      BY <1>2, <2>1, <2>6 DEF ServerRestarts, IdleSweep, DeliveredWasHandled, SuccessWasHandled
    <2>7. CASE ShopRestarts \/ UNCHANGED vars
      BY <1>2, <2>1, <2>7 DEF ShopRestarts, vars, server, DeliveredWasHandled, SuccessWasHandled
    <2> HIDE DEF Handled
    <2> QED BY <1>2, <2>2, <2>3, <2>4, <2>5, <2>6, <2>7 DEF Next, DeliveryNext
  <1>3. TypeOK /\ Handled /\ [Next]_vars => Handled'
    BY <1>2
  <1>4. Handled => DeliveredWasHandled
    OBVIOUS
  <1> QED BY <1>1, <1>3, <1>4, Typed, PTL DEF Spec

\* The columns of a row agree whichever writer came last, and every variable
\* stays within its type.
THEOREM RowConsistentHolds == Spec => [](TypeOK /\ RowConsistent)
  BY Typed, PTL
-----------------------------------------------------------------------------
(* Given up *)

\* The copies of rows a sweep will still act on.
Held(s) == sweep[s].batch \cup (IF sweep[s].pc \in InAttempt THEN {sweep[s].at} ELSE {})

\* What a step may do to the attempts of one row and to the failures on its
\* ledger: leave both,
CountKept(f) ==
    /\ row'[f].attempts = row[f].attempts
    /\ row'[f].status = "absent" => row[f].status = "absent"
    /\ \/ log'[f] = log[f]
       \/ \E x \in {"webhook_delivered", "duplicate_event_ignored"} : log'[f] = log[f] \o <<x>>

\* start again, for a new row or on request,
CountReset(f) ==
    /\ row'[f].attempts = 0 /\ row'[f].status # "absent"
    /\ \/ row[f].status = "absent" /\ log'[f] = log[f] \o <<"webhook_queued">>
       \/ Replay(f) /\ log'[f] = log[f] \o <<"webhook_replayed">>

FailureEntries == {<<"webhook_failed">>, <<"webhook_failed", "webhook_dead_lettered">>}

\* or record one failure, counted on from the copy, of which there is no other.
CountedOn(f) ==
    /\ row'[f].status # "absent"
    /\ \E s \in Sweeps : \E a \in Held(s) : a.event = f /\ row'[f].attempts = a.attempts + 1
    /\ \E m \in FailureEntries : log'[f] = log[f] \o m
    /\ \A t \in Sweeps : \A b \in Held(t)' : b.event # f

\* An idle sweep holds nothing.
LEMMA IdleHolds ==
  ASSUME TypeOK, NEW s \in Sweeps, sweep[s].pc = "idle" PROVE Held(s) = {}
  <1>1. sweep[s] \in SweepStates
    BY DEF TypeOK
  <1> QED BY <1>1 DEF SweepStates, IdleSweep, InAttempt, Held

\* When an outcome is recorded, no sweep holds another copy of the row.
LEMMA NoOtherCopy ==
  ASSUME TypeOK, SnapshotsFresh, NEW s \in Sweeps, sweep[s].pc \in InAttempt, Recorded(s)
  PROVE  \A t \in Sweeps : \A b \in Held(t)' : b.event # sweep[s].at.event
  <1> SUFFICES ASSUME NEW t \in Sweeps, NEW b \in Held(t)' PROVE b.event # sweep[s].at.event
    OBVIOUS
  <1>1. /\ sweep[s].pc # "idle"
        /\ \A u \in Sweeps \ {s} : sweep[u].pc = "idle"
        /\ \A c \in sweep[s].batch : c.event # sweep[s].at.event
    BY DEF SnapshotsFresh, InAttempt
  <1>2. CASE t = s
    <2>1. Held(s)' = sweep[s].batch
      BY DEF Recorded, Held, TypeOK, InAttempt
    <2> QED BY <1>1, <1>2, <2>1
  <1>3. CASE t # s
    <2>1. sweep'[t] = sweep[t]
      BY <1>3 DEF Recorded, TypeOK
    <2>2. Held(t)' = Held(t)
      BY <2>1 DEF Held
    <2> QED BY <1>1, <1>3, <2>2, IdleHolds
  <1> QED BY <1>2, <1>3

\* Outside a listing no sweep gets a copy it did not hold before.
LEMMA HeldStep ==
  ASSUME TypeOK, [Next]_vars, NEW s \in Sweeps
  PROVE  Held(s)' \subseteq Held(s) \/ Tick(s)
  <1> DEFINE Fewer == Held(s)' \subseteq Held(s)
  <1>0. sweep \in [Sweeps -> SweepStates]
    BY DEF TypeOK
  <1>1. ASSUME NEW t \in Sweeps, SweepNext(t), t # s PROVE Fewer
    <2>1. sweep'[s] = sweep[s]
      BY <1>0, <1>1 DEF SweepNext, Tick, Attempt, Arrives, Refused, TimesOut, RecordDelivered,
         RecordDuplicate, RecordFailure, SweepEnds, SweepAborts, Outcome, Recorded
    <2> QED BY <2>1 DEF Held
  <1>2. ASSUME Attempt(s) PROVE Fewer
    <2>1. PICK a \in sweep[s].batch :
            /\ sweep'[s].at = a /\ sweep'[s].batch = sweep[s].batch \ {a}
            /\ sweep'[s].pc \in {"sent", "failed"}
      BY <1>0, <1>2 DEF Attempt
    <2> QED BY <2>1 DEF Held
  <1>3. ASSUME Arrives(s) \/ Refused(s) \/ TimesOut(s) PROVE Fewer
    <2>1. /\ sweep[s].pc \in InAttempt
          /\ sweep'[s].at = sweep[s].at /\ sweep'[s].batch = sweep[s].batch
      BY <1>0, <1>3 DEF Arrives, Refused, TimesOut, Outcome, InAttempt
    <2> QED BY <2>1 DEF Held
  <1>4. ASSUME RecordDelivered(s) \/ RecordDuplicate(s) \/ RecordFailure(s) PROVE Fewer
    <2>1. sweep'[s].batch = sweep[s].batch /\ sweep'[s].pc = "next"
      BY <1>0, <1>4 DEF RecordDelivered, RecordDuplicate, RecordFailure, Recorded
    <2> QED BY <2>1 DEF Held, InAttempt
  <1>5. ASSUME SweepEnds(s) \/ SweepAborts(s) \/ ServerRestarts PROVE Fewer
    <2>1. sweep'[s] = IdleSweep
      BY <1>0, <1>5 DEF SweepEnds, SweepAborts, ServerRestarts
    <2> QED BY <2>1 DEF Held, IdleSweep, InAttempt
  <1>6. ASSUME UNCHANGED sweep PROVE Fewer
    BY <1>6 DEF Held
  <1>7. ASSUME NEW e \in Events, Replay(e) \/ RetryFallsDue(e) \/ ArrivesLate(e) \/ IsLost(e)
        PROVE  UNCHANGED sweep
    BY <1>7 DEF Replay, RetryFallsDue, ArrivesLate, IsLost, server
  <1>8. ASSUME NEW S \in SUBSET Events, Queue(S) PROVE UNCHANGED sweep
    BY <1>8 DEF Queue
  <1>9. ASSUME NEW o \in Orders, PlaceOrder(o) /\ UNCHANGED <<server, late, bounds>>
        PROVE  UNCHANGED sweep
    BY <1>9 DEF server
  <1>10. (ShopRestarts \/ UNCHANGED vars) => UNCHANGED sweep
    BY DEF ShopRestarts, vars, server
  <1> QED
    <2>1. CASE UNCHANGED sweep \/ ServerRestarts
      BY <1>5, <1>6, <2>1
    <2>2. CASE \E t \in Sweeps : SweepNext(t)
      BY <1>1, <1>2, <1>3, <1>4, <1>5, <2>2 DEF SweepNext
    <2> QED BY <1>7, <1>8, <1>9, <1>10, <2>1, <2>2, Zenon DEF Next, DeliveryNext

\* Every step keeps, resets or counts on the attempts of each row.
LEMMA CountStep ==
  ASSUME TypeOK, SnapshotsFresh, [Next]_vars, NEW f \in Events
  PROVE  CountKept(f) \/ CountReset(f) \/ CountedOn(f)
  <1> DEFINE Goal == CountKept(f) \/ CountReset(f) \/ CountedOn(f)
  <1>0. row \in [Events -> Rows] /\ log \in [Events -> Seq(EventLog)]
    BY DEF TypeOK
  <1>1. ASSUME NEW S \in SUBSET Events, Queue(S) PROVE Goal
    <2>1. CASE f \in S
      BY <1>1, <2>1 DEF Queue, PendingRow, CountReset
    <2>2. CASE f \notin S
      BY <1>1, <2>2 DEF Queue, CountKept
    <2> QED BY <2>1, <2>2
  <1>2. ASSUME NEW e \in Events, Replay(e) PROVE Goal
    <2>1. CASE e = f
      BY <1>0, <1>2, <2>1 DEF Replay, LogTo, CountReset
    <2>2. CASE e # f
      BY <1>0, <1>2, <2>2 DEF Replay, LogTo, CountKept
    <2> QED BY <2>1, <2>2
  <1>3. ASSUME NEW e \in Events, RetryFallsDue(e) PROVE Goal
    BY <1>0, <1>3 DEF RetryFallsDue, CountKept
  <1>4. ASSUME UNCHANGED <<row, log>> PROVE Goal
    BY <1>4 DEF CountKept
  <1>5. ASSUME NEW s \in Sweeps, RecordDelivered(s) \/ RecordDuplicate(s) PROVE Goal
    <2>1. sweep[s].pc \in InAttempt
      BY <1>5 DEF RecordDelivered, RecordDuplicate, InAttempt
    <2>2. PICK e \in Events : e = sweep[s].at.event
      BY <2>1, InAttemptShape
    <2>3. \E x \in {"webhook_delivered", "duplicate_event_ignored"} :
             log' = [log EXCEPT ![e] = log[e] \o <<x>>]
      BY <1>5, <2>2 DEF RecordDelivered, RecordDuplicate, LogTo
    <2>4. CASE f = e
      <3>1. row'[f].attempts = row[f].attempts /\ row'[f].status = "delivered"
        <4>1. CASE RecordDelivered(s)
          BY <1>0, <2>2, <2>4, <4>1 DEF RecordDelivered
        <4>2. CASE RecordDuplicate(s)
          BY <1>0, <2>2, <2>4, <4>2 DEF RecordDuplicate
        <4> QED BY <1>5, <4>1, <4>2
      <3> QED BY <1>0, <2>3, <3>1 DEF CountKept
    <2>5. CASE f # e
      <3>1. row'[f] = row[f]
        BY <1>0, <1>5, <2>2, <2>5 DEF RecordDelivered, RecordDuplicate
      <3> QED BY <1>0, <2>3, <2>5, <3>1 DEF CountKept
    <2> QED BY <2>4, <2>5
  <1>6. ASSUME NEW s \in Sweeps, RecordFailure(s) PROVE Goal
    <2>1. sweep[s].pc \in InAttempt
      BY <1>6 DEF RecordFailure, InAttempt
    <2>2. PICK e \in Events : e = sweep[s].at.event
      BY <2>1, InAttemptShape
    <2>3. CASE e # f
      <3>1. row'[f] = row[f] /\ log'[f] = log[f]
        BY <1>0, <1>6, <2>2, <2>3 DEF RecordFailure, LogTo
      <3> QED BY <3>1 DEF CountKept
    <2>4. CASE e = f
      <3>1. sweep[s].at \in Held(s) /\ sweep[s].at.event = f
        BY <2>1, <2>2, <2>4 DEF Held
      <3>2. /\ row'[f].attempts = sweep[s].at.attempts + 1
            /\ row'[f].status # "absent"
        BY <1>0, <1>6, <2>2, <2>4 DEF RecordFailure
      <3>3. \E m \in FailureEntries : log'[f] = log[f] \o m
        BY <1>0, <1>6, <2>2, <2>4 DEF RecordFailure, LogTo, FailureEntries
      <3>4. \A t \in Sweeps : \A b \in Held(t)' : b.event # f
        BY <1>6, <2>1, <2>2, <2>4, NoOtherCopy DEF RecordFailure
      <3> QED BY <3>1, <3>2, <3>3, <3>4 DEF CountedOn
    <2> QED BY <2>3, <2>4
  <1>7. ASSUME NEW s \in Sweeps, SweepNext(s) PROVE Goal
    BY <1>4, <1>5, <1>6, <1>7 DEF SweepNext, Tick, Attempt, Arrives, Refused, TimesOut,
       SweepEnds, SweepAborts
  <1>8. ASSUME NEW e \in Events, ArrivesLate(e) \/ IsLost(e) PROVE Goal
    BY <1>4, <1>8 DEF ArrivesLate, IsLost, server
  <1>9. ASSUME \/ \E o \in Orders : PlaceOrder(o) /\ UNCHANGED <<server, late, bounds>>
               \/ ServerRestarts \/ ShopRestarts \/ UNCHANGED vars
        PROVE  Goal
    BY <1>4, <1>9 DEF server, ServerRestarts, ShopRestarts, vars
  <1> HIDE DEF Goal
  <1>10. Goal
    BY <1>1, <1>2, <1>3, <1>7, <1>8, <1>9, Zenon DEF Next, DeliveryNext
  <1> QED BY <1>10 DEF Goal

\* A log that is extended keeps its entries and has the new ones behind them.
LEMMA Extended ==
  ASSUME NEW l \in Seq(EventLog), NEW m \in Seq(EventLog), m # <<>>
  PROVE  /\ Len(l) \in Nat /\ DOMAIN l = 1..Len(l)
         /\ DOMAIN (l \o m) = 1..(Len(l) + Len(m)) /\ Len(m) \in Nat /\ Len(m) > 0
         /\ \A k \in 1..Len(l) : (l \o m)[k] = l[k]
         /\ \A k \in DOMAIN m : (l \o m)[Len(l) + k] = m[k]
  <1>1. Len(m) \in Nat /\ Len(m) # 0
    BY EmptySeq
  <1> QED BY <1>1

Failures(l) == {k \in DOMAIN l : l[k] = "webhook_failed"}

\* The failures of a log are finitely many, none in an empty one,
LEMMA FailuresFinite ==
  ASSUME NEW l \in Seq(EventLog)
  PROVE  /\ IsFiniteSet(Failures(l)) /\ Cardinality(Failures(l)) \in Nat
         /\ IsFiniteSet(FailuresSinceReset(l)) /\ Cardinality(FailuresSinceReset(l)) \in Nat
  <1>1. DOMAIN l = 1..Len(l) /\ Len(l) \in Nat /\ IsFiniteSet(1..Len(l))
    BY FS_Interval
  <1>2. Failures(l) \in SUBSET (1..Len(l)) /\ FailuresSinceReset(l) \in SUBSET (1..Len(l))
    BY <1>1 DEF Failures, FailuresSinceReset
  <1>3. IsFiniteSet(Failures(l)) /\ IsFiniteSet(FailuresSinceReset(l))
    BY <1>1, <1>2, FS_Subset
  <1> QED BY <1>3, FS_CardinalityType

\* they stay what they are when a success is logged,
LEMMA SuccessCounts ==
  ASSUME NEW l \in Seq(EventLog), NEW x \in {"webhook_delivered", "duplicate_event_ignored"}
  PROVE  Failures(l \o <<x>>) = Failures(l) /\ FailuresSinceReset(l \o <<x>>) = FailuresSinceReset(l)
  <1> DEFINE n == l \o <<x>>
  <1>1. /\ Len(l) \in Nat /\ DOMAIN l = 1..Len(l) /\ DOMAIN n = 1..(Len(l) + 1)
        /\ \A k \in 1..Len(l) : n[k] = l[k]
        /\ n[Len(l) + 1] \notin {"webhook_failed", "webhook_queued", "webhook_replayed"}
    OBVIOUS
  <1> HIDE DEF n
  <1>2. Failures(n) = Failures(l)
    BY <1>1 DEF Failures
  <1>3. FailuresSinceReset(n) = FailuresSinceReset(l)
    BY <1>1 DEF FailuresSinceReset
  <1> QED BY <1>2, <1>3 DEF n

\* when a reset is logged the later ones are counted anew,
LEMMA ResetCounts ==
  ASSUME NEW l \in Seq(EventLog), NEW x \in {"webhook_queued", "webhook_replayed"}
  PROVE  Failures(l \o <<x>>) = Failures(l) /\ FailuresSinceReset(l \o <<x>>) = {}
  <1> DEFINE n == l \o <<x>>
  <1>1. /\ Len(l) \in Nat /\ DOMAIN l = 1..Len(l) /\ DOMAIN n = 1..(Len(l) + 1)
        /\ \A k \in 1..Len(l) : n[k] = l[k]
        /\ n[Len(l) + 1] \in {"webhook_queued", "webhook_replayed"}
    OBVIOUS
  <1> HIDE DEF n
  <1>2. Failures(n) = Failures(l)
    BY <1>1 DEF Failures
  <1>3. FailuresSinceReset(n) = {}
    BY <1>1 DEF FailuresSinceReset
  <1> QED BY <1>2, <1>3 DEF n

\* What a failure writes.
LEMMA FailureEntry ==
  ASSUME NEW m \in FailureEntries
  PROVE  /\ m \in Seq(EventLog) /\ m # <<>> /\ m[1] = "webhook_failed" /\ 1 \in DOMAIN m
         /\ \A k \in DOMAIN m : m[k] \notin {"webhook_queued", "webhook_replayed"}
         /\ \A k \in DOMAIN m : k # 1 => m[k] # "webhook_failed"
  <1>1. CASE m = <<"webhook_failed">>
    BY <1>1 DEF EventLog
  <1>2. CASE m = <<"webhook_failed", "webhook_dead_lettered">>
    BY <1>2 DEF EventLog
  <1> QED BY <1>1, <1>2 DEF FailureEntries

\* and a failure is one more.
LEMMA FailureCounts ==
  ASSUME NEW l \in Seq(EventLog), NEW m \in FailureEntries
  PROVE  /\ Cardinality(Failures(l \o m)) = Cardinality(Failures(l)) + 1
         /\ Cardinality(FailuresSinceReset(l \o m)) = Cardinality(FailuresSinceReset(l)) + 1
  <1> DEFINE n == l \o m
             new == Len(l) + 1
  <1>0. /\ m \in Seq(EventLog) /\ m # <<>> /\ m[1] = "webhook_failed" /\ 1 \in DOMAIN m
        /\ \A k \in DOMAIN m : m[k] \notin {"webhook_queued", "webhook_replayed"}
        /\ \A k \in DOMAIN m : k # 1 => m[k] # "webhook_failed"
    BY FailureEntry
  <1>1. /\ Len(l) \in Nat /\ DOMAIN l = 1..Len(l) /\ new \in DOMAIN n /\ n[new] = "webhook_failed"
        /\ DOMAIN l \subseteq DOMAIN n /\ DOMAIN n \subseteq Nat
        /\ \A k \in DOMAIN l : n[k] = l[k]
        /\ \A k \in DOMAIN n : k \notin DOMAIN l /\ k # new
              => n[k] \notin {"webhook_failed", "webhook_queued", "webhook_replayed"}
        /\ \A k \in DOMAIN n : k \notin DOMAIN l => k >= new
    <2>1. /\ Len(l) \in Nat /\ DOMAIN l = 1..Len(l)
          /\ DOMAIN n = 1..(Len(l) + Len(m)) /\ Len(m) \in Nat /\ Len(m) > 0 /\ DOMAIN m = 1..Len(m)
          /\ \A k \in 1..Len(l) : n[k] = l[k]
          /\ \A k \in DOMAIN m : n[Len(l) + k] = m[k]
      BY <1>0, Extended
    <2>2. ASSUME NEW k \in DOMAIN n, k \notin DOMAIN l
          PROVE  k - Len(l) \in DOMAIN m /\ n[k] = m[k - Len(l)] /\ k >= new
      BY <2>1, <2>2
    <2> HIDE DEF n
    <2> QED BY <1>0, <2>1, <2>2
  <1> HIDE DEF n, new
  <1>2. Failures(n) = Failures(l) \cup {new} /\ new \notin Failures(l)
    BY <1>1 DEF Failures, new
  <1>3. FailuresSinceReset(n) = FailuresSinceReset(l) \cup {new} /\ new \notin FailuresSinceReset(l)
    BY <1>1 DEF FailuresSinceReset, new
  <1> QED BY <1>2, <1>3, FailuresFinite, FS_AddElement DEF n

\* A number of attempts that the failures on a ledger account for: there are at
\* least as many, and no more if the event was never replayed.
AccountedFor(attempts, l) ==
    /\ attempts <= Cardinality(Failures(l))
    /\ ~Occurs("webhook_replayed", l) => attempts = Cardinality(Failures(l))

\* Rows and the copies of them count what is on the ledger.
FailuresCounted ==
    /\ \A e \in Events : AccountedFor(row[e].attempts, log[e])
    /\ \A e \in Events : row[e].status = "absent" => Failures(log[e]) = {}
    /\ \A s \in Sweeps : \A a \in Held(s) : AccountedFor(a.attempts, log[a.event])

\* Held copies are of known events.
LEMMA HeldType ==
  ASSUME TypeOK, NEW s \in Sweeps, NEW a \in Held(s)
  PROVE  a.event \in Events /\ a.attempts \in 0..3
  <1>1. sweep[s] \in SweepStates
    BY DEF TypeOK
  <1>2. a \in Attempts
    BY <1>1 DEF Held, SweepStates, IdleSweep, InAttempt
  <1> QED BY <1>2 DEF Attempts, WEBHOOK_MAX_ATTEMPTS

\* What a sweep holds after a step it held before, or it has just listed it.
LEMMA HeldFrom ==
  ASSUME TypeOK, [Next]_vars, NEW s \in Sweeps, NEW a \in Held(s)'
  PROVE  a \in Held(s) \/ (UNCHANGED <<row, log>> /\ \E e \in Events : a = Snapshot(e))
  <1>1. CASE a \in Held(s)
    BY <1>1
  <1>2. CASE a \notin Held(s)
    <2>1. Tick(s)
      BY <1>2, HeldStep
    <2>2. sweep'[s].batch = {Snapshot(e) : e \in Due} /\ sweep'[s].pc = "next"
      BY <2>1 DEF Tick, TypeOK
    <2>3. \E e \in Events : a = Snapshot(e)
      BY <2>2 DEF Held, InAttempt, Due
    <2> QED BY <2>1, <2>3 DEF Tick
  <1> QED BY <1>1, <1>2

\* An account that fits goes on fitting, whatever is logged but a failure.
LEMMA AccountKept ==
  ASSUME NEW k \in Nat, NEW f \in Events, log[f] \in Seq(EventLog),
         CountKept(f) \/ CountReset(f), AccountedFor(k, log[f])
  PROVE  AccountedFor(k, log'[f]) /\ Failures(log'[f]) = Failures(log[f])
  <1>1. CASE log'[f] = log[f]
    BY <1>1
  <1>2. ASSUME NEW x \in EventLog \ {"webhook_failed"}, log'[f] = log[f] \o <<x>>,
               Failures(log'[f]) = Failures(log[f])
        PROVE  AccountedFor(k, log'[f])
    <2>1. <<x>> \in Seq(EventLog)
      OBVIOUS
    <2>2. Occurs("webhook_replayed", log[f]) => Occurs("webhook_replayed", log'[f])
      <3>1. CASE x = "webhook_replayed"
        BY <1>2, <3>1, AppendFirst
      <3>2. CASE x # "webhook_replayed"
        <4>1. ~Occurs("webhook_replayed", <<x>>)
          BY <3>2 DEF Occurs
        <4>2. Occurs("webhook_replayed", log[f] \o <<x>>) <=> Occurs("webhook_replayed", log[f])
          <5> DEFINE m == <<x>>
          <5>1. m \in Seq(EventLog) /\ ~Occurs("webhook_replayed", m)
            BY <2>1, <4>1
          <5> HIDE DEF m
          <5>2. Occurs("webhook_replayed", log[f] \o m) <=> Occurs("webhook_replayed", log[f])
            BY <5>1, AppendOther
          <5> QED BY <5>2 DEF m
        <4> QED BY <1>2, <4>2
      <3> QED BY <3>1, <3>2
    <2> QED BY <1>2, <2>2 DEF AccountedFor
  <1>3. ASSUME NEW x \in {"webhook_delivered", "duplicate_event_ignored"}, log'[f] = log[f] \o <<x>>
        PROVE  AccountedFor(k, log'[f]) /\ Failures(log'[f]) = Failures(log[f])
    BY <1>2, <1>3, SuccessCounts DEF EventLog
  <1>4. ASSUME NEW x \in {"webhook_queued", "webhook_replayed"}, log'[f] = log[f] \o <<x>>
        PROVE  AccountedFor(k, log'[f]) /\ Failures(log'[f]) = Failures(log[f])
    BY <1>2, <1>4, ResetCounts DEF EventLog
  <1> QED BY <1>1, <1>3, <1>4 DEF CountKept, CountReset

LEMMA FailuresCountedStep ==
  ASSUME TypeOK, SnapshotsFresh, FailuresCounted, [Next]_vars PROVE FailuresCounted'
  <1>0. \A f \in Events : /\ log[f] \in Seq(EventLog) /\ row[f].attempts \in Nat
                          /\ Cardinality(Failures(log[f])) \in Nat
    BY FailuresFinite DEF TypeOK, Rows
  <1>1. ASSUME NEW f \in Events
        PROVE  /\ AccountedFor(row'[f].attempts, log'[f])
               /\ row'[f].status = "absent" => Failures(log'[f]) = {}
    <2>1. CASE CountKept(f)
      BY <1>0, <2>1, AccountKept DEF CountKept, FailuresCounted
    <2>2. CASE CountReset(f)
      <3>1. row'[f].attempts = 0 /\ row'[f].status # "absent"
        BY <2>2 DEF CountReset
      <3>2. CASE row[f].status = "absent" /\ log'[f] = log[f] \o <<"webhook_queued">>
        <4>1. Failures(log'[f]) = {}
          BY <1>0, <3>2, ResetCounts DEF FailuresCounted
        <4> QED BY <3>1, <4>1, FS_EmptySet DEF AccountedFor
      <3>3. CASE Replay(f) /\ log'[f] = log[f] \o <<"webhook_replayed">>
        <4>1. Failures(log'[f]) = Failures(log[f])
          BY <1>0, <3>3, ResetCounts
        <4>2. Occurs("webhook_replayed", log'[f])
          <5>1. <<"webhook_replayed">> \in Seq(EventLog) /\ "webhook_replayed" \in EventLog
            BY DEF EventLog
          <5> QED BY <1>0, <3>3, <5>1, AppendFirst
        <4> QED BY <1>0, <3>1, <4>1, <4>2 DEF AccountedFor
      <3> QED BY <2>2, <3>2, <3>3 DEF CountReset
    <2>3. CASE CountedOn(f)
      <3>0. PICK s \in Sweeps : \E a \in Held(s) : a.event = f /\ row'[f].attempts = a.attempts + 1
        BY <2>3 DEF CountedOn
      <3>1. PICK a \in Held(s) : a.event = f /\ row'[f].attempts = a.attempts + 1
        BY <3>0
      <3>2. PICK m \in FailureEntries : log'[f] = log[f] \o m
        BY <2>3 DEF CountedOn
      <3>3. Cardinality(Failures(log'[f])) = Cardinality(Failures(log[f])) + 1
        BY <1>0, <3>2, FailureCounts
      <3>4. m \in Seq(EventLog) /\ ~Occurs("webhook_replayed", m)
        BY FailureEntry DEF Occurs
      <3>5. Occurs("webhook_replayed", log'[f]) <=> Occurs("webhook_replayed", log[f])
        BY <1>0, <3>2, <3>4, AppendOther
      <3>6. a.attempts \in Nat /\ AccountedFor(a.attempts, log[f])
        BY <3>1, HeldType DEF FailuresCounted
      <3>7. AccountedFor(a.attempts + 1, log'[f])
        BY <1>0, <3>3, <3>5, <3>6 DEF AccountedFor
      <3> QED BY <2>3, <3>1, <3>7 DEF CountedOn
    <2> QED BY <2>1, <2>2, <2>3, CountStep
  <1>2. ASSUME NEW s \in Sweeps, NEW a \in Held(s)' PROVE AccountedFor(a.attempts, log'[a.event])
    <2>1. CASE a \in Held(s)
      <3>1. a.event \in Events /\ a.attempts \in Nat /\ AccountedFor(a.attempts, log[a.event])
        BY <2>1, HeldType DEF FailuresCounted
      <3>2. ~CountedOn(a.event)
        BY <1>2 DEF CountedOn
      <3> QED BY <1>0, <3>1, <3>2, CountStep, AccountKept
    <2>2. ASSUME UNCHANGED <<row, log>>, NEW e \in Events, a = Snapshot(e)
          PROVE  AccountedFor(a.attempts, log'[a.event])
      BY <2>2 DEF Snapshot, FailuresCounted
    <2> QED BY <1>2, <2>1, <2>2, HeldFrom
  <1> QED BY <1>1, <1>2 DEF FailuresCounted

\* However outcomes, replays and crashes interleave, an event is dead-lettered
\* only after four recorded failures, and exactly four if it was never replayed
\* (webhook-dispatcher.ts:88-150, retry-schedule.ts).
THEOREM GivenUpAfterFourHolds == Spec => []GivenUpAfterFour
  <1>1. Init => FailuresCounted
    <2> SUFFICES ASSUME Init PROVE FailuresCounted
      OBVIOUS
    <2>1. \A e \in Events : log[e] = <<>> /\ row[e].attempts = 0
      BY DEF Init, NoRow
    <2>2. \A s \in Sweeps : Held(s) = {}
      BY DEF Init, IdleSweep, Held, InAttempt
    <2>3. Failures(<<>>) = {} /\ AccountedFor(0, <<>>)
      <3>1. Failures(<<>>) = {}
        BY DEF Failures
      <3> QED BY <3>1, FS_EmptySet DEF AccountedFor
    <2> QED BY <2>1, <2>2, <2>3 DEF FailuresCounted
  <1>2. TypeOK /\ SnapshotsFresh /\ FailuresCounted /\ [Next]_vars => FailuresCounted'
    BY FailuresCountedStep
  <1>3. TypeOK /\ RowConsistent /\ FailuresCounted => GivenUpAfterFour
    <2> SUFFICES ASSUME TypeOK, RowConsistent, FailuresCounted, NEW e \in Events,
                        row[e].status = "dead_lettered"
                 PROVE  IF Occurs("webhook_replayed", log[e])
                        THEN Cardinality(Failures(log[e])) >= WEBHOOK_MAX_ATTEMPTS
                        ELSE Cardinality(Failures(log[e])) = WEBHOOK_MAX_ATTEMPTS
      BY DEF GivenUpAfterFour, Failures
    <2>1. row[e].attempts = WEBHOOK_MAX_ATTEMPTS /\ AccountedFor(row[e].attempts, log[e])
      BY DEF RowConsistent, FailuresCounted
    <2>2. Cardinality(Failures(log[e])) \in Nat
      BY FailuresFinite DEF TypeOK
    <2> QED BY <2>1, <2>2 DEF AccountedFor, WEBHOOK_MAX_ATTEMPTS
  <1> QED BY <1>1, <1>2, <1>3, Typed, PTL DEF Spec

\* The failures since the last reset are counted by the row, and by its copies.
ResetsCounted ==
    /\ \A e \in Events : row[e].attempts = Cardinality(FailuresSinceReset(log[e]))
    /\ \A e \in Events : row[e].status = "absent" => row[e].attempts = 0
    /\ \A s \in Sweeps : \A a \in Held(s) : a.attempts = row[a.event].attempts

\* No event is replayed while a sweep holds a copy of its row.
ReplaysWait == \A e \in Events : Replay(e) => \A s \in Sweeps : \A a \in Held(s) : a.event # e

LEMMA ResetsCountedStep ==
  ASSUME TypeOK, SnapshotsFresh, ResetsCounted, Next, ReplaysWait PROVE ResetsCounted'
  <1>0. \A f \in Events : /\ log[f] \in Seq(EventLog) /\ row[f].attempts \in Nat
                          /\ Cardinality(FailuresSinceReset(log[f])) \in Nat
    BY FailuresFinite DEF TypeOK, Rows
  <1>1. ASSUME NEW f \in Events
        PROVE  /\ row'[f].attempts = Cardinality(FailuresSinceReset(log'[f]))
               /\ row'[f].status = "absent" => row'[f].attempts = 0
    <2>1. CASE CountKept(f)
      <3>1. FailuresSinceReset(log'[f]) = FailuresSinceReset(log[f])
        BY <1>0, <2>1, SuccessCounts DEF CountKept
      <3> QED BY <2>1, <3>1 DEF CountKept, ResetsCounted
    <2>2. CASE CountReset(f)
      <3>1. FailuresSinceReset(log'[f]) = {}
        BY <1>0, <2>2, ResetCounts DEF CountReset
      <3> QED BY <2>2, <3>1, FS_EmptySet DEF CountReset
    <2>3. CASE CountedOn(f)
      <3>0. PICK s \in Sweeps : \E a \in Held(s) : a.event = f /\ row'[f].attempts = a.attempts + 1
        BY <2>3 DEF CountedOn
      <3>1. PICK a \in Held(s) : a.event = f /\ row'[f].attempts = a.attempts + 1
        BY <3>0
      <3>2. Cardinality(FailuresSinceReset(log'[f])) = Cardinality(FailuresSinceReset(log[f])) + 1
        BY <1>0, <2>3, FailureCounts DEF CountedOn
      <3>3. a.attempts = row[f].attempts
        BY <3>1 DEF ResetsCounted
      <3> QED BY <2>3, <3>1, <3>2, <3>3 DEF ResetsCounted, CountedOn
    <2> QED BY <2>1, <2>2, <2>3, CountStep
  <1>2. ASSUME NEW s \in Sweeps, NEW a \in Held(s)' PROVE a.attempts = row'[a.event].attempts
    <2>1. CASE a \in Held(s)
      <3>1. a.event \in Events /\ a.attempts = row[a.event].attempts
        BY <2>1, HeldType DEF ResetsCounted
      <3>2. ~CountedOn(a.event) /\ ~Replay(a.event)
        BY <1>2, <2>1, <3>1 DEF CountedOn, ReplaysWait
      <3>3. CountKept(a.event) \/ (CountReset(a.event) /\ row[a.event].status = "absent")
        BY <3>1, <3>2, CountStep DEF CountReset
      <3> QED BY <3>1, <3>3 DEF CountKept, CountReset, ResetsCounted
    <2>2. ASSUME UNCHANGED <<row, log>>, NEW e \in Events, a = Snapshot(e)
          PROVE  a.attempts = row'[a.event].attempts
      BY <2>2 DEF Snapshot
    <2> QED BY <1>2, <2>1, <2>2, HeldFrom
  <1> QED BY <1>1, <1>2 DEF ResetsCounted

\* A replay that lands while its event is in a sweep is the only way to be given
\* up without four attempts of one's own: if replays wait for the sweep, every
\* dead-lettered event has failed exactly four times since it was queued or last
\* replayed (routes/webhooks.ts replay, webhook-dispatcher.ts:88-150).
THEOREM DeadLetterEarnedIfReplaysWait == Spec /\ [][ReplaysWait]_vars => []DeadLetterEarned
  <1>1. Init => ResetsCounted
    <2> SUFFICES ASSUME Init PROVE ResetsCounted
      OBVIOUS
    <2>1. \A e \in Events : log[e] = <<>> /\ row[e].attempts = 0
      BY DEF Init, NoRow
    <2>2. \A s \in Sweeps : Held(s) = {}
      BY DEF Init, IdleSweep, Held, InAttempt
    <2>3. FailuresSinceReset(<<>>) = {}
      BY DEF FailuresSinceReset
    <2> QED BY <2>1, <2>2, <2>3, FS_EmptySet DEF ResetsCounted
  <1>2. TypeOK /\ SnapshotsFresh /\ ResetsCounted /\ [Next]_vars /\ [ReplaysWait]_vars => ResetsCounted'
    <2>1. CASE UNCHANGED vars
      BY <2>1 DEF vars, server, ResetsCounted, Held
    <2>2. CASE ~UNCHANGED vars
      BY <2>2, ResetsCountedStep
    <2> QED BY <2>1, <2>2
  <1>3. TypeOK /\ RowConsistent /\ ResetsCounted => DeadLetterEarned
    BY DEF RowConsistent, ResetsCounted, DeadLetterEarned
  <1> QED BY <1>1, <1>2, <1>3, Typed, PTL DEF Spec

=============================================================================
