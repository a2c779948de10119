--------------------------- MODULE PaymentIntents ---------------------------
(***************************************************************************)
(* Payment intents from creation to settlement: the create requests of     *)
(* PaymentIntentService, the refresh calls of PaymentStatusTracker made by *)
(* the refresh endpoint, the demo endpoints and the status poller, the     *)
(* adapter they ask, and restarts of the process.                          *)
(*                                                                         *)
(* One Node.js process interleaves all of them at every await.  A database *)
(* transaction is one step, because SQLite serialises writers; the reads   *)
(* and the adapter calls between transactions are steps of their own, so a *)
(* call acts on the snapshot it took some steps ago.                       *)
(*                                                                         *)
(* A create request inserts at most one intent, under a fresh random id,   *)
(* so the request itself names the intent.                                 *)
(***************************************************************************)
EXTENDS FiberAdapter, Naturals, Sequences

CONSTANTS
    Creates,        \* POST /v1/payment_intents requests, and their intents
    Calls,          \* concurrent refresh or demo requests
    Poller,         \* the status poller, a caller of its own
    NoIntent,
    Merchants,      \* registered merchant ids, as sequences of characters
    NoKey,          \* the header is missing
    Requests,       \* the request bodies and keys that clients send
    MaxRestarts     \* bound on process restarts

Callers == Calls \cup {Poller}

ASSUME CallerAssumption == Poller \notin Calls
ASSUME IntentAssumption == NoIntent \notin Creates
ASSUME RestartAssumption == MaxRestarts \in Nat

VARIABLES
    status,         \* PaymentIntent.status by intent, Absent before the insert
    ledger,         \* append-only LedgerEvent types of each intent, as creation
                    \* and settlement write them
    outbox,         \* types of the WebhookEvent rows they queue for it
    receipts,       \* intents that have a Receipt row (unique per intent)
    idempotency,    \* IdempotencyRecord rows
    invoice,        \* the adapter's invoice of each intent
    create,         \* create requests: progress, request and reply
    call,           \* refresh calls: progress and the snapshot they act on
    polling,        \* reentrancy guard of the status poller
    todo,           \* ids the running poll has still to refresh
    restarts

database == <<status, ledger, outbox, receipts, idempotency>>
poller   == <<polling, todo>>
vars     == <<database, invoice, create, call, poller, restarts>>

-----------------------------------------------------------------------------
(* Requests, replies and keys *)

\* The prefix that namespaces a key is joined with ":"; neither part is escaped.
BuildKey(m, k) == m \o <<":">> \o k

\* An empty header is falsy: such a request skips the idempotency check.
Keyed(r) == r.key \notin {NoKey, <<>>}

\* canonicalHash of the body, which holds the merchant and the order.
HashRequest(r) == [merchant |-> r.merchant, order |-> r.order, body |-> r.body]

\* Faulty variant: the record is looked up by the header as it came.
StoredUnderHeader(r) == {e \in idempotency : e.key = r.key}

Stored(r) == {e \in idempotency : e.key = BuildKey(r.merchant, r.key)}

NewCreate == [pc |-> "new", req |-> NoKey, code |-> "none", intent |-> NoIntent]

Answered(r, code, i) == [pc |-> "done", req |-> r, code |-> code, intent |-> i]

Reply(c, code, i) ==
    create' = [create EXCEPT ![c] = Answered(create[c].req, code, i)]

Advance(c, step) ==
    create' = [create EXCEPT ![c] = [@ EXCEPT !.pc = step]]

Idle == [pc |-> "idle", intent |-> NoIntent, status |-> Absent, target |-> "none"]

LogTo(log, i, events) == [log EXCEPT ![i] = @ \o events]

Init ==
    /\ status = [i \in Creates |-> Absent]
    /\ ledger = [i \in Creates |-> <<>>]
    /\ outbox = [i \in Creates |-> <<>>]
    /\ receipts = {}
    /\ idempotency = {}
    /\ invoice = [i \in Creates |-> Absent]
    /\ create = [c \in Creates |-> NewCreate]
    /\ call = [r \in Callers |-> Idle]
    /\ polling = FALSE
    /\ todo = {}
    /\ restarts = 0

-----------------------------------------------------------------------------
(* PaymentIntentService.create *)

\* Faulty variant: the stored hash is not compared.
ReplayAnyBody(c, r) ==
    /\ create[c].pc = "new"
    /\ Keyed(r)
    /\ \E e \in Stored(r) :
         create' = [create EXCEPT ![c] = Answered(r, "200", e.intent)]
    /\ UNCHANGED <<database, invoice, call, poller, restarts>>

\* A request arrives: idempotency lookup, then the merchant lookup.
ReplayStored(c, r) ==
    /\ create[c].pc = "new"
    /\ Keyed(r)
    /\ \E e \in Stored(r) :
         /\ e.hash = HashRequest(r)
         /\ create' = [create EXCEPT ![c] = Answered(r, "200", e.intent)]
    /\ UNCHANGED <<database, invoice, call, poller, restarts>>

RejectKeyReuse(c, r) ==
    /\ create[c].pc = "new"
    /\ Keyed(r)
    /\ \E e \in Stored(r) : e.hash # HashRequest(r)
    /\ create' = [create EXCEPT ![c] =
                    Answered(r, "idempotency_key_conflict", NoIntent)]
    /\ UNCHANGED <<database, invoice, call, poller, restarts>>

AcceptCreate(c, r) ==
    /\ create[c].pc = "new"
    /\ Keyed(r) => Stored(r) = {}
    /\ create' = [create EXCEPT ![c] =
                    IF r.merchant \in Merchants
                    THEN [pc |-> "insert", req |-> r, code |-> "none", intent |-> NoIntent]
                    ELSE Answered(r, "not_found", NoIntent)]
    /\ UNCHANGED <<database, invoice, call, poller, restarts>>

\* The two unique indexes of the PaymentIntent table.  NULL keys never clash.
SameOrder(c, d) == /\ create[d].req.merchant = create[c].req.merchant
                   /\ create[d].req.order = create[c].req.order
SameKey(c, d)   == /\ create[d].req.merchant = create[c].req.merchant
                   /\ create[d].req.key = create[c].req.key
                   /\ create[c].req.key # NoKey

Inserted == {d \in Creates : status[d] # Absent}

\* Faulty variant: no unique index on the idempotency key.
InsertErrorsByOrder(c) ==
    IF \E d \in Inserted : SameOrder(c, d) THEN {"duplicate_order_id"} ELSE {}

InsertErrors(c) ==
    (IF \E d \in Inserted : SameOrder(c, d) THEN {"duplicate_order_id"} ELSE {})
      \cup
    (IF \E d \in Inserted : SameKey(c, d) THEN {"idempotency_key_conflict"} ELSE {})

\* First transaction: the intent as `created` and its first ledger event.
InsertIntent(c) ==
    /\ create[c].pc = "insert"
    /\ InsertErrors(c) = {}
    /\ status' = [status EXCEPT ![c] = "created"]
    /\ ledger' = LogTo(ledger, c, <<"payment_intent_created">>)
    /\ Advance(c, "invoice")
    /\ UNCHANGED <<outbox, receipts, idempotency, invoice, call, poller, restarts>>

RejectInsert(c) ==
    /\ create[c].pc = "insert"
    /\ \E code \in InsertErrors(c) : Reply(c, code, NoIntent)
    /\ UNCHANGED <<database, invoice, call, poller, restarts>>

\* adapter.createInvoice, outside any transaction.
CreateInvoice(c) ==
    /\ create[c].pc = "invoice"
    /\ invoice' = [invoice EXCEPT ![c] = NewInvoice]
    /\ Advance(c, "promote")
    /\ UNCHANGED <<database, call, poller, restarts>>

\* The RPC failed or timed out; in the latter case the node may hold an invoice.
InvoiceFails(c) ==
    /\ create[c].pc = "invoice"
    /\ Mode = "real"
    /\ \E s \in {Absent, NewInvoice} : invoice' = [invoice EXCEPT ![c] = s]
    /\ Reply(c, "invoice_creation_failed", NoIntent)
    /\ UNCHANGED <<database, call, poller, restarts>>

\* Second transaction: promotion, ledger, webhook and stored response.
Promote(c) ==
    LET r == create[c].req
    IN  /\ create[c].pc = "promote"
        /\ Keyed(r) => Stored(r) = {}
        /\ status' = [status EXCEPT ![c] = "requires_payment"]
        /\ ledger' = LogTo(ledger, c, <<"invoice_created", "webhook_queued">>)
        /\ outbox' = LogTo(outbox, c, <<"payment_intent.created">>)
        /\ idempotency' =
             IF Keyed(r)
             THEN idempotency \cup {[key |-> BuildKey(r.merchant, r.key),
                                     hash |-> HashRequest(r), intent |-> c]}
             ELSE idempotency
        /\ Reply(c, "201", c)
        /\ UNCHANGED <<receipts, invoice, call, poller, restarts>>

\* The storage key is taken: the whole second transaction rolls back.
RejectPromote(c) ==
    /\ create[c].pc = "promote"
    /\ Keyed(create[c].req) /\ Stored(create[c].req) # {}
    /\ Reply(c, "internal_error", NoIntent)
    /\ UNCHANGED <<database, invoice, call, poller, restarts>>

\* Either transaction may fail for a reason of the database's own.
CreateAborts(c) ==
    /\ create[c].pc \in {"insert", "promote"}
    /\ Reply(c, "internal_error", NoIntent)
    /\ UNCHANGED <<database, invoice, call, poller, restarts>>

-----------------------------------------------------------------------------
(* PaymentStatusTracker.refresh *)

\* Faulty variant: a terminal intent is refreshed like any other.
LoadAnyIntent(r, i) ==
    call' = [call EXCEPT ![r] = [pc |-> "query", intent |-> i,
                                 status |-> status[i], target |-> "none"]]

\* Load the intent; a terminal one is a pure read.
LoadIntent(r, i) ==
    call' = [call EXCEPT ![r] =
               IF IsTerminalStatus(status[i]) THEN Idle
               ELSE [pc |-> "query", intent |-> i,
                     status |-> status[i], target |-> "none"]]

\* POST /v1/payment_intents/:id/refresh
Refresh(r, i) ==
    /\ r \in Calls /\ call[r].pc = "idle"
    /\ status[i] # Absent
    /\ LoadIntent(r, i)
    /\ UNCHANGED <<database, invoice, create, poller, restarts>>

\* POST /v1/demo/payment_intents/:id/<action>: drive the simulated adapter,
\* then refresh.  An intent without payment hash or a refused mark is a 409.
DemoMark(r, i, action) ==
    /\ Mode = "simulated"
    /\ r \in Calls /\ call[r].pc = "idle"
    /\ status[i] \notin {Absent, "created"}
    /\ \E o \in MarkOutcomes(action, invoice[i]) :
         /\ invoice' = [invoice EXCEPT ![i] = o.to]
         /\ call' = IF o.accepted
                    THEN [call EXCEPT ![r] = [pc |-> "load", intent |-> i,
                                              status |-> Absent, target |-> "none"]]
                    ELSE call
    /\ UNCHANGED <<database, create, poller, restarts>>

LoadAfterMark(r) ==
    /\ call[r].pc = "load"
    /\ LoadIntent(r, call[r].intent)
    /\ UNCHANGED <<database, invoice, create, poller, restarts>>

\* Faulty variant: the adapter finds the invoice of an intent without its hash.
SeenWithoutHash(r) ==
    LET s == invoice[call[r].intent]
    IN  IF Mode = "simulated" THEN AfterExpiry(s) ELSE {s}

\* Which invoice states adapter.getPaymentStatus may see.  The adapter is asked
\* by the payment hash of the snapshot, which a `created` intent does not have.
SeenByAdapter(r) ==
    LET s == IF call[r].status = "created" THEN Absent ELSE invoice[call[r].intent]
    IN  IF Mode = "simulated" THEN AfterExpiry(s) ELSE {s}

QueryAdapter(r) ==
    /\ call[r].pc = "query"
    /\ \E s \in SeenByAdapter(r) :
         LET i == call[r].intent
             target == IntentStatusFromAdapterStatus(Reported(s))
         IN  /\ invoice' = IF s = Absent THEN invoice ELSE [invoice EXCEPT ![i] = s]
             /\ call' = [call EXCEPT ![r] =
                           IF Actionable(@.status, target)
                           THEN [pc |-> "apply", intent |-> i,
                                 status |-> @.status, target |-> target]
                           ELSE Idle]
    /\ UNCHANGED <<database, create, poller, restarts>>

\* The node is unreachable, times out or answers with an error.
QueryFails(r) ==
    /\ call[r].pc = "query"
    /\ Mode = "real"
    /\ call' = [call EXCEPT ![r] = Idle]
    /\ UNCHANGED <<database, invoice, create, poller, restarts>>

\* Faulty variant: no unique index on the receipt's intent.
ApplyPaidAgain(r) ==
    LET i == call[r].intent
    IN  /\ call[r].pc = "apply" /\ call[r].target = "paid"
        /\ receipts' = receipts \cup {i}
        /\ status' = [status EXCEPT ![i] = "paid"]
        /\ ledger' = LogTo(ledger, i, <<"payment_paid", "receipt_issued",
                                          "webhook_queued", "webhook_queued">>)
        /\ outbox' = LogTo(outbox, i, <<"payment_intent.paid", "receipt.created">>)
        /\ call' = [call EXCEPT ![r] = Idle]
        /\ UNCHANGED <<idempotency, invoice, create, poller, restarts>>

\* applyPaid: receipt, status, two ledger events and two webhooks, atomically.
\* The update is by id alone: it does not look at the status it overwrites.
ApplyPaid(r) ==
    LET i == call[r].intent
    IN  /\ call[r].pc = "apply" /\ call[r].target = "paid"
        /\ i \notin receipts
        /\ receipts' = receipts \cup {i}
        /\ status' = [status EXCEPT ![i] = "paid"]
        /\ ledger' = LogTo(ledger, i, <<"payment_paid", "receipt_issued",
                                          "webhook_queued", "webhook_queued">>)
        /\ outbox' = LogTo(outbox, i, <<"payment_intent.paid", "receipt.created">>)
        /\ call' = [call EXCEPT ![r] = Idle]
        /\ UNCHANGED <<idempotency, invoice, create, poller, restarts>>

\* The Receipt row exists: its unique index rolls the transaction back.
RejectReceipt(r) ==
    /\ call[r].pc = "apply" /\ call[r].target = "paid"
    /\ call[r].intent \in receipts
    /\ call' = [call EXCEPT ![r] = Idle]
    /\ UNCHANGED <<database, invoice, create, poller, restarts>>

\* Faulty variant: the webhook is not queued in the transaction.
ApplyNonPaidUnannounced(r) ==
    LET i == call[r].intent
        target == call[r].target
    IN  /\ call[r].pc = "apply" /\ target # "paid"
        /\ status' = [status EXCEPT ![i] = target]
        /\ ledger' = LogTo(ledger, i, <<LedgerEventByStatus[target], "webhook_queued">>)
        /\ call' = [call EXCEPT ![r] = Idle]
        /\ UNCHANGED <<outbox, receipts, idempotency, invoice, create, poller, restarts>>

\* applyNonPaid: again an update by id alone.
ApplyNonPaid(r) ==
    LET i == call[r].intent
        target == call[r].target
    IN  /\ call[r].pc = "apply" /\ target # "paid"
        /\ status' = [status EXCEPT ![i] = target]
        /\ ledger' = LogTo(ledger, i, <<LedgerEventByStatus[target], "webhook_queued">>)
        /\ outbox' = LogTo(outbox, i, <<WebhookTypeByStatus[target]>>)
        /\ call' = [call EXCEPT ![r] = Idle]
        /\ UNCHANGED <<receipts, idempotency, invoice, create, poller, restarts>>

ApplyAborts(r) ==
    /\ call[r].pc = "apply"
    /\ call' = [call EXCEPT ![r] = Idle]
    /\ UNCHANGED <<database, invoice, create, poller, restarts>>

-----------------------------------------------------------------------------
(* Status poller *)

\* Faulty variant: the sweep forgets the intents already in flight.
PollableUnstarted == {"requires_payment"}

PollableStatuses == {"requires_payment", "processing"}

\* The timer fires while no poll runs (a fire during a poll returns at once).
PollTick ==
    /\ ~polling
    /\ polling' = TRUE
    /\ todo' = {i \in Creates : status[i] \in PollableStatuses}
    /\ UNCHANGED <<database, invoice, create, call, restarts>>

\* The next id of the sweep; the listing has no order.
PollNext ==
    /\ polling /\ call[Poller].pc = "idle"
    /\ \E i \in todo :
         /\ todo' = todo \ {i}
         /\ LoadIntent(Poller, i)
    /\ UNCHANGED <<database, invoice, create, polling, restarts>>

PollEnd ==
    /\ polling /\ call[Poller].pc = "idle" /\ todo = {}
    /\ polling' = FALSE
    /\ UNCHANGED <<database, invoice, create, call, todo, restarts>>

-----------------------------------------------------------------------------
(* The Fiber node, and restarts of the API process *)

NodeMove(i) ==
    /\ Mode = "real" /\ invoice[i] # Absent
    /\ \E s \in NodeMoves[invoice[i]] : invoice' = [invoice EXCEPT ![i] = s]
    /\ UNCHANGED <<database, create, call, poller, restarts>>

\* Requests in flight are never answered; the simulated adapter forgets.
Restart ==
    /\ restarts < MaxRestarts
    /\ restarts' = restarts + 1
    /\ create' = [c \in Creates |->
                    IF create[c].pc \in {"insert", "invoice", "promote"}
                    THEN Answered(create[c].req, "lost", NoIntent)
                    ELSE create[c]]
    /\ call' = [r \in Callers |-> Idle]
    /\ polling' = FALSE /\ todo' = {}
    /\ invoice' = IF Mode = "simulated" THEN [i \in Creates |-> Absent] ELSE invoice
    /\ UNCHANGED database

-----------------------------------------------------------------------------

CreateNext(c) ==
    \/ \E r \in Requests : ReplayStored(c, r) \/ RejectKeyReuse(c, r) \/ AcceptCreate(c, r)
    \/ InsertIntent(c) \/ RejectInsert(c)
    \/ CreateInvoice(c) \/ InvoiceFails(c)
    \/ Promote(c) \/ RejectPromote(c) \/ CreateAborts(c)

StartCall(r) ==
    \E i \in Creates : \/ Refresh(r, i)
                       \/ \E action \in DemoActions : DemoMark(r, i, action)

CallNext(r) ==
    \/ LoadAfterMark(r)
    \/ QueryAdapter(r) \/ QueryFails(r)
    \/ ApplyPaid(r) \/ RejectReceipt(r) \/ ApplyNonPaid(r) \/ ApplyAborts(r)

PollNextState == PollTick \/ PollNext \/ PollEnd

Next ==
    \/ \E c \in Creates : CreateNext(c)
    \/ \E r \in Calls : StartCall(r)
    \/ \E r \in Callers : CallNext(r)
    \/ PollNextState
    \/ \E i \in Creates : NodeMove(i)
    \/ Restart

Spec == Init /\ [][Next]_vars

\* Creation on its own: no refresh, no poll, and a node that does not move.
CreationNext == (\E c \in Creates : CreateNext(c)) \/ Restart

CreationSpec == Init /\ [][CreationNext]_vars

\* The node answers and the database commits again and again for every intent;
\* the timer of the poller keeps firing and its sweep keeps going.
PollerQueries(i) == call[Poller].intent = i /\ QueryAdapter(Poller)
PollerApplies(i) == call[Poller].intent = i /\ (ApplyPaid(Poller) \/ ApplyNonPaid(Poller))

FairSpec ==
    /\ Spec
    /\ WF_vars(PollTick) /\ WF_vars(PollNext) /\ WF_vars(PollEnd)
    /\ \A i \in Creates : SF_vars(PollerQueries(i)) /\ SF_vars(PollerApplies(i))
    /\ WF_vars(RejectReceipt(Poller))

-----------------------------------------------------------------------------
(* Types *)

Replies == {"200", "201", "not_found", "idempotency_key_conflict",
            "duplicate_order_id", "invoice_creation_failed",
            "internal_error", "lost"}

LedgerTypes == {"payment_intent_created", "invoice_created", "webhook_queued",
                "receipt_issued", "payment_processing", "payment_paid",
                "payment_expired", "payment_failed"}

WebhookTypes == {"payment_intent.created", "payment_intent.processing",
                 "payment_intent.paid", "payment_intent.expired",
                 "payment_intent.failed", "receipt.created"}

CreateStates ==
    [pc : {"new", "insert", "invoice", "promote", "done"},
     req : Requests \cup {NoKey}, code : Replies \cup {"none"},
     intent : Creates \cup {NoIntent}]

CallStates ==
    {Idle}
      \cup [pc : {"load"}, intent : Creates, status : {Absent}, target : {"none"}]
      \cup [pc : {"query"}, intent : Creates, status : Statuses \ TerminalStatuses,
            target : {"none"}]
      \cup [pc : {"apply"}, intent : Creates, status : {"requires_payment", "processing"},
            target : RefreshTargets]

\* Every variable holds a value the program can hold; in particular a call in
\* progress acts on a snapshot that was not terminal (tracker.ts:86-107).
TypeOK ==
    /\ status \in [Creates -> Statuses \cup {Absent}]
    /\ ledger \in [Creates -> Seq(LedgerTypes)]
    /\ outbox \in [Creates -> Seq(WebhookTypes)]
    /\ receipts \subseteq Creates
    /\ \A e \in idempotency : e.intent \in Creates
    /\ invoice \in [Creates -> InvoiceStates \cup {Absent}]
    /\ create \in [Creates -> CreateStates]
    /\ call \in [Callers -> CallStates]
    /\ polling \in BOOLEAN
    /\ todo \subseteq Creates
    /\ restarts \in 0..MaxRestarts

-----------------------------------------------------------------------------
(* Safety *)

Occurs(x, log) == \E k \in DOMAIN log : log[k] = x
Once(x, log) == \A j, k \in DOMAIN log : log[j] = x /\ log[k] = x => j = k

\* However many refreshes race, an intent is settled as paid at most once: one
\* payment_paid and one receipt_issued on the ledger, one payment_intent.paid
\* and one receipt.created webhook, all of them exactly when a receipt exists.
SettledOnce ==
    \A i \in Creates :
      /\ Once("payment_paid", ledger[i]) /\ Once("receipt_issued", ledger[i])
      /\ Once("payment_intent.paid", outbox[i]) /\ Once("receipt.created", outbox[i])
      /\ i \in receipts <=> Occurs("payment_paid", ledger[i])
      /\ i \in receipts <=> Occurs("receipt_issued", ledger[i])
      /\ i \in receipts <=> Occurs("payment_intent.paid", outbox[i])
      /\ i \in receipts <=> Occurs("receipt.created", outbox[i])

Promoted == {i \in Creates : status[i] \notin {Absent, "created"}}

PaidOrForgotten(i) == \/ invoice[i] = PaidInvoice
                      \/ Mode = "simulated" /\ invoice[i] = Absent

CreateStage ==
    \A c \in Creates :
      /\ create[c].pc \in {"new", "insert"} => status[c] = Absent
      /\ create[c].pc \in {"invoice", "promote"} => status[c] = "created"

CallStage ==
    \A r \in Callers :
      /\ call[r].pc = "load" => call[r].intent \in Promoted
      /\ call[r].pc \in {"query", "apply"} /\ call[r].status # "created"
            => call[r].intent \in Promoted
      /\ call[r].pc = "apply" /\ call[r].target = "paid"
            => PaidOrForgotten(call[r].intent)

\* The request that creates an intent and the calls that settle it never work
\* on the same stage of it: until the promotion nobody else writes the intent,
\* and every settlement in progress is of a promoted one, a paid one only if
\* the node was paid.
StagesAgree ==
    /\ CreateStage
    /\ CallStage
    /\ todo \subseteq Promoted
    /\ receipts \subseteq Promoted

\* No receipt without a payment: when an intent has a receipt, its invoice is
\* paid at the node (or the simulated adapter has forgotten it in a restart).
ReceiptMeansPaid == \A i \in receipts : PaidOrForgotten(i)

\* The status an intent shows is always backed by its ledger event and its
\* webhook, and a paid one by its receipt, whichever write came last.
StatusOnRecord ==
    \A i \in Creates : status[i] \in RefreshTargets =>
      /\ Occurs(LedgerEventByStatus[status[i]], ledger[i])
      /\ Occurs(WebhookTypeByStatus[status[i]], outbox[i])
      /\ status[i] = "paid" => i \in receipts

\* Creation leads settlement: the ledger of an intent opens with
\* payment_intent_created, and once anything else is recorded invoice_created
\* comes second, before any settlement event, and neither is ever repeated.
CreationLeadsLedger ==
    \A i \in Creates :
      /\ Once("payment_intent_created", ledger[i]) /\ Once("invoice_created", ledger[i])
      /\ ledger[i] # <<>> => ledger[i][1] = "payment_intent_created"
      /\ Len(ledger[i]) > 1 => ledger[i][2] = "invoice_created"
      /\ ledger[i] # <<>> <=> status[i] # Absent
      /\ Len(ledger[i]) > 1 <=> status[i] \notin {Absent, "created"}

\* A merchant has at most one intent per order and per Idempotency-Key.
OneIntentPerOrder ==
    \A c, d \in Inserted : c # d => ~SameOrder(c, d) /\ ~SameKey(c, d)

\* A request answered 200 or 201 is told about an intent that has its invoice,
\* and that a request for the same merchant, order and body created: a replay
\* never hands out the intent of a different request.
ReplaysOwnRequest ==
    \A c \in Creates : create[c].code \in {"200", "201"} =>
      LET i == create[c].intent
      IN  /\ status[i] \notin {Absent, "created"}
          /\ HashRequest(create[i].req) = HashRequest(create[c].req)

\* The promotion writes requires_payment without looking at the row; it must
\* never undo what a refresh wrote while the invoice was being created.
PromotionUndoesNothing ==
    [][\A i \in Creates : status'[i] = "requires_payment"
                            => status[i] \in {"created", "requires_payment"}]_vars

\* No settlement event is recorded or announced twice for one intent.
NoDuplicateEvents ==
    \A i \in Creates : \A s \in RefreshTargets :
      /\ Once(LedgerEventByStatus[s], ledger[i])
      /\ Once(WebhookTypeByStatus[s], outbox[i])

\* The abstract promise: creation, settlement, demo marks, lapses and restarts
\* only ever open an intent, pay its invoice, or settle a paid one, once, with
\* the receipt and its announcement in the same step.
Money == INSTANCE Settlement WITH
    Intents   <- Creates,
    Volatile  <- (Mode = "simulated"),
    opened    <- Promoted,
    paid      <- {i \in Creates : invoice[i] = PaidInvoice},
    issued    <- receipts,
    announced <- {i \in Creates : Occurs("payment_intent.paid", outbox[i])}

ImplementsSettlement == Money!SettlementSpec

\* A settled intent stays as it is.
TerminalIsFinal ==
    [][\A i \in Creates : IsTerminalStatus(status[i]) => status'[i] = status[i]]_vars

\* The poller finds out about every invoice that reached a final state.
SettlementObserved ==
    \A i \in Creates :
      (status[i] \in PollableStatuses /\ invoice[i] \in {"Paid", "Expired", "Cancelled"})
        ~> IsTerminalStatus(status[i])

\* Retrying a request that is over, with the same key and the same body, never
\* conflicts with the first attempt.
RetriesReplay ==
    [][\A c, d \in Creates :
         /\ c # d /\ create[c].pc = "done" /\ create[c].req = create'[d].req
         /\ Keyed(create[c].req)
         /\ create[d].code = "none"
         => create'[d].code \notin {"duplicate_order_id", "idempotency_key_conflict"}]_vars

\* The positive side: once a request was answered with an intent, every retry
\* with its key and body gets that intent, whatever happened in between.
AnsweredRetriesReplay ==
    [][\A c, d \in Creates :
         /\ create[c].code \in {"200", "201"} /\ Keyed(create[c].req)
         /\ create[d].pc = "new" /\ create'[d].pc # "new" /\ create'[d].req = create[c].req
         => create'[d].code = "200" /\ create'[d].intent = create[c].intent]_vars

\* A key only collides with the same key of the same merchant.
KeysArePerMerchant ==
    \A c \in Creates : create[c].code = "idempotency_key_conflict" =>
      \E d \in Creates \ {c} : create[d].pc # "new" /\ SameKey(c, d)
=============================================================================
