-------------------------------- MODULE Books --------------------------------
(***************************************************************************)
(* The merchant's books on top of PaymentIntents: refunds and adjustments, *)
(* and the reconciliation exports of ReconciliationService.                *)
(*                                                                         *)
(* An export is three reads and one insert, none of them in a transaction  *)
(* with another: the intents first, then their webhooks and their          *)
(* payment_paid ledger events at the same time, in the end                 *)
(* export_generated.  Settlements and refunds go on between them.          *)
(*                                                                         *)
(* A record keeps of the latest webhook's delivery status only whether     *)
(* there is one; WebhookDelivery models the status.                        *)
(***************************************************************************)
EXTENDS PaymentIntents, FiniteSets

CONSTANTS
    Unread,         \* what a read that has not returned has found
    Kinds,          \* which of refund and adjustment are recorded
    Exports,        \* GET /v1/exports/reconciliation.{csv,json} requests
    MaxRecords      \* bound on the refunds and adjustments of one intent

ASSUME RecordAssumption ==
    Kinds \subseteq {"refund", "adjustment"} /\ MaxRecords \in Nat /\ IsFiniteSet(Creates)

VARIABLES
    recorded,       \* refund and adjustment ledger events of each intent
    notices,        \* types of the webhooks queued for them
    export,         \* exports: progress, what each read returned, the records
    generated       \* record_count of the export_generated events, by merchant

books == <<recorded, notices, export, generated>>
all   == <<vars, books>>

LedgerEventByKind == [refund |-> "refund_recorded", adjustment |-> "adjustment_recorded"]
WebhookTypeByKind == [refund |-> "refund.recorded", adjustment |-> "adjustment.recorded"]

NewExport == [pc |-> "new", merchant |-> NoKey, rows |-> <<>>, hooked |-> Unread,
              settled |-> Unread, records |-> {}, after |-> {}]

BooksInit ==
    /\ recorded = [i \in Creates |-> <<>>]
    /\ notices = [i \in Creates |-> <<>>]
    /\ export = [x \in Exports |-> NewExport]
    /\ generated = [m \in Merchants |-> <<>>]

-----------------------------------------------------------------------------
(* RefundAdjustmentService.record *)

MerchantOf(i) == create[i].req.merchant

\* The merchant and the intent are looked up first, but neither is ever deleted
\* or given away.  Nothing depends on the status of the intent.
Record(kind, m, i) ==
    /\ m \in Merchants
    /\ i \in Inserted /\ MerchantOf(i) = m
    /\ Len(recorded[i]) < MaxRecords
    /\ recorded' = LogTo(recorded, i, <<LedgerEventByKind[kind], "webhook_queued">>)
    /\ notices' = LogTo(notices, i, <<WebhookTypeByKind[kind]>>)
    /\ UNCHANGED <<vars, export, generated>>

-----------------------------------------------------------------------------
(* ReconciliationService.generateExport *)

\* The rows keep the status and the receipt id of the moment they were read.
Row(i) == [status |-> status[i], receipt |-> IF i \in receipts THEN "issued" ELSE "null"]

Done == {x \in Exports : export[x].pc = "done"}

\* requireMerchant, then the intents; without any the other reads are skipped.
ListIntents(x, m) ==
    LET mine == {i \in Inserted : MerchantOf(i) = m}
        read == IF mine = {} THEN {} ELSE Unread
    IN  /\ export[x].pc = "new"
        /\ export' = [export EXCEPT ![x] =
             [pc |-> "facts", merchant |-> m, rows |-> [i \in mine |-> Row(i)],
              hooked |-> read, settled |-> read, records |-> {}, after |-> Done]]
        /\ UNCHANGED <<vars, recorded, notices, generated>>

HasWebhook(i) == outbox[i] # <<>> \/ notices[i] # <<>>

HasPaymentPaid(i) == \E k \in DOMAIN ledger[i] : ledger[i][k] = "payment_paid"

\* Promise.all: the two reads return in either order.
ReadWebhooks(x) ==
    /\ export[x].pc = "facts" /\ export[x].hooked = Unread
    /\ export' = [export EXCEPT ![x].hooked =
                    {i \in DOMAIN export[x].rows : HasWebhook(i)}]
    /\ UNCHANGED <<vars, recorded, notices, generated>>

ReadLedger(x) ==
    /\ export[x].pc = "facts" /\ export[x].settled = Unread
    /\ export' = [export EXCEPT ![x].settled =
                    {i \in DOMAIN export[x].rows : HasPaymentPaid(i)}]
    /\ UNCHANGED <<vars, recorded, notices, generated>>

\* Faulty variant: the row is fetched again when the record is built.
RowFetchedAgain(x, i) == Row(i)

RowOf(x, i) == export[x].rows[i]

\* Faulty variant: a missing webhook is passed on as null.
WebhookStatusOrNull(x, i) == IF i \in export[x].hooked THEN "queued" ELSE "null"

WebhookStatus(x, i) == IF i \in export[x].hooked THEN "queued" ELSE "none"

\* Faulty variant: the settlement is read off the status of the row.
SettlementByStatus(x, i) ==
    IF export[x].rows[i].status = "paid" THEN "recorded" ELSE "pending"

SettlementStatus(x, i) == IF i \in export[x].settled THEN "recorded" ELSE "pending"

DeriveRecord(x, i) ==
    [intent |-> i, status |-> RowOf(x, i).status, receipt |-> RowOf(x, i).receipt,
     webhook |-> WebhookStatus(x, i), settlement |-> SettlementStatus(x, i)]

\* With both reads in, the records are built and export_generated is appended.
GenerateExport(x) ==
    LET records == {DeriveRecord(x, i) : i \in DOMAIN export[x].rows}
    IN  /\ export[x].pc = "facts"
        /\ Unread \notin {export[x].hooked, export[x].settled}
        /\ export' = [export EXCEPT ![x].records = records, ![x].pc = "done"]
        /\ generated' = [generated EXCEPT ![export[x].merchant] =
                            Append(@, Cardinality(records))]
        /\ UNCHANGED <<vars, recorded, notices>>

\* A read or the insert fails: the client gets no file and may ask again.
ExportAborts(x) ==
    /\ export[x].pc = "facts"
    /\ export' = [export EXCEPT ![x] = NewExport]
    /\ UNCHANGED <<vars, recorded, notices, generated>>

\* Exports in flight die with the process.
BooksRestart ==
    /\ Restart
    /\ export' = [x \in Exports |->
                    IF export[x].pc = "done" THEN export[x] ELSE NewExport]
    /\ UNCHANGED <<recorded, notices, generated>>

-----------------------------------------------------------------------------

ExportNext(x) ==
    \/ \E m \in Merchants : ListIntents(x, m)
    \/ ReadWebhooks(x) \/ ReadLedger(x) \/ GenerateExport(x) \/ ExportAborts(x)

PaymentNext ==
    \/ \E c \in Creates : CreateNext(c)
    \/ \E r \in Calls : StartCall(r)
    \/ \E r \in Callers : CallNext(r)
    \/ PollNextState
    \/ \E i \in Creates : NodeMove(i)

BooksNext ==
    \/ PaymentNext /\ UNCHANGED books
    \/ BooksRestart
    \/ \E kind \in Kinds, m \in Merchants, i \in Creates : Record(kind, m, i)
    \/ \E x \in Exports : ExportNext(x)

BooksSpec == Init /\ BooksInit /\ [][BooksNext]_all

-----------------------------------------------------------------------------
(* Types *)

RecordTypes ==
    [intent : Creates, status : Statuses, receipt : {"issued", "null"},
     webhook : {"queued", "none"}, settlement : {"recorded", "pending"}]

RowTypes == [status : Statuses, receipt : {"issued", "null"}]

ExportStates ==
    [pc : {"new", "facts", "done"}, merchant : Merchants \cup {NoKey},
     rows : UNION {[mine -> RowTypes] : mine \in SUBSET Creates},
     hooked : {Unread} \cup SUBSET Creates, settled : {Unread} \cup SUBSET Creates,
     records : SUBSET RecordTypes, after : SUBSET Exports]

NoticesTyped == notices \in [Creates -> Seq({"refund.recorded", "adjustment.recorded"})]

ExportsTyped == export \in [Exports -> ExportStates]

\* Every variable of the books holds a value the program can hold.
BooksTypeOK ==
    /\ recorded \in [Creates -> Seq({"refund_recorded", "adjustment_recorded", "webhook_queued"})]
    /\ NoticesTyped
    /\ generated \in [Merchants -> Seq(Nat)]
    /\ ExportsTyped

-----------------------------------------------------------------------------
(* Safety *)

Records == UNION {export[x].records : x \in Exports}

\* Although an export reads three tables at three moments, its records agree
\* with themselves in one direction: the row is read first, so whatever its
\* status implies is found by the later reads.  A paid record has its receipt,
\* its settlement and a webhook, and any record beyond `created` a webhook.
RecordsAgree ==
    \A d \in Records :
      /\ d.status = "paid" => d.receipt = "issued" /\ d.settlement = "recorded"
      /\ d.receipt = "issued" => d.settlement = "recorded"
      /\ d.webhook = "none" => d.status = "created"

\* The books never shrink: an export requested after another one was answered
\* for the same merchant lists every intent the earlier one listed, and a
\* settlement that was recorded stays recorded, even for an intent whose paid
\* status a stale refresh has overwritten in between.
BooksNeverShrink ==
    \A x \in Done : \A y \in export[x].after : export[x].merchant = export[y].merchant =>
      \A d \in export[y].records : \E f \in export[x].records :
        /\ f.intent = d.intent
        /\ d.settlement = "recorded" => f.settlement = "recorded"
        /\ d.webhook = "queued" => f.webhook = "queued"
=============================================================================
