----------------------------- MODULE Books_proofs -----------------------------
(***************************************************************************)
(* Proofs about Books: it refines PaymentIntents, so whatever is proved of *)
(* payments holds of it as well, and its exports are consistent.           *)
(***************************************************************************)
EXTENDS Books, PaymentIntents_proofs, FiniteSetTheorems

-----------------------------------------------------------------------------
(* Refinement *)

\* Every step of the books is a step of the payments, or leaves them alone.
LEMMA BooksStepIsPaymentStep == [BooksNext]_all => [Next]_vars
  <1> SUFFICES ASSUME [BooksNext]_all PROVE [Next]_vars
    OBVIOUS
  <1>1. CASE PaymentNext
    BY <1>1 DEF PaymentNext, Next
  <1>2. CASE BooksRestart
    BY <1>2 DEF BooksRestart, Next
  <1>3. CASE UNCHANGED vars
    BY <1>3
  <1>4. PaymentNext \/ BooksRestart \/ UNCHANGED vars
    BY DEF BooksNext, all, Record, ExportNext, ListIntents, ReadWebhooks, ReadLedger,
           GenerateExport, ExportAborts
  <1> QED BY <1>1, <1>2, <1>3, <1>4

\* The books only watch the payments: with refunds and exports going on, the
\* payments behave as PaymentIntents says.
THEOREM BooksRefinePayments == BooksSpec => Spec
  <1>1. Init /\ BooksInit => Init
    OBVIOUS
  <1> QED BY <1>1, BooksStepIsPaymentStep, PTL DEF BooksSpec, Spec

-----------------------------------------------------------------------------
(* Facts about payments *)

\* An intent beyond `created` has a webhook.
Announced == \A i \in Creates : status[i] \notin {Absent, "created"} => outbox[i] # <<>>

\* Appending to one log empties none.
LEMMA LogGrows ==
  ASSUME NEW T, NEW log \in [Creates -> Seq(T)], NEW i \in Creates,
         NEW events \in Seq(T), NEW j \in Creates
  PROVE  /\ log[j] # <<>> => LogTo(log, i, events)[j] # <<>>
         /\ events # <<>> => LogTo(log, i, events)[i] # <<>>
         /\ j # i => LogTo(log, i, events)[j] = log[j]
  <1>1. log[i] \in Seq(T) /\ log[j] \in Seq(T)
    OBVIOUS
  <1>2. LogTo(log, i, events)[i] = log[i] \o events
    BY DEF LogTo
  <1>3. j # i => LogTo(log, i, events)[j] = log[j]
    BY DEF LogTo
  <1>4. Len(log[i] \o events) = Len(log[i]) + Len(events)
    BY <1>1
  <1>5. \A s \in Seq(T) : s # <<>> <=> Len(s) > 0
    OBVIOUS
  <1>6. log[i] \o events \in Seq(T)
    BY <1>1
  <1>7. events # <<>> \/ log[i] # <<>> => log[i] \o events # <<>>
    BY <1>1, <1>4, <1>5, <1>6
  <1> QED BY <1>2, <1>3, <1>7

\* The batches of webhooks that the writers of an intent append.
LEMMA HookBatches ==
  /\ <<"payment_intent.created">> \in Seq(WebhookTypes)
  /\ <<"payment_intent.created">> # <<>>
  /\ <<"payment_intent.paid", "receipt.created">> \in Seq(WebhookTypes)
  /\ <<"payment_intent.paid", "receipt.created">> # <<>>
  /\ \A s \in RefreshTargets : /\ <<WebhookTypeByStatus[s]>> \in Seq(WebhookTypes)
                               /\ <<WebhookTypeByStatus[s]>> # <<>>
  <1>1. \A s \in RefreshTargets : WebhookTypeByStatus[s] \in WebhookTypes
    BY Statuses_ DEF WebhookTypeByStatus, WebhookTypes
  <1> QED BY <1>1 DEF WebhookTypes

\* Nothing that was announced, settled or receipted is forgotten.
LEMMA PaymentStep ==
  ASSUME TypeOK, Announced, [Next]_vars
  PROVE  /\ Announced'
         /\ receipts \subseteq receipts'
         /\ \A j \in Creates : outbox[j] # <<>> => outbox'[j] # <<>>
  <1>0. outbox \in [Creates -> Seq(WebhookTypes)] /\ status \in [Creates -> Statuses \cup {Absent}]
    BY DEF TypeOK
  <1>1. ASSUME NEW c \in Creates, InsertIntent(c)
        PROVE  /\ Announced' /\ receipts' = receipts /\ outbox' = outbox
    BY <1>0, <1>1 DEF InsertIntent, Announced
  <1>2. ASSUME NEW c \in Creates, Promote(c)
        PROVE  /\ Announced' /\ receipts' = receipts
               /\ \A j \in Creates : outbox[j] # <<>> => outbox'[j] # <<>>
    <2>1. /\ outbox' = LogTo(outbox, c, <<"payment_intent.created">>)
          /\ status' = [status EXCEPT ![c] = "requires_payment"]
          /\ receipts' = receipts
      BY <1>2 DEF Promote
    <2>2. \A j \in Creates : outbox[j] # <<>> => outbox'[j] # <<>>
      BY <1>0, <2>1, LogGrows, HookBatches
    <2>3. outbox'[c] # <<>>
      BY <1>0, <2>1, LogGrows, HookBatches
    <2> QED BY <1>0, <2>1, <2>2, <2>3 DEF Announced
  <1>3. ASSUME NEW r \in Callers, ApplyPaid(r) \/ ApplyNonPaid(r)
        PROVE  /\ Announced' /\ receipts \subseteq receipts'
               /\ \A j \in Creates : outbox[j] # <<>> => outbox'[j] # <<>>
    <2> DEFINE i == call[r].intent
    <2>1. i \in Creates /\ call[r].target \in RefreshTargets
      BY <1>3, ApplyTarget DEF ApplyPaid, ApplyNonPaid
    <2>2. PICK hooks \in Seq(WebhookTypes) :
            /\ hooks # <<>> /\ outbox' = LogTo(outbox, i, hooks)
            /\ \A j \in Creates \ {i} : status'[j] = status[j]
            /\ receipts \subseteq receipts'
      <3>1. CASE ApplyPaid(r)
        BY <1>0, <2>1, <3>1, HookBatches DEF ApplyPaid
      <3>2. CASE ApplyNonPaid(r)
        BY <1>0, <2>1, <3>2, HookBatches DEF ApplyNonPaid
      <3> QED BY <1>3, <3>1, <3>2
    <2>3. \A j \in Creates : outbox[j] # <<>> => outbox'[j] # <<>>
      BY <1>0, <2>1, <2>2, LogGrows
    <2>4. outbox'[i] # <<>>
      BY <1>0, <2>1, <2>2, LogGrows
    <2> QED BY <2>1, <2>2, <2>3, <2>4 DEF Announced
  <1>4. CASE UNCHANGED database
    BY <1>4 DEF database, Announced
  <1> QED BY <1>1, <1>2, <1>3, <1>4, Writers

\* An intent that create has promoted has a webhook: the transaction that moves
\* it out of `created` queues one, and no step removes a webhook.
THEOREM AnnouncedHolds == Spec => []Announced
  <1>1. Init => Announced
    BY DEF Init, Announced
  <1>2. TypeOK /\ Announced /\ [Next]_vars => Announced'
    BY PaymentStep
  <1> QED BY <1>1, <1>2, Typed, PTL DEF Spec

-----------------------------------------------------------------------------
(* Exports *)

\* What an export knows of an intent holds of the tables, and has been found by
\* those of its later reads that have returned.
RowBacked(e, i) ==
    /\ e.rows[i].status = "paid" => e.rows[i].receipt = "issued"
    /\ e.rows[i].receipt = "issued" => i \in receipts
    /\ e.rows[i].status # "created" => HasWebhook(i)
    /\ e.hooked # Unread /\ e.rows[i].status # "created" => i \in e.hooked
    /\ e.settled # Unread /\ e.rows[i].receipt = "issued" => i \in e.settled

RowsBacked == \A x \in Exports : \A i \in DOMAIN export[x].rows : RowBacked(export[x], i)

RecordAgrees(d) ==
    /\ d.status = "paid" => d.receipt = "issued" /\ d.settlement = "recorded"
    /\ d.receipt = "issued" => d.settlement = "recorded"
    /\ d.webhook = "none" => d.status = "created"

ExportsInv == NoticesTyped /\ ExportsTyped /\ RowsBacked /\ RecordsAgree

\* RecordsAgree, record by record.
LEMMA RecordsOf ==
  RecordsAgree <=> \A x \in Exports : \A d \in export[x].records : RecordAgrees(d)
  BY DEF RecordsAgree, Records, RecordAgrees

\* The invariants of the payments that the exports rely on.
PaymentFacts == TypeOK /\ SettledOnce /\ StatusOnRecord /\ Announced

\* They hold of every behaviour of the payments.
LEMMA PaymentFactsHold == Spec => []PaymentFacts
  BY Typed, SettledOnceHolds, StatusOnRecordHolds, AnnouncedHolds, PTL DEF PaymentFacts

\* Refunds and adjustments append one webhook, nobody else touches theirs.
LEMMA NoticesStep ==
  ASSUME NoticesTyped, [BooksNext]_all
  PROVE  NoticesTyped' /\ \A i \in Creates : notices[i] # <<>> => notices'[i] # <<>>
  <1>1. CASE UNCHANGED notices
    BY <1>1 DEF NoticesTyped
  <1>2. ASSUME NEW kind \in Kinds, NEW m \in Merchants, NEW j \in Creates, Record(kind, m, j)
        PROVE  NoticesTyped' /\ \A i \in Creates : notices[i] # <<>> => notices'[i] # <<>>
    <2> DEFINE T == {"refund.recorded", "adjustment.recorded"}
               new == <<WebhookTypeByKind[kind]>>
    <2>1. WebhookTypeByKind[kind] \in T
      BY RecordAssumption DEF WebhookTypeByKind
    <2>2. new \in Seq(T)
      BY <2>1
    <2>3. notices' = LogTo(notices, j, new)
      BY <1>2 DEF Record
    <2>4. \A i \in Creates : notices[i] # <<>> => notices'[i] # <<>>
      BY <2>2, <2>3, LogGrows DEF NoticesTyped
    <2>5. NoticesTyped'
      BY <2>2, <2>3, LogToType DEF NoticesTyped
    <2> QED BY <2>4, <2>5
  <1> QED BY <1>1, <1>2 DEF BooksNext, all, books, BooksRestart, ExportNext, ListIntents,
              ReadWebhooks, ReadLedger, GenerateExport, ExportAborts

\* Whatever happens to the payments, a backed row stays backed.
LEMMA RowsStayBacked ==
  ASSUME PaymentFacts, NoticesTyped, [BooksNext]_all, NEW x \in Exports,
         export'[x] = export[x], NEW i \in DOMAIN export[x].rows, i \in Creates,
         RowBacked(export[x], i)
  PROVE  RowBacked(export[x], i)'
  <1>1. receipts \subseteq receipts' /\ (outbox[i] # <<>> => outbox'[i] # <<>>)
    BY PaymentStep, BooksStepIsPaymentStep DEF PaymentFacts
  <1>2. notices[i] # <<>> => notices'[i] # <<>>
    BY NoticesStep
  <1> QED BY <1>1, <1>2 DEF RowBacked, HasWebhook

\* An export that is not running holds nothing that could be wrong.
LEMMA NewExportFits ==
  /\ NewExport \in ExportStates
  /\ DOMAIN NewExport.rows = {} /\ NewExport.records = {}
  <1>1. <<>> \in [{} -> RowTypes] /\ DOMAIN <<>> = {}
    OBVIOUS
  <1>2. {} \in SUBSET Creates
    OBVIOUS
  <1>3. <<>> \in UNION {[mine -> RowTypes] : mine \in SUBSET Creates}
    BY <1>1, <1>2
  <1> QED BY <1>1, <1>3 DEF NewExport, ExportStates

\* A step that changes at most export x, and leaves it fit, keeps the invariant.
LEMMA ExportStep ==
  ASSUME PaymentFacts, ExportsInv, [BooksNext]_all, NEW x \in Exports, NEW e \in ExportStates,
         export' = [export EXCEPT ![x] = e],
         \A i \in DOMAIN e.rows : RowBacked(e, i)',
         \A d \in e.records : RecordAgrees(d)
  PROVE  ExportsInv'
  <1>1. export \in [Exports -> ExportStates]
    BY DEF ExportsInv, ExportsTyped
  <1>2. ExportsTyped' /\ export'[x] = e
    BY <1>1 DEF ExportsTyped
  <1>3. \A y \in Exports : \A i \in DOMAIN export'[y].rows : RowBacked(export[y], i)'
    <2> SUFFICES ASSUME NEW y \in Exports, NEW i \in DOMAIN export'[y].rows
                 PROVE  RowBacked(export[y], i)'
      OBVIOUS
    <2>1. CASE y = x
      BY <1>2, <2>1 DEF RowBacked
    <2>2. CASE y # x
      <3>1. export'[y] = export[y] /\ export[y] \in ExportStates
        BY <1>1, <2>2
      <3>2. DOMAIN export[y].rows \subseteq Creates
        BY <3>1 DEF ExportStates
      <3> QED BY <3>1, <3>2, RowsStayBacked DEF ExportsInv, RowsBacked
    <2> QED BY <2>1, <2>2
  <1>4. \A y \in Exports : \A d \in export'[y].records : RecordAgrees(d)
    BY <1>1, <1>2, RecordsOf DEF ExportsInv
  <1>5. RecordsAgree'
    BY <1>4 DEF RecordsAgree, Records, RecordAgrees
  <1>6. NoticesTyped'
    BY NoticesStep DEF ExportsInv
  <1> QED BY <1>2, <1>3, <1>5, <1>6 DEF ExportsInv, RowsBacked

\* What the tables say of an intent agrees at every moment.
LEMMA TablesAgree ==
  ASSUME PaymentFacts, NEW i \in Creates
  PROVE  /\ status[i] = "paid" => i \in receipts
         /\ i \in receipts <=> HasPaymentPaid(i)
         /\ status[i] \notin {Absent, "created"} => HasWebhook(i)
  <1>1. status[i] = "paid" => i \in receipts
    BY Statuses_ DEF PaymentFacts, StatusOnRecord
  <1>2. i \in receipts <=> HasPaymentPaid(i)
    BY DEF PaymentFacts, SettledOnce, Occurs, HasPaymentPaid
  <1>3. status[i] \notin {Absent, "created"} => HasWebhook(i)
    BY DEF PaymentFacts, Announced, HasWebhook
  <1> QED BY <1>1, <1>2, <1>3

\* A list read of the intents starts an export whose rows the tables back.
LEMMA ListStep ==
  ASSUME PaymentFacts, ExportsInv, NEW x \in Exports, NEW m \in Merchants, ListIntents(x, m)
  PROVE  ExportsInv'
  <1> DEFINE mine == {i \in Inserted : MerchantOf(i) = m}
             rows == [i \in mine |-> Row(i)]
             read == IF mine = {} THEN {} ELSE Unread
  <1>1. PICK e : e = [pc |-> "facts", merchant |-> m, rows |-> rows, hooked |-> read,
                      settled |-> read, records |-> {}, after |-> Done]
    OBVIOUS
  <1>2. export' = [export EXCEPT ![x] = e] /\ UNCHANGED vars
    BY <1>1 DEF ListIntents
  <1>3. \A i \in mine : i \in Creates /\ status[i] \in Statuses
    BY DEF Inserted, PaymentFacts, TypeOK
  <1>4. mine \in SUBSET Creates
    BY <1>3
  <1>5. rows \in [mine -> RowTypes]
    BY <1>3 DEF Row, RowTypes
  <1>6. rows \in UNION {[dom -> RowTypes] : dom \in SUBSET Creates}
    BY <1>4, <1>5
  <1>7. read \in {Unread} \cup SUBSET Creates /\ Done \in SUBSET Exports
    BY DEF Done
  <1>8. e \in ExportStates
    BY <1>1, <1>6, <1>7 DEF ExportStates
  <1>9. ASSUME NEW i \in DOMAIN e.rows PROVE RowBacked(e, i)'
    <2>1. i \in mine /\ e.rows[i] = Row(i) /\ e.hooked = Unread /\ e.settled = Unread
      BY <1>1, <1>9
    <2>2. i \in Creates /\ status[i] # Absent
      BY <1>3, <2>1, Statuses_
    <2>3. /\ status[i] = "paid" => i \in receipts'
          /\ status[i] # "created" => HasWebhook(i)'
      BY <1>2, <2>2, TablesAgree DEF vars, database, HasWebhook, ListIntents
    <2>4. e.rows[i].status = status[i] /\ (e.rows[i].receipt = "issued" <=> i \in receipts)
      BY <2>1 DEF Row
    <2>5. receipts' = receipts
      BY <1>2 DEF vars, database
    <2> QED BY <2>1, <2>3, <2>4, <2>5 DEF RowBacked
  <1>10. e.records = {}
    BY <1>1
  <1>11. [BooksNext]_all
    BY DEF BooksNext, ExportNext
  <1> QED BY <1>2, <1>8, <1>9, <1>10, <1>11, ExportStep

\* The reads of webhooks and ledger find what backs the rows already held.
LEMMA ReadStep ==
  ASSUME PaymentFacts, ExportsInv, NEW x \in Exports, ReadWebhooks(x) \/ ReadLedger(x)
  PROVE  ExportsInv'
  <1> DEFINE o == export[x]
             hooks == {i \in DOMAIN o.rows : HasWebhook(i)}
             paid == {i \in DOMAIN o.rows : HasPaymentPaid(i)}
  <1>1. PICK e : e = IF ReadWebhooks(x) THEN [o EXCEPT !.hooked = hooks]
                                        ELSE [o EXCEPT !.settled = paid]
    OBVIOUS
  <1>2. export' = [export EXCEPT ![x] = e] /\ UNCHANGED <<vars, notices>>
    BY <1>1 DEF ReadWebhooks, ReadLedger
  <1>3. o \in ExportStates
    BY DEF ExportsInv, ExportsTyped
  <1>4. DOMAIN o.rows \subseteq Creates
    BY <1>3 DEF ExportStates
  <1>5. e \in ExportStates /\ e.rows = o.rows /\ e.records = o.records
    BY <1>1, <1>3, <1>4 DEF ExportStates
  <1>6. ASSUME NEW i \in DOMAIN e.rows PROVE RowBacked(e, i)'
    <2>1. i \in DOMAIN o.rows /\ i \in Creates /\ RowBacked(o, i)
      BY <1>4, <1>5, <1>6 DEF ExportsInv, RowsBacked
    <2>2. /\ e.hooked # Unread /\ o.rows[i].status # "created" => i \in e.hooked
          /\ e.settled # Unread /\ o.rows[i].receipt = "issued" => i \in e.settled
      <3>1. CASE ReadWebhooks(x)
        BY <1>1, <1>3, <2>1, <3>1 DEF RowBacked, ExportStates
      <3>2. CASE ~ReadWebhooks(x)
        <4>1. o.rows[i].receipt = "issued" => HasPaymentPaid(i)
          BY <2>1, TablesAgree DEF RowBacked
        <4>2. e = [o EXCEPT !.settled = paid]
          BY <1>1, <3>2
        <4>3. e.settled = paid /\ e.hooked = o.hooked
          BY <1>3, <4>2 DEF ExportStates
        <4> QED BY <2>1, <4>1, <4>3 DEF RowBacked
      <3> QED BY <3>1, <3>2
    <2> QED BY <1>2, <1>5, <2>1, <2>2 DEF RowBacked, HasWebhook, vars, database
  <1>7. \A d \in e.records : RecordAgrees(d)
    BY <1>5, RecordsOf DEF ExportsInv
  <1>8. [BooksNext]_all
    BY DEF BooksNext, ExportNext
  <1> QED BY <1>2, <1>5, <1>6, <1>7, <1>8, ExportStep

\* The records joined from three backed reads agree.
LEMMA GenerateStep ==
  ASSUME PaymentFacts, ExportsInv, NEW x \in Exports, GenerateExport(x)
  PROVE  ExportsInv'
  <1> DEFINE o == export[x]
             records == {DeriveRecord(x, i) : i \in DOMAIN o.rows}
  <1>1. PICK e : e = [o EXCEPT !.records = records, !.pc = "done"]
    OBVIOUS
  <1>2. export' = [export EXCEPT ![x] = e] /\ UNCHANGED <<vars, notices>>
    BY <1>1 DEF GenerateExport
  <1>3. o \in ExportStates /\ o.hooked # Unread /\ o.settled # Unread
    BY DEF ExportsInv, ExportsTyped, GenerateExport
  <1>4. \A i \in DOMAIN o.rows : i \in Creates /\ o.rows[i] \in RowTypes
    BY <1>3 DEF ExportStates
  <1>5. ASSUME NEW i \in DOMAIN o.rows
        PROVE  DeriveRecord(x, i) \in RecordTypes /\ RecordAgrees(DeriveRecord(x, i))
    <2>1. RowBacked(o, i) /\ i \in Creates /\ o.rows[i] \in RowTypes
      BY <1>4, <1>5 DEF ExportsInv, RowsBacked
    <2>2. /\ DeriveRecord(x, i).status = o.rows[i].status
          /\ DeriveRecord(x, i).receipt = o.rows[i].receipt
          /\ DeriveRecord(x, i).webhook = "none" => i \notin o.hooked
          /\ i \in o.settled => DeriveRecord(x, i).settlement = "recorded"
      BY DEF DeriveRecord, RowOf, WebhookStatus, SettlementStatus
    <2>3. RecordAgrees(DeriveRecord(x, i))
      BY <1>3, <2>1, <2>2 DEF RowBacked, RecordAgrees
    <2>4. DeriveRecord(x, i) \in RecordTypes
      BY <2>1 DEF DeriveRecord, RowOf, WebhookStatus, SettlementStatus, RecordTypes, RowTypes
    <2> QED BY <2>3, <2>4
  <1>6. records \in SUBSET RecordTypes
    BY <1>5
  <1>7. /\ e \in ExportStates /\ e.rows = o.rows /\ e.records = records
        /\ e.hooked = o.hooked /\ e.settled = o.settled
    BY <1>1, <1>3, <1>6 DEF ExportStates
  <1>8. ASSUME NEW i \in DOMAIN e.rows PROVE RowBacked(e, i)'
    <2>1. RowBacked(o, i)
      BY <1>7, <1>8 DEF ExportsInv, RowsBacked
    <2> QED BY <1>2, <1>7, <2>1 DEF RowBacked, HasWebhook, vars, database
  <1>9. \A d \in e.records : RecordAgrees(d)
    BY <1>5, <1>7
  <1>10. [BooksNext]_all
    BY DEF BooksNext, ExportNext
  <1> QED BY <1>2, <1>7, <1>8, <1>9, <1>10, ExportStep

\* Forgetting an export leaves nothing to disagree.
LEMMA ForgetStep ==
  ASSUME PaymentFacts, ExportsInv, [BooksNext]_all, NEW x \in Exports, ExportAborts(x)
  PROVE  ExportsInv'
  <1>1. PICK e : e = NewExport
    OBVIOUS
  <1>2. export' = [export EXCEPT ![x] = e]
    BY <1>1 DEF ExportAborts
  <1>3. e \in ExportStates /\ DOMAIN e.rows = {} /\ e.records = {}
    BY <1>1, NewExportFits
  <1> QED BY <1>2, <1>3, ExportStep

\* A step that leaves every export as it is, or forgets it.
LEMMA OthersStep ==
  ASSUME PaymentFacts, ExportsInv, [BooksNext]_all,
         \A x \in Exports : export'[x] \in {export[x], NewExport},
         export' \in [Exports -> ExportStates]
  PROVE  ExportsInv'
  <1>1. \A x \in Exports : \A i \in DOMAIN export'[x].rows : RowBacked(export[x], i)'
    <2> SUFFICES ASSUME NEW x \in Exports, NEW i \in DOMAIN export'[x].rows
                 PROVE  RowBacked(export[x], i)'
      OBVIOUS
    <2>1. export'[x] = export[x]
      BY NewExportFits
    <2>2. export[x] \in ExportStates
      BY DEF ExportsInv, ExportsTyped
    <2>3. i \in Creates
      BY <2>1, <2>2 DEF ExportStates
    <2> QED BY <2>1, <2>3, RowsStayBacked DEF ExportsInv, RowsBacked
  <1>2. RecordsAgree'
    <2>1. \A x \in Exports : \A d \in export'[x].records : RecordAgrees(d)
      BY RecordsOf, NewExportFits DEF ExportsInv
    <2> QED BY <2>1 DEF RecordsAgree, Records, RecordAgrees
  <1>3. NoticesTyped'
    BY NoticesStep DEF ExportsInv
  <1> QED BY <1>1, <1>2, <1>3 DEF ExportsInv, ExportsTyped, RowsBacked

\* Every step keeps the exports well typed, backed and in agreement.
LEMMA ExportsInvStep ==
  ASSUME PaymentFacts, ExportsInv, [BooksNext]_all PROVE ExportsInv'
  <1>0. export \in [Exports -> ExportStates]
    BY DEF ExportsInv, ExportsTyped
  <1>1. CASE UNCHANGED export
    BY <1>0, <1>1, OthersStep
  <1>2. CASE BooksRestart
    <2>1. /\ \A x \in Exports : export'[x] \in {export[x], NewExport}
          /\ export' \in [Exports -> ExportStates]
      BY <1>0, <1>2, NewExportFits DEF BooksRestart
    <2> QED BY <2>1, OthersStep
  <1>3. ASSUME NEW x \in Exports, ExportNext(x) PROVE ExportsInv'
    BY <1>3, ListStep, ReadStep, GenerateStep, ForgetStep DEF ExportNext
  <1> QED BY <1>1, <1>2, <1>3 DEF BooksNext, all, books, Record

\* Nothing is exported at first.
LEMMA ExportsInvInit == BooksInit => ExportsInv
  <1> SUFFICES ASSUME BooksInit PROVE ExportsInv
    OBVIOUS
  <1>1. export \in [Exports -> ExportStates] /\ \A x \in Exports : export[x] = NewExport
    BY NewExportFits DEF BooksInit
  <1>2. \A x \in Exports : DOMAIN export[x].rows = {} /\ export[x].records = {}
    BY <1>1, NewExportFits
  <1>3. notices \in [Creates -> Seq({"refund.recorded", "adjustment.recorded"})]
    BY DEF BooksInit
  <1> QED BY <1>1, <1>2, <1>3 DEF ExportsInv, ExportsTyped, NoticesTyped, RowsBacked,
              RecordsAgree, Records

\* However settlements, refunds and restarts fall between the three reads of an
\* export, a record marked paid has its receipt, its settlement and a webhook.
THEOREM RecordsAgreeHolds == BooksSpec => []RecordsAgree
  <1>1. BooksSpec => []PaymentFacts
    BY BooksRefinePayments, PaymentFactsHold, PTL
  <1>2. PaymentFacts /\ ExportsInv /\ [BooksNext]_all => ExportsInv'
    BY ExportsInvStep
  <1>3. ExportsInv => RecordsAgree
    BY DEF ExportsInv
  <1> QED BY <1>1, <1>2, <1>3, ExportsInvInit, PTL DEF BooksSpec

-----------------------------------------------------------------------------
(* One export after another *)

\* A record knows what a row and the reads of its export said of its intent.
Kept(d, e) ==
    /\ d.intent \in DOMAIN e.rows
    /\ d.settlement = "recorded" /\ e.settled # Unread => d.intent \in e.settled
    /\ d.webhook = "queued" /\ e.hooked # Unread => d.intent \in e.hooked

\* What an export has read is in the tables, and its records say it.
Fits(e) ==
    /\ \A i \in DOMAIN e.rows : i \in Inserted /\ MerchantOf(i) = e.merchant
    /\ e.hooked # Unread => \A i \in e.hooked : i \in DOMAIN e.rows /\ HasWebhook(i)
    /\ e.settled # Unread => \A i \in e.settled : i \in receipts
    /\ e.records # {} => e.hooked # Unread /\ e.settled # Unread
    /\ \A d \in e.records : Kept(d, e)
    /\ e.pc = "done" =>
          /\ e.hooked # Unread /\ e.settled # Unread
          /\ \A i \in DOMAIN e.rows : \E f \in e.records :
                /\ f.intent = i
                /\ i \in e.settled => f.settlement = "recorded"
                /\ i \in e.hooked => f.webhook = "queued"

\* An export finds what an export answered before it has found.
Follows(e, o) ==
    o.pc = "done" /\ (o.merchant = e.merchant => \A d \in o.records : Kept(d, e))

Sequel ==
    \A x \in Exports : Fits(export[x]) /\ \A y \in export[x].after : Follows(export[x], export[y])

\* It implies that the books never shrink.
LEMMA SequelSuffices == Sequel => BooksNeverShrink
  <1> SUFFICES ASSUME Sequel, NEW x \in Done, NEW y \in export[x].after,
                      export[x].merchant = export[y].merchant, NEW d \in export[y].records
               PROVE  \E f \in export[x].records :
                        /\ f.intent = d.intent
                        /\ d.settlement = "recorded" => f.settlement = "recorded"
                        /\ d.webhook = "queued" => f.webhook = "queued"
    BY DEF BooksNeverShrink
  <1>1. Fits(export[x]) /\ export[x].pc = "done" /\ Kept(d, export[x])
    BY DEF Sequel, Done, Follows
  <1> QED BY <1>1 DEF Fits, Kept

\* What fits goes on fitting while the tables grow.
LEMMA FitsStays ==
  ASSUME PaymentFacts, StagesAgree, NoticesTyped, [BooksNext]_all, NEW e, Fits(e) PROVE Fits(e)'
  <1>1. [Next]_vars /\ TypeOK
    BY BooksStepIsPaymentStep DEF PaymentFacts
  <1>2. receipts \subseteq receipts' /\ \A j \in Creates : outbox[j] # <<>> => outbox'[j] # <<>>
    BY <1>1, PaymentStep DEF PaymentFacts
  <1>3. \A j \in Creates : notices[j] # <<>> => notices'[j] # <<>>
    BY NoticesStep
  <1>4. Inserted \subseteq Inserted' /\ \A j \in Inserted : MerchantOf(j)' = MerchantOf(j)
    BY <1>1, InsertedGrows, RequestStays DEF MerchantOf
  <1>5. \A j \in Creates : HasWebhook(j) => HasWebhook(j)'
    BY <1>2, <1>3 DEF HasWebhook
  <1>6. \A i \in DOMAIN e.rows : i \in Inserted' /\ MerchantOf(i)' = e.merchant
    BY <1>4 DEF Fits
  <1> QED BY <1>2, <1>5, <1>6 DEF Fits, Inserted

\* A new export fits.
LEMMA NewFits == Fits(NewExport)
  <1>1. NewExport.hooked = Unread /\ NewExport.settled = Unread /\ NewExport.pc = "new"
    BY DEF NewExport
  <1> QED BY <1>1, NewExportFits DEF Fits

\* The exports in flight come to fit, those that are answered do not change.
LEMMA SequelStep ==
  ASSUME PaymentFacts, StagesAgree, NoticesTyped, Sequel, [BooksNext]_all,
         \A x \in Exports :
            \/ export'[x] = export[x]
            \/ /\ export[x].pc # "done"
               /\ Fits(export'[x])
               /\ \A y \in export'[x].after : y \in Exports /\ Follows(export'[x], export[y]),
         \A x \in Exports : export[x].after \subseteq Exports
  PROVE  Sequel'
  <1> SUFFICES ASSUME NEW x \in Exports
               PROVE  Fits(export[x])' /\ \A y \in export'[x].after : Follows(export'[x], export'[y])
    BY DEF Sequel, Follows, Kept
  <1>1. PICK e : e = export'[x]
    OBVIOUS
  <1>2. Fits(e) /\ \A y \in e.after : y \in Exports /\ Follows(e, export[y])
    BY <1>1 DEF Sequel
  <1>3. Fits(e)'
    BY <1>2, FitsStays
  <1>4. Fits(export[x])'
    BY <1>1, <1>3 DEF Fits, Kept
  <1>5. \A y \in e.after : export'[y] = export[y]
    BY <1>2 DEF Follows
  <1> QED BY <1>1, <1>2, <1>4, <1>5

\* Listing the intents finds those that earlier exports found.
LEMMA ListFollows ==
  ASSUME Sequel, ExportsTyped, NEW x \in Exports, NEW m \in Merchants, ListIntents(x, m)
  PROVE  /\ Fits(export'[x])
         /\ \A y \in export'[x].after : y \in Exports /\ Follows(export'[x], export[y])
  <1> DEFINE mine == {i \in Inserted : MerchantOf(i) = m}
             rows == [i \in mine |-> Row(i)]
             read == IF mine = {} THEN {} ELSE Unread
  <1>1. PICK e : e = [pc |-> "facts", merchant |-> m, rows |-> rows, hooked |-> read,
                      settled |-> read, records |-> {}, after |-> Done]
    OBVIOUS
  <1>2. export'[x] = e
    BY <1>1 DEF ListIntents, ExportsTyped
  <1>3. DOMAIN e.rows = mine /\ e.merchant = m /\ e.records = {} /\ e.pc = "facts" /\ e.after = Done
    BY <1>1
  <1>4. e.hooked = read /\ e.settled = read
    BY <1>1
  <1>5. Fits(e)
    BY <1>3, <1>4 DEF Fits
  <1>6. ASSUME NEW y \in Done PROVE y \in Exports /\ Follows(e, export[y])
    <2>1. y \in Exports /\ export[y].pc = "done" /\ Fits(export[y])
      BY DEF Done, Sequel
    <2>2. ASSUME export[y].merchant = m, NEW d \in export[y].records PROVE Kept(d, e)
      <3>1. d.intent \in mine
        BY <2>1, <2>2 DEF Fits, Kept
      <3>2. e.hooked = Unread /\ e.settled = Unread
        BY <1>4, <3>1
      <3> QED BY <1>3, <3>1, <3>2 DEF Kept
    <2> QED BY <1>3, <2>1, <2>2 DEF Follows
  <1> QED BY <1>2, <1>3, <1>5, <1>6

\* So do the reads of the webhooks and of the ledger,
LEMMA ReadFollows ==
  ASSUME PaymentFacts, Sequel, ExportsTyped, NEW x \in Exports, ReadWebhooks(x) \/ ReadLedger(x)
  PROVE  /\ Fits(export'[x])
         /\ \A y \in export'[x].after : y \in Exports /\ Follows(export'[x], export[y])
  <1> DEFINE o == export[x]
             hooks == {i \in DOMAIN o.rows : HasWebhook(i)}
             paid == {i \in DOMAIN o.rows : HasPaymentPaid(i)}
  <1>1. PICK e : e = IF ReadWebhooks(x) THEN [o EXCEPT !.hooked = hooks]
                                        ELSE [o EXCEPT !.settled = paid]
    OBVIOUS
  <1>2. export'[x] = e
    BY <1>1 DEF ReadWebhooks, ReadLedger, ExportsTyped
  <1>3. o \in ExportStates /\ Fits(o) /\ o.pc = "facts" /\ o.after \subseteq Exports
    BY DEF ExportsTyped, ExportStates, Sequel, ReadWebhooks, ReadLedger
  <1>4. o.records = {}
    BY <1>3 DEF Fits, ReadWebhooks, ReadLedger
  <1>5. /\ e.rows = o.rows /\ e.records = o.records /\ e.merchant = o.merchant
        /\ e.pc = o.pc /\ e.after = o.after
    BY <1>1, <1>3 DEF ExportStates
  <1>6. \/ e.hooked = hooks /\ e.settled = o.settled
        \/ e.hooked = o.hooked /\ e.settled = paid
    BY <1>1, <1>3 DEF ExportStates
  <1>7. \A i \in DOMAIN o.rows : i \in Creates /\ (HasPaymentPaid(i) <=> i \in receipts)
    BY <1>3, TablesAgree DEF Fits, Inserted
  <1>8. Fits(e)
    BY <1>3, <1>4, <1>5, <1>6, <1>7 DEF Fits
  <1>9. ASSUME NEW y \in e.after PROVE y \in Exports /\ Follows(e, export[y])
    <2>1. y \in Exports /\ Follows(o, export[y]) /\ Fits(export[y]) /\ export[y].pc = "done"
      BY <1>3, <1>5, <1>9 DEF Sequel, Follows
    <2>2. ASSUME export[y].merchant = o.merchant, NEW d \in export[y].records PROVE Kept(d, e)
      <3>1. Kept(d, o) /\ Kept(d, export[y]) /\ export[y].hooked # Unread /\ export[y].settled # Unread
        BY <2>1, <2>2 DEF Follows, Fits
      <3>2. d.webhook = "queued" => HasWebhook(d.intent)
        BY <2>1, <3>1 DEF Kept, Fits
      <3>3. d.settlement = "recorded" => d.intent \in receipts
        BY <2>1, <3>1 DEF Kept, Fits
      <3> QED BY <1>5, <1>6, <1>7, <3>1, <3>2, <3>3 DEF Kept
    <2> QED BY <1>5, <2>1, <2>2 DEF Follows
  <1> QED BY <1>2, <1>8, <1>9

\* and the records say so.
LEMMA GenerateFollows ==
  ASSUME Sequel, ExportsTyped, NEW x \in Exports, GenerateExport(x)
  PROVE  /\ Fits(export'[x])
         /\ \A y \in export'[x].after : y \in Exports /\ Follows(export'[x], export[y])
  <1> DEFINE o == export[x]
             records == {DeriveRecord(x, i) : i \in DOMAIN o.rows}
  <1>1. PICK e : e = [o EXCEPT !.records = records, !.pc = "done"]
    OBVIOUS
  <1>2. export'[x] = e
    BY <1>1 DEF GenerateExport, ExportsTyped
  <1>3. o \in ExportStates /\ Fits(o) /\ o.hooked # Unread /\ o.settled # Unread /\ o.after \subseteq Exports
    BY DEF ExportsTyped, ExportStates, Sequel, GenerateExport
  <1>4. /\ e.rows = o.rows /\ e.records = records /\ e.merchant = o.merchant /\ e.after = o.after
        /\ e.hooked = o.hooked /\ e.settled = o.settled /\ e.pc = "done"
    BY <1>1, <1>3 DEF ExportStates
  <1>5. ASSUME NEW i \in DOMAIN o.rows
        PROVE  /\ DeriveRecord(x, i).intent = i
               /\ DeriveRecord(x, i).settlement = "recorded" <=> i \in o.settled
               /\ DeriveRecord(x, i).webhook = "queued" <=> i \in o.hooked
    BY DEF DeriveRecord, WebhookStatus, SettlementStatus
  <1>6. \A d \in e.records : Kept(d, e)
    BY <1>4, <1>5 DEF Kept
  <1>7. \A i \in DOMAIN e.rows : \E f \in e.records :
          /\ f.intent = i
          /\ i \in e.settled => f.settlement = "recorded"
          /\ i \in e.hooked => f.webhook = "queued"
    BY <1>4, <1>5
  <1>8. Fits(e)
    BY <1>3, <1>4, <1>6, <1>7 DEF Fits
  <1>9. \A y \in e.after : y \in Exports /\ Follows(e, export[y])
    BY <1>3, <1>4 DEF Sequel, Follows, Kept
  <1> QED BY <1>2, <1>8, <1>9

\* Every step of an export, of a restart or of anybody else.
LEMMA SequelInductive ==
  ASSUME PaymentFacts, StagesAgree, ExportsInv, Sequel, [BooksNext]_all PROVE Sequel'
  <1>0. /\ ExportsTyped /\ NoticesTyped
        /\ \A x \in Exports : export[x].after \subseteq Exports
    BY DEF ExportsInv, ExportsTyped, ExportStates
  <1>1. CASE UNCHANGED export
    BY <1>0, <1>1, SequelStep
  <1>2. CASE BooksRestart
    <2>1. \A x \in Exports :
            (export'[x] = export[x]) \/ (export[x].pc # "done" /\ export'[x] = NewExport)
      BY <1>0, <1>2 DEF BooksRestart
    <2>2. NewExport.after = {}
      BY DEF NewExport
    <2> QED BY <1>0, <2>1, <2>2, NewFits, SequelStep
  <1>3. ASSUME NEW x \in Exports, ExportNext(x) PROVE Sequel'
    <2>1. /\ export[x].pc # "done"
          /\ \A z \in Exports \ {x} : export'[z] = export[z]
      BY <1>0, <1>3 DEF ExportsTyped, ExportNext, ListIntents, ReadWebhooks, ReadLedger, GenerateExport,
                        ExportAborts
    <2>2. CASE ExportAborts(x)
      <3>1. export'[x] = NewExport /\ NewExport.after = {}
        BY <1>0, <2>2 DEF ExportsTyped, ExportAborts, NewExport
      <3> QED BY <1>0, <2>1, <3>1, NewFits, SequelStep
    <2>3. CASE ~ExportAborts(x)
      <3>1. /\ Fits(export'[x])
            /\ \A y \in export'[x].after : y \in Exports /\ Follows(export'[x], export[y])
        BY <1>0, <1>3, <2>3, ListFollows, ReadFollows, GenerateFollows DEF ExportNext
      <3> QED BY <1>0, <2>1, <3>1, SequelStep
    <2> QED BY <2>2, <2>3
  <1> QED BY <1>1, <1>2, <1>3 DEF BooksNext, all, books, Record

\* An export requested after another one was answered lists every intent that one
\* listed, and each settlement and webhook it recorded.
THEOREM BooksNeverShrinkHolds == BooksSpec => []BooksNeverShrink
  <1>1. BooksSpec => [](PaymentFacts /\ StagesAgree)
    BY BooksRefinePayments, PaymentFactsHold, Typed, PTL
  <1>2. PaymentFacts /\ ExportsInv /\ [BooksNext]_all => ExportsInv'
    BY ExportsInvStep
  <1>3. BooksInit => Sequel
    <2> SUFFICES ASSUME BooksInit, NEW x \in Exports
                 PROVE  Fits(export[x]) /\ \A y \in export[x].after : Follows(export[x], export[y])
      BY DEF Sequel
    <2>1. export[x] = NewExport /\ NewExport.after = {}
      BY DEF BooksInit, NewExport
    <2> QED BY <2>1, NewFits
  <1>4. PaymentFacts /\ StagesAgree /\ ExportsInv /\ Sequel /\ [BooksNext]_all => Sequel'
    BY SequelInductive
  <1> QED BY <1>1, <1>2, <1>3, <1>4, ExportsInvInit, SequelSuffices, PTL DEF BooksSpec

-----------------------------------------------------------------------------
(* Types *)

RecordEvents == {"refund_recorded", "adjustment_recorded", "webhook_queued"}

CountsTyped == /\ recorded \in [Creates -> Seq(RecordEvents)]
               /\ generated \in [Merchants -> Seq(Nat)]

\* An export counts its records, of which there are finitely many.
LEMMA CountIsNat ==
  ASSUME ExportsTyped, NEW x \in Exports
  PROVE  Cardinality({DeriveRecord(x, i) : i \in DOMAIN export[x].rows}) \in Nat
  <1>1. export[x] \in ExportStates
    BY DEF ExportsTyped
  <1>2. DOMAIN export[x].rows \subseteq Creates
    BY <1>1 DEF ExportStates
  <1>3. IsFiniteSet(DOMAIN export[x].rows)
    BY <1>2, RecordAssumption, FS_Subset
  <1>4. PICK f : f = [i \in DOMAIN export[x].rows |-> DeriveRecord(x, i)]
    OBVIOUS
  <1>5. {f[i] : i \in DOMAIN export[x].rows} = {DeriveRecord(x, i) : i \in DOMAIN export[x].rows}
    BY <1>4
  <1>6. PICK T : T = {f[i] : i \in DOMAIN export[x].rows}
    OBVIOUS
  <1>7. f \in Surjection(DOMAIN export[x].rows, T)
    BY <1>4, <1>6 DEF Surjection
  <1>8. IsFiniteSet(T)
    BY <1>3, <1>7, FS_Surjection
  <1> QED BY <1>5, <1>6, <1>8, FS_CardinalityType

\* Refunds append two ledger events, exports a count.
LEMMA CountsStep ==
  ASSUME CountsTyped, ExportsTyped, [BooksNext]_all PROVE CountsTyped'
  <1>1. CASE UNCHANGED <<recorded, generated>>
    BY <1>1 DEF CountsTyped
  <1>2. ASSUME NEW kind \in Kinds, NEW m \in Merchants, NEW i \in Creates, Record(kind, m, i)
        PROVE  CountsTyped'
    <2>1. LedgerEventByKind[kind] \in RecordEvents /\ "webhook_queued" \in RecordEvents
      BY RecordAssumption DEF LedgerEventByKind, RecordEvents
    <2>2. <<LedgerEventByKind[kind], "webhook_queued">> \in Seq(RecordEvents)
      BY <2>1
    <2>3. recorded' \in [Creates -> Seq(RecordEvents)]
      BY <1>2, <2>2, LogToType DEF CountsTyped, Record
    <2> QED BY <1>2, <2>3 DEF CountsTyped, Record
  <1>3. ASSUME NEW x \in Exports, GenerateExport(x) PROVE CountsTyped'
    <2>1. PICK n \in Nat : n = Cardinality({DeriveRecord(x, i) : i \in DOMAIN export[x].rows})
      BY CountIsNat
    <2>2. generated' = [generated EXCEPT ![export[x].merchant] = Append(@, n)]
      BY <1>3, <2>1 DEF GenerateExport
    <2>3. \A m \in Merchants : Append(generated[m], n) \in Seq(Nat)
      BY DEF CountsTyped
    <2>4. generated' \in [Merchants -> Seq(Nat)]
      BY <2>2, <2>3 DEF CountsTyped
    <2> QED BY <1>3, <2>4 DEF CountsTyped, GenerateExport
  <1> QED BY <1>1, <1>2, <1>3 DEF BooksNext, all, books, BooksRestart, ExportNext, ListIntents,
              ReadWebhooks, ReadLedger, ExportAborts

\* Whatever is paid, refunded, exported or lost in a crash, the books hold
\* values the program can hold.
THEOREM BooksTypeOKHolds == BooksSpec => []BooksTypeOK
  <1>1. BooksSpec => []PaymentFacts
    BY BooksRefinePayments, PaymentFactsHold, PTL
  <1>2. PaymentFacts /\ ExportsInv /\ [BooksNext]_all => ExportsInv'
    BY ExportsInvStep
  <1>3. BooksInit => CountsTyped
    BY DEF BooksInit, CountsTyped
  <1>4. ExportsInv /\ CountsTyped /\ [BooksNext]_all => CountsTyped'
    BY CountsStep DEF ExportsInv
  <1>5. ExportsInv /\ CountsTyped => BooksTypeOK
    BY DEF ExportsInv, CountsTyped, RecordEvents, BooksTypeOK
  <1> QED BY <1>1, <1>2, <1>3, <1>4, <1>5, ExportsInvInit, PTL DEF BooksSpec
=============================================================================
