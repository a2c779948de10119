----------------------- MODULE PaymentIntents_proofs -----------------------
(***************************************************************************)
(* Proofs about PaymentIntents, for any number of create requests, refresh *)
(* calls and restarts, in either adapter mode.                             *)
(***************************************************************************)
EXTENDS PaymentIntents, SequenceTheorems, TLAPS

\* The status tables of Lifecycle, as the proofs below use them.
LEMMA Statuses_ ==
    /\ Absent \notin Statuses
    /\ TerminalStatuses \subseteq Statuses
    /\ RefreshTargets = {"processing", "paid", "expired", "failed"}
  BY DEF Absent, Statuses, TerminalStatuses, RefreshTargets, LedgerEventByStatus

\* Appending to one log keeps every log a sequence of its type.
LEMMA LogToType ==
    ASSUME NEW T, NEW log \in [Creates -> Seq(T)], NEW i \in Creates,
           NEW events \in Seq(T)
    PROVE  LogTo(log, i, events) \in [Creates -> Seq(T)]
  BY DEF LogTo

\* A call about to write knows its intent and the status it will write.
LEMMA ApplyTarget ==
  ASSUME TypeOK, NEW r \in Callers, call[r].pc = "apply"
  PROVE  call[r].target \in RefreshTargets /\ call[r].intent \in Creates
  <1>1. call[r] \in CallStates
    BY Zenon DEF TypeOK
  <1> QED BY <1>1 DEF CallStates, Idle

\* An empty database and an idle process satisfy the type invariant and the
\* stage invariant.
THEOREM InitTyped == Init => TypeOK /\ StagesAgree
  <1> SUFFICES ASSUME Init PROVE TypeOK /\ StagesAgree
    OBVIOUS
  <1> USE DEF Init
  <1>1. create \in [Creates -> CreateStates]
    BY DEF NewCreate, CreateStates
  <1>2. call \in [Callers -> CallStates]
    BY DEF CallStates
  <1>3. ledger \in [Creates -> Seq(LedgerTypes)] /\ outbox \in [Creates -> Seq(WebhookTypes)]
    OBVIOUS
  <1>4. /\ status \in [Creates -> Statuses \cup {Absent}]
        /\ invoice \in [Creates -> InvoiceStates \cup {Absent}]
        /\ receipts \subseteq Creates /\ todo \subseteq Creates
        /\ \A e \in idempotency : e.intent \in Creates
    OBVIOUS
  <1>5. polling \in BOOLEAN
    OBVIOUS
  <1>6. restarts \in 0..MaxRestarts
    BY RestartAssumption
  <1>7. TypeOK
    BY <1>1, <1>2, <1>3, <1>4, <1>5, <1>6, Zenon DEF TypeOK
  <1>8. StagesAgree
    BY DEF StagesAgree, CreateStage, CallStage, NewCreate, Idle
  <1> QED BY <1>7, <1>8

\* A reply is a legal state of a create request, and ends it.
LEMMA AnsweredType ==
  ASSUME NEW r \in Requests \cup {NoKey}, NEW code \in Replies, NEW i \in Creates \cup {NoIntent}
  PROVE  Answered(r, code, i) \in CreateStates /\ Answered(r, code, i).pc = "done"
  BY DEF Answered, CreateStates

\* Moving a create request to its next await keeps it well formed.
LEMMA AdvanceType ==
  ASSUME create \in [Creates -> CreateStates], NEW c \in Creates,
         NEW step \in {"invoice", "promote"}, Advance(c, step)
  PROVE  create' \in [Creates -> CreateStates] /\ create'[c].pc = step
  <1>1. [create[c] EXCEPT !.pc = step] \in CreateStates
    BY DEF CreateStates
  <1>2. [create[c] EXCEPT !.pc = step].pc = step
    BY DEF CreateStates
  <1> QED BY <1>1, <1>2 DEF Advance

\* What a call in progress may rest on.
CallFits(x) ==
    /\ x.pc = "load" => x.intent \in Promoted
    /\ x.pc \in {"query", "apply"} /\ x.status # "created" => x.intent \in Promoted
    /\ x.pc = "apply" /\ x.target = "paid" => PaidOrForgotten(x.intent)

\* Once an invoice is paid (or forgotten by the simulated adapter), nothing
\* that happens to a promoted intent makes it unpaid again.
LEMMA PaidStays ==
  ASSUME TypeOK, StagesAgree, [Next]_vars, NEW j \in Promoted, PaidOrForgotten(j)
  PROVE  PaidOrForgotten(j)'
  <1>0. j \in Creates /\ status[j] \notin {Absent, "created"}
    BY DEF Promoted
  <1>1. ASSUME NEW c \in Creates, CreateInvoice(c) \/ InvoiceFails(c) PROVE PaidOrForgotten(j)'
    <2>1. status[c] = "created"
      BY <1>1 DEF CreateInvoice, InvoiceFails, StagesAgree, CreateStage
    <2> QED BY <1>0, <1>1, <2>1 DEF CreateInvoice, InvoiceFails, PaidOrForgotten, TypeOK
  <1>2. ASSUME NEW r \in Callers, NEW i \in Creates, NEW action \in DemoActions,
               DemoMark(r, i, action)
        PROVE  PaidOrForgotten(j)'
    <2>1. PICK o \in MarkOutcomes(action, invoice[i]) : invoice' = [invoice EXCEPT ![i] = o.to]
      BY <1>2 DEF DemoMark
    <2>2. invoice[i] \in {"paid", Absent} => o.to = invoice[i]
      BY DEF MarkOutcomes, AfterExpiry, DemoActions, Absent
    <2> QED BY <1>0, <1>2, <2>1, <2>2 DEF DemoMark, PaidOrForgotten, PaidInvoice, TypeOK
  <1>3. ASSUME NEW r \in Callers, QueryAdapter(r) PROVE PaidOrForgotten(j)'
    <2>1. PICK s \in SeenByAdapter(r) :
             invoice' = IF s = Absent THEN invoice ELSE [invoice EXCEPT ![call[r].intent] = s]
      BY <1>3 DEF QueryAdapter
    <2>2. \/ s = Absent \/ s = invoice[call[r].intent]
          \/ s \in AfterExpiry(invoice[call[r].intent]) /\ Mode = "simulated"
      <3>1. CASE call[r].status = "created"
        BY <3>1 DEF SeenByAdapter, AfterExpiry, Absent
      <3>2. CASE call[r].status # "created"
        BY <3>2 DEF SeenByAdapter
      <3> QED BY <3>1, <3>2
    <2>3. invoice'[j] = invoice[j]
      BY <1>0, <2>1, <2>2 DEF TypeOK, PaidOrForgotten, AfterExpiry, PaidInvoice, Absent
    <2> QED BY <2>3 DEF PaidOrForgotten
  <1>4. ASSUME NEW i \in Creates, NodeMove(i) PROVE PaidOrForgotten(j)'
    <2>1. PICK s \in NodeMoves[invoice[i]] : invoice' = [invoice EXCEPT ![i] = s]
      BY <1>4 DEF NodeMove
    <2>2. Mode = "real" /\ invoice[i] # Absent
      BY <1>4 DEF NodeMove
    <2>3. invoice[i] # PaidInvoice
      BY <2>1, <2>2 DEF NodeMoves, PaidInvoice
    <2> QED BY <1>0, <2>1, <2>2, <2>3 DEF PaidOrForgotten, TypeOK
  <1>5. CASE Restart
    BY <1>0, <1>5 DEF Restart, PaidOrForgotten
  <1>6. CASE UNCHANGED invoice
    BY <1>6 DEF PaidOrForgotten
  <1>7. \/ \E c \in Creates : CreateInvoice(c) \/ InvoiceFails(c)
        \/ \E r \in Callers, i \in Creates, a \in DemoActions : DemoMark(r, i, a)
        \/ \E r \in Callers : QueryAdapter(r)
        \/ \E i \in Creates : NodeMove(i)
        \/ Restart
        \/ UNCHANGED invoice
    BY DEF Next, CreateNext, StartCall, CallNext, PollNextState, Callers, vars,
           ReplayStored, RejectKeyReuse, AcceptCreate, InsertIntent, RejectInsert,
           Promote, RejectPromote, CreateAborts, Refresh, LoadAfterMark, QueryFails,
           ApplyPaid, RejectReceipt, ApplyNonPaid, ApplyAborts, PollTick, PollNext, PollEnd
  <1> QED BY <1>1, <1>2, <1>3, <1>4, <1>5, <1>6, <1>7

\* A step that only moves one create request on.
LEMMA CreateStep ==
  ASSUME TypeOK, StagesAgree, NEW c \in Creates, NEW x \in CreateStates,
         create' = [create EXCEPT ![c] = x],
         UNCHANGED <<database, invoice, call, poller, restarts>>,
         x.pc \in {"new", "insert"} => status[c] = Absent,
         x.pc \in {"invoice", "promote"} => status[c] = "created"
  PROVE  TypeOK' /\ StagesAgree'
  <1>1. create' \in [Creates -> CreateStates]
    BY DEF TypeOK
  <1>2. UNCHANGED <<status, ledger, outbox, receipts, idempotency, invoice, call, polling, todo, restarts>>
    BY DEF database, poller
  <1>3. TypeOK'
    BY <1>1, <1>2 DEF TypeOK
  <1>4. CreateStage'
    BY <1>2 DEF TypeOK, StagesAgree, CreateStage
  <1>5. CallStage'
    BY <1>2 DEF StagesAgree, CallStage, Promoted, PaidOrForgotten
  <1>6. todo' \subseteq Promoted' /\ receipts' \subseteq Promoted'
    BY <1>2 DEF StagesAgree, Promoted
  <1> QED BY <1>3, <1>4, <1>5, <1>6 DEF StagesAgree

\* A call that a step leaves alone still fits when the step unpromotes nothing.
LEMMA CallKept ==
  ASSUME TypeOK, StagesAgree, [Next]_vars, Promoted \subseteq Promoted',
         NEW q \in Callers, call'[q] = call[q]
  PROVE  CallFits(call[q])'
  <1>1. CallFits(call[q]) /\ call[q] \in CallStates
    BY DEF StagesAgree, CallStage, CallFits, TypeOK
  <1>2. call[q].pc = "apply" => call[q].intent \in Promoted
    BY <1>1 DEF CallFits, CallStates, Idle
  <1>3. call[q].pc = "apply" /\ call[q].target = "paid" => PaidOrForgotten(call[q].intent)'
    <2>1. PICK i : i = call[q].intent
      OBVIOUS
    <2> QED BY <1>1, <1>2, <2>1, PaidStays DEF CallFits, PaidOrForgotten
  <1> QED BY <1>1, <1>3 DEF CallFits

\* A step that only moves one refresh call on.
LEMMA CallStep ==
  ASSUME TypeOK, StagesAgree, NEW r \in Callers, NEW x \in CallStates, CallFits(x),
         call' = [call EXCEPT ![r] = x], todo' \subseteq todo,
         UNCHANGED <<database, invoice, create, polling, restarts>>
  PROVE  TypeOK' /\ StagesAgree'
  <1>1. call' \in [Callers -> CallStates]
    BY DEF TypeOK
  <1>2. UNCHANGED <<status, ledger, outbox, receipts, idempotency, invoice, create, polling, restarts>>
    BY DEF database
  <1>3. TypeOK'
    BY <1>1, <1>2 DEF TypeOK
  <1>4. CreateStage'
    BY <1>2 DEF StagesAgree, CreateStage
  <1>5. CallStage'
    <2> SUFFICES ASSUME NEW s \in Callers PROVE CallFits(call[s])'
      BY DEF CallStage, CallFits
    <2>1. CallFits(call'[s])
      BY DEF StagesAgree, CallStage, CallFits, TypeOK
    <2> QED BY <1>2, <2>1 DEF CallFits, Promoted, PaidOrForgotten
  <1>6. todo' \subseteq Promoted' /\ receipts' \subseteq Promoted'
    BY <1>2 DEF StagesAgree, Promoted
  <1> QED BY <1>3, <1>4, <1>5, <1>6 DEF StagesAgree

\* A call at rest depends on nothing.
LEMMA IdleFits == Idle \in CallStates /\ CallFits(Idle)
  BY DEF Idle, CallStates, CallFits

\* Loading an intent that is in the database.
LEMMA LoadStep ==
  ASSUME TypeOK, StagesAgree, NEW r \in Callers, NEW i \in Creates, status[i] # Absent,
         LoadIntent(r, i), todo' \subseteq todo,
         UNCHANGED <<database, invoice, create, polling, restarts>>
  PROVE  TypeOK' /\ StagesAgree'
  <1>1. CASE IsTerminalStatus(status[i])
    BY <1>1, IdleFits, CallStep DEF LoadIntent
  <1>2. CASE ~IsTerminalStatus(status[i])
    <2> DEFINE x == [pc |-> "query", intent |-> i, status |-> status[i], target |-> "none"]
    <2>1. x \in CallStates
      BY <1>2 DEF TypeOK, IsTerminalStatus, CallStates
    <2>2. CallFits(x)
      BY DEF CallFits, Promoted
    <2>3. call' = [call EXCEPT ![r] = x]
      BY <1>2 DEF LoadIntent
    <2> HIDE DEF x
    <2> QED BY <2>1, <2>2, <2>3, CallStep
  <1> QED BY <1>1, <1>2

\* Every step of the service keeps the types, and keeps creation and settlement
\* on different stages of an intent.
LEMMA TypedStep == TypeOK /\ StagesAgree /\ [Next]_vars => TypeOK' /\ StagesAgree'
  <1> SUFFICES ASSUME TypeOK, StagesAgree, [Next]_vars PROVE TypeOK' /\ StagesAgree'
    OBVIOUS
  <1>1. ASSUME NEW c \in Creates, NEW r \in Requests, ReplayStored(c, r)
        PROVE  TypeOK' /\ StagesAgree'
    <2>1. PICK e \in idempotency : create' = [create EXCEPT ![c] = Answered(r, "200", e.intent)]
      BY <1>1 DEF ReplayStored, Stored
    <2>2. e.intent \in Creates
      BY DEF TypeOK
    <2>3. Answered(r, "200", e.intent) \in CreateStates /\ Answered(r, "200", e.intent).pc = "done"
      BY <2>2, AnsweredType DEF Replies
    <2> QED BY <1>1, <2>1, <2>3, CreateStep DEF ReplayStored
  <1>2. ASSUME NEW c \in Creates, NEW r \in Requests, RejectKeyReuse(c, r)
        PROVE  TypeOK' /\ StagesAgree'
    <2> DEFINE x == Answered(r, "idempotency_key_conflict", NoIntent)
    <2>1. x \in CreateStates /\ x.pc = "done"
      BY AnsweredType DEF Replies
    <2>2. create' = [create EXCEPT ![c] = x]
      BY <1>2 DEF RejectKeyReuse
    <2> HIDE DEF x
    <2> QED BY <1>2, <2>1, <2>2, CreateStep DEF RejectKeyReuse
  <1>3. ASSUME NEW c \in Creates, NEW r \in Requests, AcceptCreate(c, r)
        PROVE  TypeOK' /\ StagesAgree'
    <2> DEFINE y == [pc |-> "insert", req |-> r, code |-> "none", intent |-> NoIntent]
               x == IF r.merchant \in Merchants THEN y ELSE Answered(r, "not_found", NoIntent)
    <2>1. y \in CreateStates /\ y.pc = "insert"
      BY DEF CreateStates
    <2>2. x \in CreateStates /\ x.pc \in {"insert", "done"}
      BY <2>1, AnsweredType DEF Replies
    <2>3. create' = [create EXCEPT ![c] = x] /\ status[c] = Absent
      BY <1>3 DEF AcceptCreate, StagesAgree, CreateStage
    <2> HIDE DEF x
    <2> QED BY <1>3, <2>2, <2>3, CreateStep DEF AcceptCreate
  <1>4. ASSUME NEW c \in Creates, NEW code \in Replies, Reply(c, code, NoIntent),
               UNCHANGED <<database, invoice, call, poller, restarts>>
        PROVE  TypeOK' /\ StagesAgree'
    <2> DEFINE x == Answered(create[c].req, code, NoIntent)
    <2>0. create[c].req \in Requests \cup {NoKey}
      BY DEF TypeOK, CreateStates
    <2>1. x \in CreateStates /\ x.pc = "done"
      BY <2>0, AnsweredType
    <2>2. create' = [create EXCEPT ![c] = x]
      BY <1>4 DEF Reply
    <2> HIDE DEF x
    <2> QED BY <1>4, <2>1, <2>2, CreateStep
  <1>5. ASSUME NEW c \in Creates, RejectInsert(c) \/ RejectPromote(c) \/ CreateAborts(c)
        PROVE  TypeOK' /\ StagesAgree'
    BY <1>4, <1>5 DEF RejectInsert, RejectPromote, CreateAborts, InsertErrors, Replies
  <1>10. ASSUME NEW r \in Callers, NEW i \in Creates, Refresh(r, i)
         PROVE  TypeOK' /\ StagesAgree'
    BY <1>10, LoadStep DEF Refresh, poller
  <1>11. ASSUME NEW r \in Callers, LoadAfterMark(r)
         PROVE  TypeOK' /\ StagesAgree'
    <2>1. call[r].intent \in Creates /\ status[call[r].intent] # Absent
      BY <1>11 DEF LoadAfterMark, StagesAgree, CallStage, Promoted
    <2> QED BY <1>11, <2>1, LoadStep DEF LoadAfterMark, poller
  <1>12. ASSUME NEW r \in Callers, QueryFails(r) \/ RejectReceipt(r) \/ ApplyAborts(r)
         PROVE  TypeOK' /\ StagesAgree'
    BY <1>12, IdleFits, CallStep DEF QueryFails, RejectReceipt, ApplyAborts, poller
  <1>13. ASSUME PollNext PROVE TypeOK' /\ StagesAgree'
    <2>1. PICK i \in todo : todo' = todo \ {i} /\ LoadIntent(Poller, i)
      BY <1>13 DEF PollNext
    <2>2. i \in Creates /\ status[i] # Absent /\ Poller \in Callers
      BY DEF StagesAgree, Promoted, Callers
    <2> QED BY <1>13, <2>1, <2>2, LoadStep DEF PollNext
  <1>6. ASSUME NEW c \in Creates, InsertIntent(c) PROVE TypeOK' /\ StagesAgree'
    <2>1. create[c].pc = "insert" /\ status[c] = Absent
      BY <1>6 DEF InsertIntent, StagesAgree, CreateStage
    <2>2. create' \in [Creates -> CreateStates]
      BY <1>6, AdvanceType DEF InsertIntent, TypeOK
    <2>3. status' \in [Creates -> Statuses \cup {Absent}]
      BY <1>6 DEF InsertIntent, TypeOK, Statuses
    <2>4. ledger' \in [Creates -> Seq(LedgerTypes)]
      BY <1>6 DEF InsertIntent, TypeOK, LogTo, LedgerTypes
    <2>5. UNCHANGED <<outbox, receipts, idempotency, invoice, call, polling, todo, restarts>>
      BY <1>6 DEF InsertIntent, poller
    <2>6. TypeOK'
      BY <2>2, <2>3, <2>4, <2>5 DEF TypeOK
    <2>7. CreateStage'
      BY <1>6, <2>1 DEF InsertIntent, Advance, StagesAgree, CreateStage, TypeOK, CreateStates
    <2>8. Promoted' = Promoted
      BY <1>6, <2>1 DEF InsertIntent, Promoted, TypeOK, Absent
    <2>9. CallStage'
      BY <2>5, <2>8 DEF StagesAgree, CallStage, PaidOrForgotten
    <2> QED BY <2>5, <2>6, <2>7, <2>8, <2>9 DEF StagesAgree
  <1>7. ASSUME NEW c \in Creates, CreateInvoice(c) \/ InvoiceFails(c)
        PROVE  TypeOK' /\ StagesAgree'
    <2>1. create[c].pc = "invoice" /\ status[c] = "created"
      BY <1>7 DEF CreateInvoice, InvoiceFails, StagesAgree, CreateStage
    <2>2. create' \in [Creates -> CreateStates] /\ create'[c].pc \in {"promote", "done"}
      <3>1. CASE CreateInvoice(c)
        BY <3>1, AdvanceType DEF CreateInvoice, TypeOK
      <3>2. CASE InvoiceFails(c)
        <4>1. create[c].req \in Requests \cup {NoKey}
          BY DEF TypeOK, CreateStates
        <4> QED BY <3>2, <4>1, AnsweredType DEF InvoiceFails, Reply, Replies, TypeOK
      <3> QED BY <1>7, <3>1, <3>2
    <2>3. \A d \in Creates \ {c} : create'[d] = create[d] /\ invoice'[d] = invoice[d]
      BY <1>7 DEF CreateInvoice, InvoiceFails, Advance, Reply, TypeOK
    <2>4. invoice' \in [Creates -> InvoiceStates \cup {Absent}]
      <3>1. NewInvoice \in InvoiceStates
        BY DEF NewInvoice, InvoiceStates, InvoiceStatusMap, SimulatedStatuses
      <3>2. PICK s \in {Absent, NewInvoice} : invoice' = [invoice EXCEPT ![c] = s]
        BY <1>7 DEF CreateInvoice, InvoiceFails
      <3> QED BY <3>1, <3>2 DEF TypeOK
    <2>5. UNCHANGED <<status, ledger, outbox, receipts, idempotency, call, polling, todo, restarts>>
      BY <1>7 DEF CreateInvoice, InvoiceFails, poller, database
    <2>6. TypeOK'
      BY <2>2, <2>4, <2>5 DEF TypeOK
    <2>7. CreateStage'
      BY <2>1, <2>2, <2>3, <2>5 DEF StagesAgree, CreateStage
    <2>8. Promoted' = Promoted /\ c \notin Promoted
      BY <2>1, <2>5 DEF Promoted
    <2>9. CallStage'
      BY <2>5, <2>8, CallKept DEF CallStage, CallFits
    <2> QED BY <2>5, <2>6, <2>7, <2>8, <2>9 DEF StagesAgree
  <1>8. ASSUME NEW c \in Creates, Promote(c) PROVE TypeOK' /\ StagesAgree'
    <2>1. create[c].pc = "promote" /\ status[c] = "created"
      BY <1>8 DEF Promote, StagesAgree, CreateStage
    <2>2. create' \in [Creates -> CreateStates] /\ create'[c].pc = "done"
      <3>1. create[c].req \in Requests \cup {NoKey}
        BY DEF TypeOK, CreateStates
      <3> QED BY <1>8, <3>1, AnsweredType DEF Promote, Reply, Replies, TypeOK
    <2>3. \A d \in Creates \ {c} : create'[d] = create[d] /\ status'[d] = status[d]
      BY <1>8 DEF Promote, Reply, TypeOK
    <2>4. status' \in [Creates -> Statuses \cup {Absent}] /\ status'[c] = "requires_payment"
      BY <1>8 DEF Promote, TypeOK, Statuses
    <2>5. /\ ledger' \in [Creates -> Seq(LedgerTypes)]
          /\ outbox' \in [Creates -> Seq(WebhookTypes)]
      BY <1>8 DEF Promote, TypeOK, LogTo, LedgerTypes, WebhookTypes
    <2>6. \A e \in idempotency' : e.intent \in Creates
      BY <1>8 DEF Promote, TypeOK
    <2>7. UNCHANGED <<receipts, invoice, call, polling, todo, restarts>>
      BY <1>8 DEF Promote, poller
    <2>8. TypeOK'
      BY <2>2, <2>4, <2>5, <2>6, <2>7 DEF TypeOK
    <2>9. CreateStage'
      BY <2>2, <2>3 DEF StagesAgree, CreateStage
    <2>10. Promoted \subseteq Promoted'
      BY <2>1, <2>3 DEF Promoted
    <2>11. CallStage'
      BY <2>7, <2>10 DEF StagesAgree, CallStage, PaidOrForgotten
    <2> QED BY <2>7, <2>8, <2>9, <2>10, <2>11 DEF StagesAgree
  <1>9. ASSUME NEW r \in Callers, NEW i \in Creates, NEW action \in DemoActions,
               DemoMark(r, i, action)
        PROVE  TypeOK' /\ StagesAgree'
    <2> DEFINE x == [pc |-> "load", intent |-> i, status |-> Absent, target |-> "none"]
    <2>1. PICK o \in MarkOutcomes(action, invoice[i]) :
             /\ invoice' = [invoice EXCEPT ![i] = o.to]
             /\ call' = IF o.accepted THEN [call EXCEPT ![r] = x] ELSE call
      BY <1>9 DEF DemoMark
    <2>2. UNCHANGED <<status, ledger, outbox, receipts, idempotency, create, polling, todo, restarts>>
      BY <1>9 DEF DemoMark, database, poller
    <2>3. o.to \in SimulatedStatuses \cup {Absent}
      BY DEF MarkOutcomes, AfterExpiry, SimulatedStatuses, DemoActions, Absent
    <2>4. invoice' \in [Creates -> InvoiceStates \cup {Absent}]
      BY <1>9, <2>1, <2>3 DEF DemoMark, InvoiceStates, TypeOK
    <2>5. i \in Promoted /\ x \in CallStates /\ CallFits(x) /\ x.pc = "load"
      BY <1>9 DEF DemoMark, Promoted, CallStates, CallFits
    <2> HIDE DEF x
    <2>6. \A s \in Callers : call'[s] = call[s] \/ call'[s] = x
      BY <2>1 DEF TypeOK
    <2>7. call' \in [Callers -> CallStates]
      BY <2>1, <2>5 DEF TypeOK
    <2>8. TypeOK'
      BY <2>2, <2>4, <2>7 DEF TypeOK
    <2>9. CreateStage'
      BY <2>2 DEF StagesAgree, CreateStage
    <2>10. Promoted' = Promoted
      BY <2>2 DEF Promoted
    <2>11. CallStage'
      <3> SUFFICES ASSUME NEW q \in Callers PROVE CallFits(call[q])'
        BY DEF CallStage, CallFits
      <3>1. CASE call'[q] = call[q]
        BY <2>10, <3>1, CallKept
      <3>2. CASE call'[q] = x
        BY <2>10, <3>2, <2>5 DEF CallFits
      <3> QED BY <2>6, <3>1, <3>2
    <2> QED BY <2>2, <2>8, <2>9, <2>11 DEF StagesAgree, Promoted
  <1>14. ASSUME NEW r \in Callers, QueryAdapter(r) PROVE TypeOK' /\ StagesAgree'
    <2>1. PICK i \in Creates, st \in Statuses \ TerminalStatuses :
             call[r].pc = "query" /\ call[r].intent = i /\ call[r].status = st
      BY <1>14 DEF QueryAdapter, TypeOK, CallStates, Idle
    <2>2. PICK s \in SeenByAdapter(r) :
             LET target == IntentStatusFromAdapterStatus(Reported(s))
             IN  /\ invoice' = IF s = Absent THEN invoice ELSE [invoice EXCEPT ![i] = s]
                 /\ call' = [call EXCEPT ![r] =
                                IF Actionable(@.status, target)
                                THEN [pc |-> "apply", intent |-> i,
                                      status |-> @.status, target |-> target]
                                ELSE Idle]
      BY <1>14, <2>1 DEF QueryAdapter
    <2> DEFINE target == IntentStatusFromAdapterStatus(Reported(s))
               y == [pc |-> "apply", intent |-> i, status |-> st, target |-> target]
               x == IF Actionable(st, target) THEN y ELSE Idle
    <2>3. UNCHANGED <<status, ledger, outbox, receipts, idempotency, create, polling, todo, restarts>>
      BY <1>14 DEF QueryAdapter, database, poller
    <2>4. call' = [call EXCEPT ![r] = x]
      BY <2>1, <2>2
    <2>5. st = "created" => ~Actionable(st, target)
      <3> SUFFICES ASSUME st = "created" PROVE target = "none"
        BY DEF Actionable, RefreshTargets, LedgerEventByStatus
      <3>1. s = Absent
        BY <2>1 DEF SeenByAdapter, AfterExpiry, Absent
      <3> QED BY <3>1, ModeAssumption DEF Reported, Absent, InvoiceStatusMap, SimulatedStatuses,
                 IntentStatusFromAdapterStatus, IntentStatusByAdapterStatus
    <2>6. x \in CallStates
      <3>1. CASE Actionable(st, target)
        <4>1. st \in {"requires_payment", "processing"} /\ target \in RefreshTargets
          BY <2>1, <2>5, <3>1 DEF Actionable, Statuses, TerminalStatuses
        <4> HIDE DEF target
        <4> QED BY <2>1, <3>1, <4>1 DEF CallStates
      <3>2. CASE ~Actionable(st, target)
        BY <3>2, IdleFits
      <3> QED BY <3>1, <3>2
    <2>7. \/ s = Absent \/ s = invoice[i]
          \/ s \in AfterExpiry(invoice[i]) /\ Mode = "simulated"
      <3>1. CASE st = "created"
        BY <2>1, <3>1 DEF SeenByAdapter, AfterExpiry, Absent
      <3>2. CASE st # "created"
        BY <2>1, <3>2 DEF SeenByAdapter
      <3> QED BY <3>1, <3>2
    <2>8. invoice' \in [Creates -> InvoiceStates \cup {Absent}]
      <3>1. s \in InvoiceStates \cup {Absent}
        BY <2>1, <2>7 DEF AfterExpiry, InvoiceStates, SimulatedStatuses, TypeOK
      <3> QED BY <2>2, <2>1, <3>1 DEF TypeOK
    <2>10. Actionable(st, target) /\ target = "paid" => PaidOrForgotten(i)'
      <3> SUFFICES ASSUME target = "paid" PROVE PaidOrForgotten(i)'
        OBVIOUS
      <3>1. s = PaidInvoice /\ s # Absent
        BY ModeAssumption DEF Reported, InvoiceStatusMap, SimulatedStatuses, PaidInvoice, Absent,
           IntentStatusFromAdapterStatus, IntentStatusByAdapterStatus
      <3>2. invoice'[i] = s
        BY <2>2, <2>1, <3>1 DEF TypeOK
      <3> QED BY <3>1, <3>2 DEF PaidOrForgotten, PaidInvoice
    <2>11. /\ x.pc # "load"
           /\ x.pc \in {"query", "apply"} /\ x.status # "created" => x.intent \in Promoted
           /\ x.pc = "apply" /\ x.target = "paid" => PaidOrForgotten(x.intent)'
      <3>1. st # "created" => i \in Promoted
        BY <2>1 DEF StagesAgree, CallStage
      <3>2. CASE Actionable(st, target)
        <4>1. x = y
          BY <3>2
        <4> HIDE DEF target, x
        <4> QED BY <2>10, <3>1, <3>2, <4>1
      <3>3. CASE ~Actionable(st, target)
        BY <3>3 DEF Idle
      <3> QED BY <3>2, <3>3
    <2> HIDE DEF x, y, target
    <2>12. call' \in [Callers -> CallStates]
      BY <2>4, <2>6 DEF TypeOK
    <2>13. TypeOK'
      BY <2>3, <2>8, <2>12 DEF TypeOK
    <2>14. CreateStage'
      BY <2>3 DEF StagesAgree, CreateStage
    <2>15. CallStage'
      <3> SUFFICES ASSUME NEW q \in Callers PROVE CallFits(call[q])'
        BY DEF CallStage, CallFits
      <3>1. Promoted' = Promoted
        BY <2>3 DEF Promoted
      <3>2. CASE q = r
        BY <2>4, <2>11, <3>1, <3>2 DEF CallFits, TypeOK
      <3>3. CASE q # r
        BY <2>4, <3>1, <3>3, CallKept DEF TypeOK
      <3> QED BY <3>2, <3>3
    <2> QED BY <2>3, <2>13, <2>14, <2>15 DEF StagesAgree, Promoted
  <1>15. ASSUME NEW r \in Callers, ApplyPaid(r) \/ ApplyNonPaid(r)
         PROVE  TypeOK' /\ StagesAgree'
    <2> DEFINE i == call[r].intent
    <2>1. /\ call[r].pc = "apply" /\ i \in Creates /\ i \in Promoted
          /\ call[r].target \in RefreshTargets
      <3>1. call[r].pc = "apply" /\ call[r] \in CallStates
        BY <1>15 DEF ApplyPaid, ApplyNonPaid, TypeOK
      <3>2. i \in Creates /\ call[r].target \in RefreshTargets /\ call[r].status # "created"
        BY <3>1 DEF CallStates, Idle
      <3> QED BY <3>1, <3>2 DEF StagesAgree, CallStage
    <2>2. /\ call' = [call EXCEPT ![r] = Idle]
          /\ UNCHANGED <<idempotency, invoice, create, polling, todo, restarts>>
      BY <1>15 DEF ApplyPaid, ApplyNonPaid, poller
    <2>3. PICK s \in RefreshTargets : status' = [status EXCEPT ![i] = s]
      BY <1>15, <2>1, Statuses_ DEF ApplyPaid, ApplyNonPaid
    <2>4. /\ ledger' \in [Creates -> Seq(LedgerTypes)]
          /\ outbox' \in [Creates -> Seq(WebhookTypes)]
          /\ receipts' \subseteq receipts \cup {i}
      <3>1. CASE ApplyPaid(r)
        BY <2>1, <3>1 DEF ApplyPaid, LogTo, LedgerTypes, WebhookTypes, TypeOK
      <3>2. CASE ApplyNonPaid(r)
        <4>1. /\ LedgerEventByStatus[call[r].target] \in LedgerTypes
              /\ WebhookTypeByStatus[call[r].target] \in WebhookTypes
          BY <2>1, Statuses_ DEF LedgerEventByStatus, WebhookTypeByStatus, LedgerTypes, WebhookTypes
        <4>2. "webhook_queued" \in LedgerTypes
          BY DEF LedgerTypes
        <4> QED BY <2>1, <3>2, <4>1, <4>2 DEF ApplyNonPaid, LogTo, TypeOK
      <3> QED BY <1>15, <3>1, <3>2
    <2>5. status' \in [Creates -> Statuses \cup {Absent}] /\ Promoted \subseteq Promoted'
          /\ \A c \in Creates : c \notin Promoted => status'[c] = status[c]
      BY <2>1, <2>3, Statuses_ DEF TypeOK, Promoted, Statuses, Absent
    <2>6. call' \in [Callers -> CallStates]
      BY <2>2, IdleFits DEF TypeOK
    <2>7. TypeOK'
      BY <2>1, <2>2, <2>4, <2>5, <2>6 DEF TypeOK
    <2>8. CreateStage'
      BY <2>2, <2>5 DEF StagesAgree, CreateStage, Promoted
    <2>9. CallStage'
      <3> SUFFICES ASSUME NEW q \in Callers PROVE CallFits(call[q])'
        BY DEF CallStage, CallFits
      <3>1. CallFits(call'[q])
        BY <2>2, IdleFits DEF StagesAgree, CallStage, CallFits, TypeOK
      <3> QED BY <2>2, <2>5, <3>1 DEF CallFits, PaidOrForgotten
    <2> QED BY <2>1, <2>2, <2>4, <2>5, <2>7, <2>8, <2>9 DEF StagesAgree
  <1>16. ASSUME PollTick \/ PollEnd PROVE TypeOK' /\ StagesAgree'
    <2>1. UNCHANGED <<status, ledger, outbox, receipts, idempotency, invoice, create, call, restarts>>
      BY <1>16 DEF PollTick, PollEnd, database
    <2>2. todo' \subseteq Promoted
      BY <1>16 DEF PollTick, PollEnd, PollableStatuses, Promoted, StagesAgree, Absent
    <2>3. polling' \in BOOLEAN
      BY <1>16 DEF PollTick, PollEnd
    <2>4. todo' \subseteq Creates
      BY <2>2 DEF Promoted
    <2>5. TypeOK'
      BY <2>1, <2>3, <2>4, Zenon DEF TypeOK
    <2>6. StagesAgree'
      BY <2>1, <2>2 DEF StagesAgree, CreateStage, CallStage, Promoted, PaidOrForgotten
    <2> QED BY <2>5, <2>6
  <1>17. ASSUME NEW i \in Creates, NodeMove(i) PROVE TypeOK' /\ StagesAgree'
    <2>1. PICK s \in NodeMoves[invoice[i]] : invoice' = [invoice EXCEPT ![i] = s]
      BY <1>17 DEF NodeMove
    <2>2. /\ UNCHANGED <<status, ledger, outbox, receipts, idempotency, create, call, polling, todo, restarts>>
          /\ Mode = "real" /\ invoice[i] # Absent
      BY <1>17 DEF NodeMove, database, poller
    <2>3. invoice[i] \in DOMAIN InvoiceStatusMap
      BY <2>2 DEF TypeOK, InvoiceStates
    <2>4. s \in InvoiceStates /\ invoice[i] # PaidInvoice
      BY <2>1, <2>2, <2>3 DEF NodeMoves, InvoiceStates, InvoiceStatusMap, PaidInvoice
    <2>5. TypeOK'
      BY <2>1, <2>2, <2>4 DEF TypeOK
    <2>6. Promoted' = Promoted
      BY <2>2 DEF Promoted
    <2>7. CallStage'
      BY <2>2, <2>6, CallKept DEF CallStage, CallFits
    <2> QED BY <2>2, <2>5, <2>7 DEF StagesAgree, CreateStage, Promoted
  <1>18. ASSUME Restart PROVE TypeOK' /\ StagesAgree'
    <2>1. UNCHANGED <<status, ledger, outbox, receipts, idempotency>>
      BY <1>18 DEF Restart, database
    <2>2. create' \in [Creates -> CreateStates]
      <3>1. \A c \in Creates : Answered(create[c].req, "lost", NoIntent) \in CreateStates
        <4> TAKE c \in Creates
        <4>1. create[c].req \in Requests \cup {NoKey}
          BY DEF TypeOK, CreateStates
        <4> QED BY <4>1, AnsweredType DEF Replies
      <3> QED BY <1>18, <3>1 DEF Restart, TypeOK
    <2>3. \A c \in Creates : create'[c] = create[c] \/ create'[c].pc = "done"
      BY <1>18 DEF Restart, TypeOK, Answered
    <2>4. call' \in [Callers -> CallStates] /\ \A q \in Callers : call'[q] = Idle
      BY <1>18, IdleFits DEF Restart
    <2>5. invoice' \in [Creates -> InvoiceStates \cup {Absent}]
      BY <1>18 DEF Restart, TypeOK
    <2>6. restarts' \in 0..MaxRestarts /\ todo' = {}
      <3>1. restarts \in 0..MaxRestarts
        BY DEF TypeOK
      <3> QED BY <1>18, <3>1, RestartAssumption DEF Restart
    <2>7. polling' \in BOOLEAN
      BY <1>18 DEF Restart
    <2>8. TypeOK'
      BY <2>1, <2>2, <2>4, <2>5, <2>6, <2>7, Zenon DEF TypeOK
    <2>9. StagesAgree'
      BY <2>1, <2>3, <2>4, <2>6 DEF StagesAgree, CreateStage, CallStage, Idle, Promoted
    <2> QED BY <2>8, <2>9
  <1>19. CASE UNCHANGED vars
    <2>1. UNCHANGED <<status, ledger, outbox, receipts, idempotency, invoice, create, call, polling, todo, restarts>>
      BY <1>19 DEF vars, database, poller
    <2>2. TypeOK'
      BY <2>1 DEF TypeOK
    <2>3. StagesAgree'
      BY <2>1 DEF StagesAgree, CreateStage, CallStage, Promoted, PaidOrForgotten
    <2> QED BY <2>2, <2>3
  <1> QED
    BY <1>1, <1>2, <1>3, <1>5, <1>6, <1>7, <1>8, <1>9, <1>10, <1>11, <1>12, <1>13,
       <1>14, <1>15, <1>16, <1>17, <1>18, <1>19
       DEF Next, CreateNext, StartCall, CallNext, PollNextState, Callers

\* In every execution, with any number of requests, calls and restarts, the
\* variables are well formed, and a call in progress only ever works on an
\* intent whose creation is over (payment-intent-service.ts:83-176,
\* payment-status-tracker.ts:77-120).
THEOREM Typed == Spec => [](TypeOK /\ StagesAgree)
  <1>1. Init => TypeOK /\ StagesAgree
    BY InitTyped
  <1>2. (TypeOK /\ StagesAgree) /\ [Next]_vars => (TypeOK /\ StagesAgree)'
    BY TypedStep
  <1> QED BY <1>1, <1>2, PTL DEF Spec

\* Whoever creates, refreshes, marks or crashes, the tables, invoices and calls
\* in flight hold values the program can hold.
THEOREM PaymentsTypeOKHolds == Spec => []TypeOK
  BY Typed, PTL

-----------------------------------------------------------------------------
(* Logs *)

\* Appending events leaves what other events say in every log as it was.
LEMMA LogOther ==
  ASSUME NEW T, NEW log \in [Creates -> Seq(T)], NEW i \in Creates,
         NEW events \in Seq(T), NEW x, ~Occurs(x, events), NEW j \in Creates
  PROVE  /\ Occurs(x, LogTo(log, i, events)[j]) <=> Occurs(x, log[j])
         /\ Once(x, log[j]) => Once(x, LogTo(log, i, events)[j])
  <1>1. CASE j # i
    BY <1>1 DEF LogTo
  <1>2. CASE j = i
    <2> DEFINE new == log[i] \o events
    <2>1. LogTo(log, i, events)[j] = new
      BY <1>2 DEF LogTo
    <2>2. /\ DOMAIN new = 1..(Len(log[i]) + Len(events)) /\ DOMAIN log[i] = 1..Len(log[i])
          /\ Len(log[i]) \in Nat /\ Len(events) \in Nat
          /\ \A k \in 1..Len(log[i]) : new[k] = log[i][k]
      OBVIOUS
    <2>3. \A k \in DOMAIN new : k \notin 1..Len(log[i]) => new[k] # x
      <3> SUFFICES ASSUME NEW k \in DOMAIN new, k \notin 1..Len(log[i]) PROVE new[k] # x
        OBVIOUS
      <3>1. new[k] = events[k - Len(log[i])] /\ k - Len(log[i]) \in DOMAIN events
        BY <2>2
      <3> QED BY <3>1 DEF Occurs
    <2> HIDE DEF new
    <2> QED BY <1>2, <2>1, <2>2, <2>3 DEF Occurs, Once
  <1> QED BY <1>1, <1>2

\* Appending events that hold x exactly once, to a log that did not hold it.
LEMMA LogFirst ==
  ASSUME NEW T, NEW log \in [Creates -> Seq(T)], NEW i \in Creates,
         NEW events \in Seq(T), NEW x, Occurs(x, events)
  PROVE  /\ Occurs(x, LogTo(log, i, events)[i])
         /\ ~Occurs(x, log[i]) /\ Once(x, events) => Once(x, LogTo(log, i, events)[i])
         /\ \A j \in Creates \ {i} : LogTo(log, i, events)[j] = log[j]
  <1> DEFINE new == log[i] \o events
  <1>1. LogTo(log, i, events)[i] = new /\ \A j \in Creates \ {i} : LogTo(log, i, events)[j] = log[j]
    BY DEF LogTo
  <1>2. /\ DOMAIN new = 1..(Len(log[i]) + Len(events)) /\ DOMAIN log[i] = 1..Len(log[i])
        /\ DOMAIN events = 1..Len(events)
        /\ Len(log[i]) \in Nat /\ Len(events) \in Nat
        /\ \A k \in 1..Len(log[i]) : new[k] = log[i][k]
        /\ \A k \in 1..Len(events) : new[k + Len(log[i])] = events[k]
    OBVIOUS
  <1>3. Occurs(x, new)
    <2>1. PICK k \in 1..Len(events) : events[k] = x
      BY <1>2 DEF Occurs
    <2> HIDE DEF new
    <2> QED BY <1>2, <2>1 DEF Occurs
  <1>4. ASSUME ~Occurs(x, log[i]), Once(x, events) PROVE Once(x, new)
    <2>1. \A k \in DOMAIN new : new[k] = x =>
             k - Len(log[i]) \in DOMAIN events /\ events[k - Len(log[i])] = x
      <3> SUFFICES ASSUME NEW k \in DOMAIN new, new[k] = x
                   PROVE  k - Len(log[i]) \in DOMAIN events /\ events[k - Len(log[i])] = x
        OBVIOUS
      <3>1. k \notin 1..Len(log[i])
        BY <1>2, <1>4 DEF Occurs
      <3> QED BY <1>2, <3>1
    <2> HIDE DEF new
    <2> SUFFICES ASSUME NEW k \in DOMAIN new, NEW l \in DOMAIN new, new[k] = x, new[l] = x
                 PROVE  k = l
      BY DEF Once
    <2>2. k - Len(log[i]) = l - Len(log[i])
      BY <1>4, <2>1 DEF Once
    <2> QED BY <1>2, <2>2
  <1> QED BY <1>1, <1>3, <1>4

-----------------------------------------------------------------------------
(* Settlement *)

\* Only four transactions write intents, ledger, webhooks and receipts.
LEMMA Writers ==
  ASSUME [Next]_vars
  PROVE  \/ \E c \in Creates : InsertIntent(c)
         \/ \E c \in Creates : Promote(c)
         \/ \E r \in Callers : ApplyPaid(r)
         \/ \E r \in Callers : ApplyNonPaid(r)
         \/ UNCHANGED database
  BY DEF Next, CreateNext, StartCall, CallNext, PollNextState, Callers, vars,
         ReplayStored, RejectKeyReuse, AcceptCreate, RejectInsert, CreateInvoice, InvoiceFails,
         RejectPromote, CreateAborts, Refresh, DemoMark, LoadAfterMark, QueryAdapter, QueryFails,
         RejectReceipt, ApplyAborts, PollTick, PollNext, PollEnd, NodeMove, Restart

\* What the paid transaction appends.
PaidEvents == <<"payment_paid", "receipt_issued", "webhook_queued", "webhook_queued">>
PaidHooks == <<"payment_intent.paid", "receipt.created">>

\* The paid transaction appends each of its four announcements once.
LEMMA PaidBatch ==
    /\ PaidEvents \in Seq(LedgerTypes) /\ PaidHooks \in Seq(WebhookTypes)
    /\ Occurs("payment_paid", PaidEvents) /\ Once("payment_paid", PaidEvents)
    /\ Occurs("receipt_issued", PaidEvents) /\ Once("receipt_issued", PaidEvents)
    /\ Occurs("payment_intent.paid", PaidHooks) /\ Once("payment_intent.paid", PaidHooks)
    /\ Occurs("receipt.created", PaidHooks) /\ Once("receipt.created", PaidHooks)
    /\ ~Occurs("payment_intent_created", PaidEvents) /\ ~Occurs("invoice_created", PaidEvents)
  BY DEF PaidEvents, PaidHooks, Occurs, Once, LedgerTypes, WebhookTypes

\* Every step keeps the settlement announced at most once: the transaction that
\* announces it first inserts the receipt, whose intent must not have one.
LEMMA SettledStep ==
  ASSUME TypeOK, SettledOnce, [Next]_vars PROVE SettledOnce'
  <1>1. ASSUME NEW c \in Creates, InsertIntent(c) PROVE SettledOnce'
    <2> DEFINE new == <<"payment_intent_created">>
    <2>1. new \in Seq(LedgerTypes) /\ ~Occurs("payment_paid", new) /\ ~Occurs("receipt_issued", new)
      BY DEF Occurs, LedgerTypes
    <2>2. ledger' = LogTo(ledger, c, new) /\ UNCHANGED <<outbox, receipts>>
      BY <1>1 DEF InsertIntent
    <2> HIDE DEF new
    <2> QED BY <2>1, <2>2, LogOther DEF SettledOnce, TypeOK
  <1>2. ASSUME NEW c \in Creates, Promote(c) PROVE SettledOnce'
    <2> DEFINE new == <<"invoice_created", "webhook_queued">>
               hook == <<"payment_intent.created">>
    <2>1. new \in Seq(LedgerTypes) /\ ~Occurs("payment_paid", new) /\ ~Occurs("receipt_issued", new)
      BY DEF Occurs, LedgerTypes
    <2>2. hook \in Seq(WebhookTypes) /\ ~Occurs("payment_intent.paid", hook) /\ ~Occurs("receipt.created", hook)
      BY DEF Occurs, WebhookTypes
    <2>3. ledger' = LogTo(ledger, c, new) /\ outbox' = LogTo(outbox, c, hook) /\ UNCHANGED receipts
      BY <1>2 DEF Promote
    <2> HIDE DEF new, hook
    <2> QED BY <2>1, <2>2, <2>3, LogOther DEF SettledOnce, TypeOK
  <1>3. ASSUME NEW r \in Callers, ApplyPaid(r) PROVE SettledOnce'
    <2>1. PICK i \in Creates : i = call[r].intent
      BY <1>3, ApplyTarget DEF ApplyPaid
    <2>2. /\ i \notin receipts /\ receipts' = receipts \cup {i}
          /\ ledger' = LogTo(ledger, i, PaidEvents) /\ outbox' = LogTo(outbox, i, PaidHooks)
      BY <1>3, <2>1 DEF ApplyPaid, PaidEvents, PaidHooks
    <2> SUFFICES ASSUME NEW j \in Creates
                 PROVE  /\ Once("payment_paid", ledger'[j]) /\ Once("receipt_issued", ledger'[j])
                        /\ Once("payment_intent.paid", outbox'[j]) /\ Once("receipt.created", outbox'[j])
                        /\ j \in receipts' <=> Occurs("payment_paid", ledger'[j])
                        /\ j \in receipts' <=> Occurs("receipt_issued", ledger'[j])
                        /\ j \in receipts' <=> Occurs("payment_intent.paid", outbox'[j])
                        /\ j \in receipts' <=> Occurs("receipt.created", outbox'[j])
      BY DEF SettledOnce
    <2>3. CASE j = i
      BY <2>2, <2>3, PaidBatch, LogFirst DEF SettledOnce, TypeOK
    <2>4. CASE j # i
      <3>1. ledger'[j] = ledger[j] /\ outbox'[j] = outbox[j] /\ (j \in receipts' <=> j \in receipts)
        BY <2>2, <2>4 DEF LogTo, TypeOK
      <3> QED BY <3>1 DEF SettledOnce
    <2> QED BY <2>3, <2>4
  <1>4. ASSUME NEW r \in Callers, ApplyNonPaid(r) PROVE SettledOnce'
    <2>1. PICK i \in Creates, target \in RefreshTargets \ {"paid"} :
             i = call[r].intent /\ target = call[r].target
      BY <1>4, ApplyTarget DEF ApplyNonPaid
    <2> DEFINE new == <<LedgerEventByStatus[target], "webhook_queued">>
               hook == <<WebhookTypeByStatus[target]>>
    <2>2. new \in Seq(LedgerTypes) /\ ~Occurs("payment_paid", new) /\ ~Occurs("receipt_issued", new)
      BY <2>1, Statuses_ DEF Occurs, LedgerTypes, LedgerEventByStatus
    <2>3. hook \in Seq(WebhookTypes) /\ ~Occurs("payment_intent.paid", hook) /\ ~Occurs("receipt.created", hook)
      BY <2>1, Statuses_ DEF Occurs, WebhookTypes, WebhookTypeByStatus
    <2>4. ledger' = LogTo(ledger, i, new) /\ outbox' = LogTo(outbox, i, hook) /\ UNCHANGED receipts
      BY <1>4, <2>1 DEF ApplyNonPaid
    <2> HIDE DEF new, hook
    <2> QED BY <2>2, <2>3, <2>4, LogOther DEF SettledOnce, TypeOK
  <1>5. CASE UNCHANGED database
    BY <1>5 DEF database, SettledOnce
  <1> QED BY <1>1, <1>2, <1>3, <1>4, <1>5, Writers

\* However refreshes, demo calls and polls interleave, abort or are cut off by
\* restarts, an intent gets one receipt, one payment_paid, one receipt_issued
\* and one webhook for each, all together or none (applyPaid).
THEOREM SettledOnceHolds == Spec => []SettledOnce
  <1>1. Init => SettledOnce
    BY DEF Init, SettledOnce, Occurs, Once
  <1>2. TypeOK /\ SettledOnce /\ [Next]_vars => SettledOnce'
    BY SettledStep
  <1> QED BY <1>1, <1>2, Typed, PTL DEF Spec

\* Every step keeps receipts to paid invoices.
LEMMA ReceiptStep ==
  ASSUME TypeOK, StagesAgree, ReceiptMeansPaid, [Next]_vars PROVE ReceiptMeansPaid'
  <1> SUFFICES ASSUME NEW j \in receipts' PROVE PaidOrForgotten(j)'
    BY DEF ReceiptMeansPaid
  <1>1. CASE j \in receipts
    BY <1>1, PaidStays DEF ReceiptMeansPaid, StagesAgree
  <1>2. CASE j \notin receipts
    <2>1. PICK r \in Callers : ApplyPaid(r)
      BY <1>2, Writers DEF InsertIntent, Promote, ApplyNonPaid, database
    <2>2. j = call[r].intent /\ PaidOrForgotten(j) /\ UNCHANGED invoice
      BY <1>2, <2>1 DEF ApplyPaid, StagesAgree, CallStage
    <2> QED BY <2>2 DEF PaidOrForgotten
  <1> QED BY <1>1, <1>2

\* A receipt is only ever issued for an invoice that was paid: the adapter's
\* answer may be old when applyPaid commits, but a payment does not go away.
THEOREM ReceiptMeansPaidHolds == Spec => []ReceiptMeansPaid
  <1>1. Init => ReceiptMeansPaid
    BY DEF Init, ReceiptMeansPaid
  <1>2. TypeOK /\ StagesAgree /\ ReceiptMeansPaid /\ [Next]_vars => ReceiptMeansPaid'
    BY ReceiptStep
  <1> QED BY <1>1, <1>2, Typed, PTL DEF Spec

\* A step that leaves an intent in requires_payment found it created, or there.
LEMMA PromotionStep ==
  ASSUME TypeOK, StagesAgree, [Next]_vars, NEW i \in Creates, status'[i] = "requires_payment"
  PROVE  status[i] \in {"created", "requires_payment"}
  <1>1. ASSUME NEW c \in Creates, InsertIntent(c) PROVE status[i] = "requires_payment"
    BY <1>1 DEF InsertIntent, TypeOK
  <1>2. ASSUME NEW c \in Creates, Promote(c) PROVE status[i] \in {"created", "requires_payment"}
    BY <1>2 DEF Promote, TypeOK, StagesAgree, CreateStage
  <1>3. ASSUME NEW r \in Callers, ApplyPaid(r) PROVE status[i] = "requires_payment"
    BY <1>3 DEF ApplyPaid, TypeOK
  <1>4. ASSUME NEW r \in Callers, ApplyNonPaid(r) PROVE status[i] = "requires_payment"
    <2>1. call[r].target \in RefreshTargets
      BY <1>4, ApplyTarget DEF ApplyNonPaid
    <2> QED BY <1>4, <2>1, Statuses_ DEF ApplyNonPaid, TypeOK
  <1>5. CASE UNCHANGED database
    BY <1>5 DEF database
  <1> QED BY <1>1, <1>2, <1>3, <1>4, <1>5, Writers

\* The second transaction of create, which updates by id alone, never overwrites
\* a status that a refresh wrote while the invoice was being created.
THEOREM PromotionUndoesNothingHolds == Spec => PromotionUndoesNothing
  <1>1. TypeOK /\ StagesAgree /\ [Next]_vars
          => [\A i \in Creates : status'[i] = "requires_payment"
                => status[i] \in {"created", "requires_payment"}]_vars
    BY PromotionStep
  <1> QED BY <1>1, Typed, PTL DEF Spec, PromotionUndoesNothing

-----------------------------------------------------------------------------
(* What the ledger says of the status, and of creation *)

\* Every step keeps the shown status backed by its announcements.
LEMMA StatusRecordedStep ==
  ASSUME TypeOK, StatusOnRecord, [Next]_vars PROVE StatusOnRecord'
  <1>1. ASSUME NEW c \in Creates, InsertIntent(c) PROVE StatusOnRecord'
    <2>1. /\ status'[c] \notin RefreshTargets
          /\ \A j \in Creates \ {c} : status'[j] = status[j] /\ ledger'[j] = ledger[j]
          /\ UNCHANGED <<outbox, receipts>>
      BY <1>1, Statuses_ DEF InsertIntent, LogTo, TypeOK
    <2> QED BY <2>1 DEF StatusOnRecord
  <1>2. ASSUME NEW c \in Creates, Promote(c) PROVE StatusOnRecord'
    <2>1. /\ status'[c] \notin RefreshTargets
          /\ \A j \in Creates \ {c} : /\ status'[j] = status[j] /\ ledger'[j] = ledger[j]
                                     /\ outbox'[j] = outbox[j]
          /\ UNCHANGED receipts
      BY <1>2, Statuses_ DEF Promote, LogTo, TypeOK
    <2> QED BY <2>1 DEF StatusOnRecord
  <1>3. ASSUME NEW r \in Callers, ApplyPaid(r) PROVE StatusOnRecord'
    <2>1. PICK i \in Creates : i = call[r].intent
      BY <1>3, ApplyTarget DEF ApplyPaid
    <2>2. /\ receipts' = receipts \cup {i} /\ status' = [status EXCEPT ![i] = "paid"]
          /\ ledger' = LogTo(ledger, i, PaidEvents) /\ outbox' = LogTo(outbox, i, PaidHooks)
      BY <1>3, <2>1 DEF ApplyPaid, PaidEvents, PaidHooks
    <2>3. Occurs("payment_paid", ledger'[i]) /\ Occurs("payment_intent.paid", outbox'[i])
      BY <2>2, PaidBatch, LogFirst DEF TypeOK
    <2>6. \A j \in Creates \ {i} : ledger'[j] = ledger[j] /\ outbox'[j] = outbox[j]
      BY <2>2 DEF LogTo, TypeOK
    <2>4. LedgerEventByStatus["paid"] = "payment_paid" /\ WebhookTypeByStatus["paid"] = "payment_intent.paid"
      BY DEF LedgerEventByStatus, WebhookTypeByStatus
    <2>5. status'[i] = "paid" /\ i \in receipts' /\ receipts \subseteq receipts'
          /\ \A j \in Creates \ {i} : status'[j] = status[j]
      BY <2>2 DEF TypeOK
    <2> QED BY <2>3, <2>4, <2>5, <2>6 DEF StatusOnRecord
  <1>4. ASSUME NEW r \in Callers, ApplyNonPaid(r) PROVE StatusOnRecord'
    <2>1. PICK i \in Creates, target \in RefreshTargets \ {"paid"} :
             i = call[r].intent /\ target = call[r].target
      BY <1>4, ApplyTarget DEF ApplyNonPaid
    <2> DEFINE new == <<LedgerEventByStatus[target], "webhook_queued">>
               hook == <<WebhookTypeByStatus[target]>>
    <2>2. new \in Seq(LedgerTypes) /\ Occurs(LedgerEventByStatus[target], new)
      BY <2>1, Statuses_ DEF Occurs, LedgerTypes, LedgerEventByStatus
    <2>3. hook \in Seq(WebhookTypes) /\ Occurs(WebhookTypeByStatus[target], hook)
      BY <2>1, Statuses_ DEF Occurs, WebhookTypes, WebhookTypeByStatus
    <2>4. /\ ledger' = LogTo(ledger, i, new) /\ outbox' = LogTo(outbox, i, hook)
          /\ UNCHANGED receipts /\ status' = [status EXCEPT ![i] = target]
      BY <1>4, <2>1 DEF ApplyNonPaid
    <2> HIDE DEF new, hook
    <2>5. /\ Occurs(LedgerEventByStatus[target], ledger'[i])
          /\ Occurs(WebhookTypeByStatus[target], outbox'[i])
      BY <2>2, <2>3, <2>4, LogFirst DEF TypeOK
    <2>7. \A j \in Creates \ {i} : ledger'[j] = ledger[j] /\ outbox'[j] = outbox[j]
      BY <2>4 DEF LogTo, TypeOK
    <2>6. status'[i] = target /\ \A j \in Creates \ {i} : status'[j] = status[j]
      BY <2>4 DEF TypeOK
    <2> QED BY <2>1, <2>4, <2>5, <2>6, <2>7 DEF StatusOnRecord
  <1>5. CASE UNCHANGED database
    BY <1>5 DEF database, StatusOnRecord
  <1> QED BY <1>1, <1>2, <1>3, <1>4, <1>5, Writers

\* Whichever of several racing refreshes wrote last, the status an intent shows
\* has its ledger event and webhook, and a paid intent has its receipt.
THEOREM StatusOnRecordHolds == Spec => []StatusOnRecord
  <1>1. Init => StatusOnRecord
    BY Statuses_ DEF Init, StatusOnRecord, Absent
  <1>2. TypeOK /\ StatusOnRecord /\ [Next]_vars => StatusOnRecord'
    BY StatusRecordedStep
  <1> QED BY <1>1, <1>2, Typed, PTL DEF Spec

-----------------------------------------------------------------------------
(* Refreshes of one intent, one after the other *)

\* No two calls work on the same intent at the same time.
Serial ==
    \A r, s \in Callers :
      r # s /\ call[r].pc # "idle" /\ call[s].pc # "idle" => call[r].intent # call[s].intent

\* What a call has read of a promoted intent is still so, and what it is about to
\* write follows from that.
SnapshotsCurrent ==
    \A r \in Callers :
      /\ call[r].pc \in {"query", "apply"} /\ call[r].status # "created"
            => status[call[r].intent] = call[r].status
      /\ call[r].pc = "apply" => Actionable(call[r].status, call[r].target)

\* The statuses an intent can have once it had this one.
Since(s) == IF s = "processing" THEN RefreshTargets ELSE {s}

\* What NoDuplicateEvents says, and that the status still shows every event.
EventsFollowStatus ==
    \A i \in Creates : \A s \in RefreshTargets :
      /\ Once(LedgerEventByStatus[s], ledger[i]) /\ Once(WebhookTypeByStatus[s], outbox[i])
      /\ Occurs(LedgerEventByStatus[s], ledger[i]) => status[i] \in Since(s)
      /\ Occurs(WebhookTypeByStatus[s], outbox[i]) => status[i] \in Since(s)

\* How a call comes to what it holds.
LEMMA CallMoves ==
  ASSUME TypeOK, [Next]_vars, NEW q \in Callers
  PROVE  \/ call'[q] = call[q]
         \/ call'[q].pc \in {"idle", "load"}
         \/ UNCHANGED status /\ \E i \in Creates : LoadIntent(q, i)
         \/ UNCHANGED status /\ QueryAdapter(q)
  <1> DEFINE Moves == \/ call'[q] = call[q]
                      \/ call'[q].pc \in {"idle", "load"}
                      \/ UNCHANGED status /\ \E i \in Creates : LoadIntent(q, i)
                      \/ UNCHANGED status /\ QueryAdapter(q)
  <1>0. call \in [Callers -> CallStates] /\ Poller \in Callers /\ Idle.pc = "idle"
    BY DEF TypeOK, Callers, Idle
  <1>1. ASSUME NEW r \in Callers, NEW i \in Creates, LoadIntent(r, i), UNCHANGED status PROVE Moves
    <2>1. CASE r = q
      BY <1>1, <2>1
    <2>2. CASE r # q
      BY <1>0, <1>1, <2>2 DEF LoadIntent
    <2> QED BY <2>1, <2>2
  <1>2. ASSUME NEW r \in Callers, call' = [call EXCEPT ![r] = Idle] PROVE Moves
    BY <1>0, <1>2
  <1>3. ASSUME NEW r \in Callers, QueryAdapter(r) PROVE Moves
    <2>1. UNCHANGED status
      BY <1>3 DEF QueryAdapter, database
    <2>2. CASE r = q
      BY <1>3, <2>1, <2>2
    <2>3. CASE r # q
      BY <1>0, <1>3, <2>3 DEF QueryAdapter
    <2> QED BY <2>2, <2>3
  <1>4. ASSUME NEW r \in Callers, NEW i \in Creates, NEW a \in DemoActions, DemoMark(r, i, a) PROVE Moves
    BY <1>0, <1>4 DEF DemoMark
  <1>5. ASSUME NEW r \in Callers, NEW i \in Creates, Refresh(r, i) PROVE Moves
    BY <1>1, <1>5 DEF Refresh, database
  <1>6. ASSUME NEW r \in Callers, LoadAfterMark(r) PROVE Moves
    <2>1. call[r].intent \in Creates
      BY <1>0, <1>6 DEF LoadAfterMark, CallStates, Idle
    <2> QED BY <1>1, <1>6, <2>1 DEF LoadAfterMark, database
  <1>7. ASSUME PollNext PROVE Moves
    <2>1. PICK i \in todo : LoadIntent(Poller, i) /\ i \in Creates /\ UNCHANGED status
      BY <1>7 DEF PollNext, database, TypeOK
    <2> QED BY <1>0, <1>1, <2>1
  <1>8. ASSUME NEW r \in Callers,
               QueryFails(r) \/ ApplyPaid(r) \/ RejectReceipt(r) \/ ApplyNonPaid(r) \/ ApplyAborts(r)
        PROVE  Moves
    BY <1>2, <1>8 DEF QueryFails, ApplyPaid, RejectReceipt, ApplyNonPaid, ApplyAborts
  <1>9. CASE Restart
    BY <1>0, <1>9 DEF Restart
  <1>10. CASE UNCHANGED call
    BY <1>10
  <1>11. \/ \E r \in Callers, i \in Creates : Refresh(r, i) \/ \E a \in DemoActions : DemoMark(r, i, a)
         \/ \E r \in Callers : CallNext(r)
         \/ PollNext \/ Restart \/ UNCHANGED call
    BY DEF Next, CreateNext, StartCall, PollNextState, Callers, vars,
           ReplayStored, RejectKeyReuse, AcceptCreate, InsertIntent, RejectInsert, CreateInvoice,
           InvoiceFails, Promote, RejectPromote, CreateAborts, PollTick, PollEnd, NodeMove
  <1> QED BY <1>3, <1>4, <1>5, <1>6, <1>7, <1>8, <1>9, <1>10, <1>11 DEF CallNext

\* Creation writes the status of intents that no call has read as promoted, and
\* nothing that a settlement writes.
LEMMA CreationWrites ==
  ASSUME TypeOK, StagesAgree, NEW c \in Creates, InsertIntent(c) \/ Promote(c)
  PROVE  /\ UNCHANGED call
         /\ status[c] \in {Absent, "created"} /\ c \notin Promoted
         /\ status'[c] \in {"created", "requires_payment"}
         /\ \A j \in Creates \ {c} : status'[j] = status[j]
         /\ \E events \in Seq(LedgerTypes), hooks \in Seq(WebhookTypes) :
              /\ ledger' = LogTo(ledger, c, events) /\ outbox' = LogTo(outbox, c, hooks)
              /\ \A s \in RefreshTargets : /\ ~Occurs(LedgerEventByStatus[s], events)
                                           /\ ~Occurs(WebhookTypeByStatus[s], hooks)
  <1>1. CASE InsertIntent(c)
    <2> DEFINE events == <<"payment_intent_created">>
               hooks == <<>>
    <2>1. /\ UNCHANGED call /\ status[c] = Absent /\ status'[c] = "created"
          /\ \A j \in Creates \ {c} : status'[j] = status[j]
      BY <1>1 DEF InsertIntent, StagesAgree, CreateStage, TypeOK
    <2>2. ledger' = LogTo(ledger, c, events) /\ outbox' = LogTo(outbox, c, hooks)
      BY <1>1 DEF InsertIntent, LogTo, TypeOK
    <2>3. events \in Seq(LedgerTypes) /\ hooks \in Seq(WebhookTypes)
      BY DEF LedgerTypes
    <2>4. \A s \in RefreshTargets : /\ ~Occurs(LedgerEventByStatus[s], events)
                                    /\ ~Occurs(WebhookTypeByStatus[s], hooks)
      BY Statuses_ DEF Occurs, LedgerEventByStatus
    <2> HIDE DEF events, hooks
    <2> QED BY <2>1, <2>2, <2>3, <2>4 DEF Promoted
  <1>2. CASE Promote(c)
    <2> DEFINE events == <<"invoice_created", "webhook_queued">>
               hooks == <<"payment_intent.created">>
    <2>1. /\ UNCHANGED call /\ status[c] = "created" /\ status'[c] = "requires_payment"
          /\ \A j \in Creates \ {c} : status'[j] = status[j]
      BY <1>2 DEF Promote, StagesAgree, CreateStage, TypeOK
    <2>2. ledger' = LogTo(ledger, c, events) /\ outbox' = LogTo(outbox, c, hooks)
      BY <1>2 DEF Promote
    <2>3. events \in Seq(LedgerTypes) /\ hooks \in Seq(WebhookTypes)
      BY DEF LedgerTypes, WebhookTypes
    <2>4. \A s \in RefreshTargets : /\ ~Occurs(LedgerEventByStatus[s], events)
                                    /\ ~Occurs(WebhookTypeByStatus[s], hooks)
      BY Statuses_ DEF Occurs, LedgerEventByStatus, WebhookTypeByStatus
    <2> HIDE DEF events, hooks
    <2> QED BY <2>1, <2>2, <2>3, <2>4 DEF Promoted
  <1> QED BY <1>1, <1>2

\* A settlement announces the status it writes once, and no other.
LEMMA SettlementWrites ==
  ASSUME TypeOK, NEW r \in Callers, ApplyPaid(r) \/ ApplyNonPaid(r)
  PROVE  \E i \in Creates, t \in RefreshTargets :
           \E events \in Seq(LedgerTypes), hooks \in Seq(WebhookTypes) :
           /\ call[r].pc = "apply" /\ call[r].intent = i /\ call[r].target = t
           /\ call' = [call EXCEPT ![r] = Idle] /\ status' = [status EXCEPT ![i] = t]
           /\ ledger' = LogTo(ledger, i, events) /\ outbox' = LogTo(outbox, i, hooks)
           /\ Occurs(LedgerEventByStatus[t], events) /\ Once(LedgerEventByStatus[t], events)
           /\ Occurs(WebhookTypeByStatus[t], hooks) /\ Once(WebhookTypeByStatus[t], hooks)
           /\ \A s \in RefreshTargets \ {t} : /\ ~Occurs(LedgerEventByStatus[s], events)
                                              /\ ~Occurs(WebhookTypeByStatus[s], hooks)
  <1>1. PICK i \in Creates, t \in RefreshTargets : i = call[r].intent /\ t = call[r].target
    BY ApplyTarget DEF ApplyPaid, ApplyNonPaid
  <1>2. CASE ApplyPaid(r)
    <2>1. /\ call[r].pc = "apply" /\ call' = [call EXCEPT ![r] = Idle]
          /\ t = "paid" /\ status' = [status EXCEPT ![i] = t]
          /\ ledger' = LogTo(ledger, i, PaidEvents) /\ outbox' = LogTo(outbox, i, PaidHooks)
      BY <1>1, <1>2 DEF ApplyPaid, PaidEvents, PaidHooks
    <2>2. LedgerEventByStatus[t] = "payment_paid" /\ WebhookTypeByStatus[t] = "payment_intent.paid"
      BY <2>1 DEF LedgerEventByStatus, WebhookTypeByStatus
    <2>3. \A s \in RefreshTargets \ {t} : /\ ~Occurs(LedgerEventByStatus[s], PaidEvents)
                                          /\ ~Occurs(WebhookTypeByStatus[s], PaidHooks)
      <3> SUFFICES ASSUME NEW s \in {"processing", "expired", "failed"}
                   PROVE  /\ ~Occurs(LedgerEventByStatus[s], PaidEvents)
                          /\ ~Occurs(WebhookTypeByStatus[s], PaidHooks)
        BY <2>1, Statuses_
      <3> QED BY DEF Occurs, PaidEvents, PaidHooks, LedgerEventByStatus, WebhookTypeByStatus
    <2>4. /\ PaidEvents \in Seq(LedgerTypes) /\ PaidHooks \in Seq(WebhookTypes)
          /\ Occurs(LedgerEventByStatus[t], PaidEvents) /\ Once(LedgerEventByStatus[t], PaidEvents)
          /\ Occurs(WebhookTypeByStatus[t], PaidHooks) /\ Once(WebhookTypeByStatus[t], PaidHooks)
      BY <2>2, PaidBatch
    <2> QED BY <1>1, <2>1, <2>3, <2>4
  <1>3. CASE ApplyNonPaid(r)
    <2> DEFINE events == <<LedgerEventByStatus[t], "webhook_queued">>
               hooks == <<WebhookTypeByStatus[t]>>
    <2>1. /\ call[r].pc = "apply" /\ call' = [call EXCEPT ![r] = Idle]
          /\ status' = [status EXCEPT ![i] = t]
          /\ ledger' = LogTo(ledger, i, events) /\ outbox' = LogTo(outbox, i, hooks)
      BY <1>1, <1>3 DEF ApplyNonPaid
    <2>2. events \in Seq(LedgerTypes) /\ hooks \in Seq(WebhookTypes)
      BY Statuses_ DEF LedgerTypes, WebhookTypes, LedgerEventByStatus, WebhookTypeByStatus
    <2>3. /\ Occurs(LedgerEventByStatus[t], events) /\ Once(LedgerEventByStatus[t], events)
          /\ Occurs(WebhookTypeByStatus[t], hooks) /\ Once(WebhookTypeByStatus[t], hooks)
      BY Statuses_ DEF Occurs, Once, LedgerEventByStatus, WebhookTypeByStatus
    <2>4. \A s \in RefreshTargets \ {t} : /\ ~Occurs(LedgerEventByStatus[s], events)
                                          /\ ~Occurs(WebhookTypeByStatus[s], hooks)
      BY Statuses_ DEF Occurs, LedgerEventByStatus, WebhookTypeByStatus
    <2> HIDE DEF events, hooks
    <2> QED BY <1>1, <2>1, <2>2, <2>3, <2>4
  <1> QED BY <1>2, <1>3

\* While calls on an intent do not overlap, what a call has read stays so.
LEMMA SnapshotStep ==
  ASSUME TypeOK, StagesAgree, Serial, SnapshotsCurrent, [Next]_vars
  PROVE  SnapshotsCurrent'
  <1> DEFINE Current(x) ==
               /\ x.pc \in {"query", "apply"} /\ x.status # "created" => status'[x.intent] = x.status
               /\ x.pc = "apply" => Actionable(x.status, x.target)
  <1> SUFFICES ASSUME NEW q \in Callers PROVE Current(call'[q])
    BY DEF SnapshotsCurrent
  <1>0. call[q] \in CallStates
    BY DEF TypeOK
  <1>1. CASE call'[q] = call[q]
    <2> SUFFICES ASSUME call[q].pc \in {"query", "apply"}, call[q].status # "created"
                 PROVE  status'[call[q].intent] = status[call[q].intent]
      BY <1>1 DEF SnapshotsCurrent
    <2>0. call[q].intent \in Promoted /\ call[q].intent \in Creates
      BY DEF StagesAgree, CallStage, Promoted
    <2>1. ASSUME NEW c \in Creates, InsertIntent(c) \/ Promote(c)
          PROVE  status'[call[q].intent] = status[call[q].intent]
      BY <2>0, <2>1, CreationWrites
    <2>2. ASSUME NEW r \in Callers, ApplyPaid(r) \/ ApplyNonPaid(r)
          PROVE  status'[call[q].intent] = status[call[q].intent]
      <3>1. PICK i \in Creates, t \in RefreshTargets :
               /\ call[r].pc = "apply" /\ call[r].intent = i
               /\ call' = [call EXCEPT ![r] = Idle] /\ status' = [status EXCEPT ![i] = t]
        BY <2>2, SettlementWrites
      <3>2. q # r
        BY <1>1, <3>1 DEF Idle, TypeOK
      <3>3. call[q].intent # i
        BY <3>1, <3>2 DEF Serial
      <3> QED BY <2>0, <3>1, <3>3 DEF TypeOK
    <2> QED BY <2>1, <2>2, Writers DEF database
  <1>2. CASE call'[q].pc \in {"idle", "load"}
    BY <1>2
  <1>3. ASSUME UNCHANGED status, NEW i \in Creates, LoadIntent(q, i) PROVE Current(call'[q])
    <2>1. CASE IsTerminalStatus(status[i])
      <3>1. call'[q] = Idle
        BY <1>3, <2>1 DEF LoadIntent, TypeOK
      <3> QED BY <3>1 DEF Idle
    <2>2. CASE ~IsTerminalStatus(status[i])
      <3>1. call'[q] = [pc |-> "query", intent |-> i, status |-> status[i], target |-> "none"]
        BY <1>3, <2>2 DEF LoadIntent, TypeOK
      <3> QED BY <1>3, <3>1
    <2> QED BY <2>1, <2>2
  <1>4. ASSUME UNCHANGED status, QueryAdapter(q) PROVE Current(call'[q])
    <2>1. PICK s \in SeenByAdapter(q) :
            LET target == IntentStatusFromAdapterStatus(Reported(s))
            IN  call' = [call EXCEPT ![q] =
                           IF Actionable(@.status, target)
                           THEN [pc |-> "apply", intent |-> call[q].intent,
                                 status |-> @.status, target |-> target]
                           ELSE Idle]
      BY <1>4 DEF QueryAdapter
    <2> DEFINE target == IntentStatusFromAdapterStatus(Reported(s))
    <2>2. call[q].pc = "query"
      BY <1>4 DEF QueryAdapter
    <2>3. CASE Actionable(call[q].status, target)
      <3>1. call'[q] = [pc |-> "apply", intent |-> call[q].intent,
                        status |-> call[q].status, target |-> target]
        BY <2>1, <2>3 DEF TypeOK
      <3> HIDE DEF target
      <3> QED BY <1>4, <2>2, <2>3, <3>1 DEF SnapshotsCurrent
    <2>4. CASE ~Actionable(call[q].status, target)
      <3>1. call'[q] = Idle
        BY <2>1, <2>4 DEF TypeOK
      <3> QED BY <3>1 DEF Idle
    <2> QED BY <2>3, <2>4
  <1> HIDE DEF Current
  <1> QED BY <1>1, <1>2, <1>3, <1>4, CallMoves

\* A status is written over one that leads to it: it was not there before.
LEMMA MoveIsNew ==
  ASSUME TypeOK, SnapshotsCurrent, NEW r \in Callers, call[r].pc = "apply"
  PROVE  LET from == status[call[r].intent]
             to == call[r].target
         IN  /\ from \in {"requires_payment", "processing"}
             /\ from \notin Since(to)
             /\ \A s \in RefreshTargets : from \in Since(s) => to \in Since(s)
  <1>1. /\ call[r].status \in {"requires_payment", "processing"}
        /\ call[r].target \in RefreshTargets
    <2>1. call[r] \in CallStates
      BY DEF TypeOK
    <2> QED BY <2>1 DEF CallStates, Idle
  <1>2. Actionable(call[r].status, call[r].target) /\ status[call[r].intent] = call[r].status
    BY <1>1 DEF SnapshotsCurrent
  <1>3. CASE call[r].status = "requires_payment"
    BY <1>1, <1>2, <1>3, Statuses_ DEF Since
  <1>4. CASE call[r].status = "processing"
    <2>1. call[r].target \in {"paid", "expired", "failed"}
      BY <1>2, <1>4 DEF Actionable, CanTransition, AllowedTransitions
    <2> QED BY <1>2, <1>4, <2>1, Statuses_ DEF Since
  <1> QED BY <1>1, <1>3, <1>4

\* A transaction that announces a status finds it unannounced.
LEMMA EventsStep ==
  ASSUME TypeOK, StagesAgree, SnapshotsCurrent, EventsFollowStatus, [Next]_vars
  PROVE  EventsFollowStatus'
  <1> DEFINE Follows(j, s) ==
               /\ Once(LedgerEventByStatus[s], ledger'[j]) /\ Once(WebhookTypeByStatus[s], outbox'[j])
               /\ Occurs(LedgerEventByStatus[s], ledger'[j]) => status'[j] \in Since(s)
               /\ Occurs(WebhookTypeByStatus[s], outbox'[j]) => status'[j] \in Since(s)
  <1> SUFFICES ASSUME NEW j \in Creates, NEW s \in RefreshTargets PROVE Follows(j, s)
    BY DEF EventsFollowStatus
  <1>0. ledger \in [Creates -> Seq(LedgerTypes)] /\ outbox \in [Creates -> Seq(WebhookTypes)]
    BY DEF TypeOK
  <1>1. ASSUME NEW c \in Creates, InsertIntent(c) \/ Promote(c) PROVE Follows(j, s)
    <2>1. PICK events \in Seq(LedgerTypes), hooks \in Seq(WebhookTypes) :
            /\ ledger' = LogTo(ledger, c, events) /\ outbox' = LogTo(outbox, c, hooks)
            /\ ~Occurs(LedgerEventByStatus[s], events) /\ ~Occurs(WebhookTypeByStatus[s], hooks)
      BY <1>1, CreationWrites
    <2>2. /\ Once(LedgerEventByStatus[s], ledger'[j]) /\ Once(WebhookTypeByStatus[s], outbox'[j])
          /\ Occurs(LedgerEventByStatus[s], ledger'[j]) => Occurs(LedgerEventByStatus[s], ledger[j])
          /\ Occurs(WebhookTypeByStatus[s], outbox'[j]) => Occurs(WebhookTypeByStatus[s], outbox[j])
      BY <1>0, <2>1, LogOther DEF EventsFollowStatus
    <2>3. status[j] \in Since(s) => status'[j] = status[j]
      BY <1>1, CreationWrites, Statuses_ DEF Since, Absent
    <2> QED BY <2>2, <2>3 DEF EventsFollowStatus
  <1>2. ASSUME NEW r \in Callers, ApplyPaid(r) \/ ApplyNonPaid(r) PROVE Follows(j, s)
    <2>1. PICK i \in Creates, t \in RefreshTargets :
           \E events \in Seq(LedgerTypes), hooks \in Seq(WebhookTypes) :
           /\ call[r].pc = "apply" /\ call[r].intent = i /\ call[r].target = t
           /\ status' = [status EXCEPT ![i] = t]
           /\ ledger' = LogTo(ledger, i, events) /\ outbox' = LogTo(outbox, i, hooks)
           /\ Occurs(LedgerEventByStatus[t], events) /\ Once(LedgerEventByStatus[t], events)
           /\ Occurs(WebhookTypeByStatus[t], hooks) /\ Once(WebhookTypeByStatus[t], hooks)
           /\ \A z \in RefreshTargets \ {t} : /\ ~Occurs(LedgerEventByStatus[z], events)
                                              /\ ~Occurs(WebhookTypeByStatus[z], hooks)
      BY <1>2, SettlementWrites
    <2>2. PICK events \in Seq(LedgerTypes), hooks \in Seq(WebhookTypes) :
           /\ ledger' = LogTo(ledger, i, events) /\ outbox' = LogTo(outbox, i, hooks)
           /\ Occurs(LedgerEventByStatus[t], events) /\ Once(LedgerEventByStatus[t], events)
           /\ Occurs(WebhookTypeByStatus[t], hooks) /\ Once(WebhookTypeByStatus[t], hooks)
           /\ \A z \in RefreshTargets \ {t} : /\ ~Occurs(LedgerEventByStatus[z], events)
                                              /\ ~Occurs(WebhookTypeByStatus[z], hooks)
      BY <2>1
    <2>3. /\ status'[i] = t /\ \A k \in Creates \ {i} : status'[k] = status[k]
          /\ status[i] \notin Since(t)
          /\ \A z \in RefreshTargets : status[i] \in Since(z) => t \in Since(z)
      BY <2>1, MoveIsNew DEF TypeOK
    <2>4. CASE j # i
      <3>1. ledger'[j] = ledger[j] /\ outbox'[j] = outbox[j] /\ status'[j] = status[j]
        BY <1>0, <2>2, <2>3, <2>4 DEF LogTo
      <3> QED BY <3>1 DEF EventsFollowStatus
    <2>5. CASE j = i /\ s = t
      <3>1. ~Occurs(LedgerEventByStatus[t], ledger[i]) /\ ~Occurs(WebhookTypeByStatus[t], outbox[i])
        BY <2>3 DEF EventsFollowStatus
      <3>2. Once(LedgerEventByStatus[t], ledger'[i]) /\ Once(WebhookTypeByStatus[t], outbox'[i])
        BY <1>0, <2>2, <3>1, LogFirst
      <3>3. t \in Since(t)
        BY DEF Since
      <3> QED BY <2>3, <2>5, <3>2, <3>3
    <2>6. CASE j = i /\ s # t
      <3>1. ~Occurs(LedgerEventByStatus[s], events) /\ ~Occurs(WebhookTypeByStatus[s], hooks)
        BY <2>2, <2>6
      <3>2. /\ Once(LedgerEventByStatus[s], ledger'[i]) /\ Once(WebhookTypeByStatus[s], outbox'[i])
            /\ Occurs(LedgerEventByStatus[s], ledger'[i]) => Occurs(LedgerEventByStatus[s], ledger[i])
            /\ Occurs(WebhookTypeByStatus[s], outbox'[i]) => Occurs(WebhookTypeByStatus[s], outbox[i])
        BY <1>0, <2>2, <3>1, LogOther DEF EventsFollowStatus
      <3> QED BY <2>3, <2>6, <3>2 DEF EventsFollowStatus
    <2> QED BY <2>4, <2>5, <2>6
  <1>3. CASE UNCHANGED database
    BY <1>3 DEF database, EventsFollowStatus
  <1> HIDE DEF Follows
  <1> QED BY <1>1, <1>2, <1>3, Writers

\* While calls on an intent do not overlap, a settled one stays as it is.
LEMMA TerminalStep ==
  ASSUME TypeOK, StagesAgree, SnapshotsCurrent, [Next]_vars,
         NEW i \in Creates, IsTerminalStatus(status[i])
  PROVE  status'[i] = status[i]
  <1>1. ASSUME NEW c \in Creates, InsertIntent(c) \/ Promote(c) PROVE status'[i] = status[i]
    <2>1. c # i
      BY <1>1, CreationWrites DEF IsTerminalStatus, TerminalStatuses, Absent
    <2> QED BY <1>1, <2>1, CreationWrites
  <1>2. ASSUME NEW r \in Callers, ApplyPaid(r) \/ ApplyNonPaid(r) PROVE status'[i] = status[i]
    <2>1. PICK j \in Creates, t \in RefreshTargets :
            call[r].pc = "apply" /\ call[r].intent = j /\ status' = [status EXCEPT ![j] = t]
      BY <1>2, SettlementWrites
    <2>2. j # i
      BY <2>1, MoveIsNew DEF IsTerminalStatus, TerminalStatuses
    <2> QED BY <2>1, <2>2 DEF TypeOK
  <1>3. CASE UNCHANGED database
    BY <1>3 DEF database
  <1> QED BY <1>1, <1>2, <1>3, Writers

LEMMA SerialInit == Init => SnapshotsCurrent /\ EventsFollowStatus
  BY DEF Init, SnapshotsCurrent, EventsFollowStatus, Idle, Occurs, Once

\* The overlap of two refreshes is the only thing that duplicates an event or
\* moves a settled intent: where the refreshes of an intent come one after the
\* other, each event is recorded and announced once and a terminal status is
\* final, whatever creation, node, poller and restarts do meanwhile
\* (payment-status-tracker.ts:77-194).
THEOREM SerialRefreshesHold == Spec /\ []Serial => []NoDuplicateEvents /\ TerminalIsFinal
  <1>1. Init => SnapshotsCurrent /\ EventsFollowStatus
    BY SerialInit
  <1>2. TypeOK /\ StagesAgree /\ Serial /\ SnapshotsCurrent /\ EventsFollowStatus /\ [Next]_vars
          => SnapshotsCurrent' /\ EventsFollowStatus'
    BY SnapshotStep, EventsStep
  <1>3. EventsFollowStatus => NoDuplicateEvents
    BY DEF EventsFollowStatus, NoDuplicateEvents
  <1>4. TypeOK /\ StagesAgree /\ SnapshotsCurrent /\ [Next]_vars
          => [\A i \in Creates : IsTerminalStatus(status[i]) => status'[i] = status[i]]_vars
    BY TerminalStep
  <1> QED BY <1>1, <1>2, <1>3, <1>4, Typed, PTL DEF Spec, TerminalIsFinal

\* With the status poller as the only one to refresh, every settlement event is
\* recorded and announced once: its sweep takes one intent after the other, and
\* the guard keeps a second sweep out (status-poller.ts:22-63).
THEOREM PollerAloneHolds ==
  ASSUME Calls = {} PROVE Spec => []NoDuplicateEvents /\ TerminalIsFinal
  <1>1. Serial
    BY DEF Serial, Callers
  <1> QED BY <1>1, SerialRefreshesHold, PTL

-----------------------------------------------------------------------------
(* Uniqueness of intents *)

\* The request of an intent never changes once the intent is in the database.
LEMMA RequestStays ==
  ASSUME TypeOK, StagesAgree, [Next]_vars, NEW d \in Inserted
  PROVE  create'[d].req = create[d].req
  <1>0. d \in Creates /\ create[d].pc # "new"
    BY DEF Inserted, StagesAgree, CreateStage
  <1>1. ASSUME NEW c \in Creates, CreateNext(c) PROVE create'[d].req = create[d].req
    <2>1. CASE c # d
      BY <1>0, <1>1, <2>1 DEF CreateNext, ReplayStored, RejectKeyReuse, AcceptCreate,
         InsertIntent, RejectInsert, CreateInvoice, InvoiceFails, Promote, RejectPromote,
         CreateAborts, Reply, Advance, TypeOK
    <2>2. CASE c = d
      <3>1. \/ \E code, i : Reply(d, code, i)
            \/ \E step : Advance(d, step)
        BY <1>0, <1>1, <2>2 DEF CreateNext, ReplayStored, RejectKeyReuse, AcceptCreate,
           InsertIntent, RejectInsert, CreateInvoice, InvoiceFails, Promote, RejectPromote,
           CreateAborts
      <3>2. create[d] \in CreateStates
        BY <1>0 DEF TypeOK
      <3> QED BY <1>0, <3>1, <3>2 DEF Reply, Advance, Answered, TypeOK, CreateStates
    <2> QED BY <2>1, <2>2
  <1>2. CASE Restart
    BY <1>0, <1>2 DEF Restart, Answered
  <1>3. CASE UNCHANGED create
    BY <1>3
  <1>4. (\E c \in Creates : CreateNext(c)) \/ Restart \/ UNCHANGED create
    BY DEF Next, StartCall, CallNext, PollNextState, Callers, vars, Refresh, DemoMark,
           LoadAfterMark, QueryAdapter, QueryFails, ApplyPaid, RejectReceipt, ApplyNonPaid,
           ApplyAborts, PollTick, PollNext, PollEnd, NodeMove
  <1> QED BY <1>1, <1>2, <1>3, <1>4

\* Only the insert adds an intent, and only one that clashes with none.
LEMMA UniqueStep ==
  ASSUME TypeOK, StagesAgree, OneIntentPerOrder, [Next]_vars PROVE OneIntentPerOrder'
  <1>1. \A d \in Inserted : create'[d].req = create[d].req
    BY RequestStays
  <1>2. CASE Inserted' = Inserted
    BY <1>1, <1>2 DEF OneIntentPerOrder, SameOrder, SameKey
  <1>3. ASSUME NEW c \in Creates, InsertIntent(c) PROVE OneIntentPerOrder'
    <2>1. Inserted' = Inserted \cup {c}
      BY <1>3 DEF InsertIntent, Inserted, TypeOK, Absent
    <2>2. \A d \in Inserted : ~SameOrder(c, d) /\ ~SameKey(c, d)
      BY <1>3 DEF InsertIntent, InsertErrors
    <2>3. create'[c].req = create[c].req
      BY <1>3 DEF InsertIntent, Advance, TypeOK, CreateStates
    <2>4. \A d, e \in Inserted \cup {c} : create'[d].req = create[d].req /\ create'[e].req = create[e].req
      BY <1>1, <2>3
    <2>5. \A d, e \in Inserted \cup {c} : d # e => ~SameOrder(d, e) /\ ~SameKey(d, e)
      BY <2>2 DEF OneIntentPerOrder, SameOrder, SameKey
    <2> QED BY <2>1, <2>4, <2>5 DEF OneIntentPerOrder, SameOrder, SameKey
  <1>4. ASSUME NEW c \in Creates, Promote(c) PROVE Inserted' = Inserted
    BY <1>4 DEF Promote, StagesAgree, CreateStage, Inserted, TypeOK, Absent
  <1>5. ASSUME NEW r \in Callers, ApplyPaid(r) \/ ApplyNonPaid(r) PROVE Inserted' = Inserted
    <2>0. call[r].pc = "apply" /\ call[r] \in CallStates
      BY <1>5 DEF ApplyPaid, ApplyNonPaid, TypeOK
    <2>1. call[r].target \in RefreshTargets /\ call[r].status # "created"
      BY <2>0 DEF CallStates, Idle
    <2>2. call[r].intent \in Promoted
      BY <2>0, <2>1 DEF StagesAgree, CallStage
    <2> QED BY <1>5, <2>1, <2>2, Statuses_ DEF ApplyPaid, ApplyNonPaid, Inserted, Promoted, TypeOK, Absent
  <1>6. CASE UNCHANGED database
    BY <1>2, <1>6 DEF database, Inserted
  <1> QED BY <1>2, <1>3, <1>4, <1>5, <1>6, Writers

\* No interleaving of create requests stores two intents for one order, or under
\* one Idempotency-Key, of a merchant.
THEOREM OneIntentPerOrderHolds == Spec => []OneIntentPerOrder
  <1>1. Init => OneIntentPerOrder
    BY DEF Init, OneIntentPerOrder, Inserted
  <1>2. TypeOK /\ StagesAgree /\ OneIntentPerOrder /\ [Next]_vars => OneIntentPerOrder'
    BY UniqueStep
  <1> QED BY <1>1, <1>2, Typed, PTL DEF Spec

-----------------------------------------------------------------------------
(* Creation leads the ledger *)

\* Appending to a log that has an entry leaves its first entries in place.
LEMMA LogHeads ==
  ASSUME NEW T, NEW log \in [Creates -> Seq(T)], NEW i \in Creates,
         NEW events \in Seq(T), Len(log[i]) > 1
  PROVE  LET new == LogTo(log, i, events)[i]
         IN  Len(new) > 1 /\ new[1] = log[i][1] /\ new[2] = log[i][2] /\ new # <<>>
  BY DEF LogTo

\* What CreationLeadsLedger says of one intent.
Leads(log, s) ==
    /\ Once("payment_intent_created", log) /\ Once("invoice_created", log)
    /\ log # <<>> => log[1] = "payment_intent_created"
    /\ Len(log) > 1 => log[2] = "invoice_created"
    /\ log # <<>> <=> s # Absent
    /\ Len(log) > 1 <=> s \notin {Absent, "created"}

\* The ledger of an intent before its promotion.
LEMMA CreationLog == Leads(<<"payment_intent_created">>, "created")
  BY DEF Leads, Once, Absent

\* A log with an entry and no second one.
LEMMA OneEntry ==
  ASSUME NEW T, NEW log \in Seq(T), log # <<>>, ~(Len(log) > 1)
  PROVE  log = <<log[1]>>
  <1>1. Len(log) \in Nat /\ Len(log) # 0
    BY EmptySeq
  <1>2. Len(log) = 1
    BY <1>1
  <1> QED BY <1>2

\* Where the entries appended to a log are found.
LEMMA LogJoined ==
  ASSUME NEW T, NEW log \in [Creates -> Seq(T)], NEW i \in Creates,
         NEW events \in Seq(T), Len(log[i]) > 0, Len(events) > 0
  PROVE  LET new == LogTo(log, i, events)[i]
         IN  /\ Len(new) = Len(log[i]) + Len(events) /\ new # <<>>
             /\ new[1] = log[i][1] /\ new[Len(log[i]) + 1] = events[1]
  BY DEF LogTo

\* A settlement appends to the ledger of a promoted intent, and promotes none.
LEMMA LeadsSettled ==
  ASSUME TypeOK, NEW i \in Promoted, NEW new \in Seq(LedgerTypes), NEW s \in RefreshTargets,
         ~Occurs("payment_intent_created", new), ~Occurs("invoice_created", new),
         Leads(ledger[i], status[i])
  PROVE  Leads(LogTo(ledger, i, new)[i], s)
  <1>1. i \in Creates /\ ledger \in [Creates -> Seq(LedgerTypes)] /\ Len(ledger[i]) > 1
    BY DEF Promoted, Leads, TypeOK
  <1> DEFINE log == LogTo(ledger, i, new)[i]
  <1>2. Len(log) > 1 /\ log[1] = ledger[i][1] /\ log[2] = ledger[i][2] /\ log # <<>>
    BY <1>1, LogHeads
  <1>3. Once("payment_intent_created", log) /\ Once("invoice_created", log)
    <2>1. Once("payment_intent_created", ledger[i]) /\ Once("invoice_created", ledger[i])
      BY DEF Leads
    <2> QED BY <1>1, <2>1, LogOther
  <1>4. ledger[i][1] = "payment_intent_created" /\ ledger[i][2] = "invoice_created"
    BY <1>1 DEF Leads
  <1>5. s \notin {Absent, "created"}
    BY Statuses_ DEF Absent
  <1>6. Leads(log, s)
    <2> HIDE DEF log
    <2> QED BY <1>2, <1>3, <1>4, <1>5 DEF Leads
  <1> QED BY <1>6

\* Every transaction keeps creation in front: the insert opens an empty ledger,
\* the promotion finds the single entry of the insert, and a settlement finds both.
LEMMA LeadsStep ==
  ASSUME TypeOK, StagesAgree, CreationLeadsLedger, [Next]_vars PROVE CreationLeadsLedger'
  <1>0. \A j \in Creates : Leads(ledger[j], status[j])
    BY DEF CreationLeadsLedger, Leads
  <1> SUFFICES ASSUME NEW j \in Creates PROVE Leads(ledger'[j], status'[j])
    BY DEF CreationLeadsLedger, Leads
  <1>1. ASSUME NEW c \in Creates, InsertIntent(c) PROVE Leads(ledger'[j], status'[j])
    <2>1. CASE j = c
      <3>1. ledger[c] = <<>>
        BY <1>0, <1>1 DEF InsertIntent, StagesAgree, CreateStage, Leads
      <3>2. ledger'[c] = <<"payment_intent_created">> /\ status'[c] = "created"
        BY <1>1, <3>1 DEF InsertIntent, LogTo, TypeOK
      <3> QED BY <2>1, <3>2, CreationLog
    <2>2. CASE j # c
      BY <1>0, <1>1, <2>2 DEF InsertIntent, LogTo, TypeOK
    <2> QED BY <2>1, <2>2
  <1>2. ASSUME NEW c \in Creates, Promote(c) PROVE Leads(ledger'[j], status'[j])
    <2>1. CASE j = c
      <3> DEFINE new == <<"invoice_created", "webhook_queued">>
                 log == LogTo(ledger, c, new)[c]
      <3>1. /\ ledger \in [Creates -> Seq(LedgerTypes)]
            /\ ledger[c] # <<>> /\ ~(Len(ledger[c]) > 1)
            /\ ledger[c][1] = "payment_intent_created" /\ Once("payment_intent_created", ledger[c])
        BY <1>0, <1>2 DEF Promote, StagesAgree, CreateStage, Leads, TypeOK, Absent
      <3>2. Len(ledger[c]) = 1 /\ ~Occurs("invoice_created", ledger[c])
        BY <3>1, OneEntry DEF Occurs
      <3>3. /\ new \in Seq(LedgerTypes) /\ Len(new) = 2 /\ new[1] = "invoice_created"
            /\ Occurs("invoice_created", new) /\ Once("invoice_created", new)
            /\ ~Occurs("payment_intent_created", new)
        BY DEF Occurs, Once, LedgerTypes
      <3>4. ledger'[c] = log /\ status'[c] = "requires_payment"
        BY <1>2 DEF Promote, TypeOK
      <3> HIDE DEF new
      <3>5. Len(log) > 1 /\ log[1] = "payment_intent_created" /\ log[2] = "invoice_created"
             /\ log # <<>>
        <4>1. /\ Len(log) = Len(ledger[c]) + Len(new) /\ log # <<>>
              /\ log[1] = ledger[c][1] /\ log[Len(ledger[c]) + 1] = new[1]
          <5>1. Len(ledger[c]) > 0 /\ Len(new) > 0
            BY <3>2, <3>3
          <5>2. ledger \in [Creates -> Seq(LedgerTypes)] /\ new \in Seq(LedgerTypes)
            BY <3>1, <3>3
          <5> QED BY <5>1, <5>2, LogJoined
        <4> HIDE DEF log
        <4> QED BY <3>1, <3>2, <3>3, <4>1
      <3>6. Once("payment_intent_created", log)
        BY <3>1, <3>3, LogOther
      <3>7. Once("invoice_created", log)
        BY <3>1, <3>2, <3>3, LogFirst
      <3>8. Leads(log, "requires_payment")
        <4> HIDE DEF log
        <4> QED BY <3>5, <3>6, <3>7 DEF Leads, Absent
      <3> QED BY <2>1, <3>4, <3>8
    <2>2. CASE j # c
      BY <1>0, <1>2, <2>2 DEF Promote, LogTo, TypeOK
    <2> QED BY <2>1, <2>2
  <1>3. ASSUME NEW r \in Callers, ApplyPaid(r) \/ ApplyNonPaid(r)
        PROVE  Leads(ledger'[j], status'[j])
    <2>1. PICK i \in Creates, target \in RefreshTargets : i = call[r].intent /\ target = call[r].target
      BY <1>3, ApplyTarget DEF ApplyPaid, ApplyNonPaid
    <2>2. i \in Promoted
      <3>1. call[r].pc = "apply" /\ call[r] \in CallStates
        BY <1>3 DEF ApplyPaid, ApplyNonPaid, TypeOK
      <3>2. call[r].status # "created"
        BY <3>1 DEF CallStates, Idle
      <3> QED BY <2>1, <3>1, <3>2 DEF StagesAgree, CallStage
    <2>3. PICK new \in Seq(LedgerTypes) :
            /\ ledger' = LogTo(ledger, i, new) /\ status' = [status EXCEPT ![i] = target]
            /\ ~Occurs("payment_intent_created", new) /\ ~Occurs("invoice_created", new)
      <3>1. CASE ApplyPaid(r)
        BY <2>1, <3>1, PaidBatch DEF ApplyPaid, PaidEvents
      <3>2. CASE ApplyNonPaid(r)
        <4> DEFINE new == <<LedgerEventByStatus[target], "webhook_queued">>
        <4>1. new \in Seq(LedgerTypes) /\ ~Occurs("payment_intent_created", new)
               /\ ~Occurs("invoice_created", new)
          BY <2>1, Statuses_ DEF Occurs, LedgerTypes, LedgerEventByStatus
        <4>2. ledger' = LogTo(ledger, i, new) /\ status' = [status EXCEPT ![i] = target]
          BY <2>1, <3>2 DEF ApplyNonPaid
        <4> HIDE DEF new
        <4> QED BY <4>1, <4>2
      <3> QED BY <1>3, <3>1, <3>2
    <2>4. CASE j = i
      <3>1. status'[i] = target
        BY <2>3 DEF TypeOK
      <3>2. Leads(LogTo(ledger, i, new)[i], target)
        BY <1>0, <2>2, <2>3, LeadsSettled
      <3> QED BY <2>3, <2>4, <3>1, <3>2
    <2>5. CASE j # i
      BY <1>0, <2>3, <2>5 DEF LogTo, TypeOK
    <2> QED BY <2>4, <2>5
  <1>4. CASE UNCHANGED database
    BY <1>0, <1>4 DEF database
  <1> QED BY <1>1, <1>2, <1>3, <1>4, Writers

\* Whatever refreshes, polls and restarts do meanwhile, the ledger of an intent
\* opens with its creation and its invoice, each recorded once
\* (payment-intent-service.ts:83-176).
THEOREM CreationLeadsLedgerHolds == Spec => []CreationLeadsLedger
  <1>1. Init => CreationLeadsLedger
    BY DEF Init, CreationLeadsLedger, Once
  <1>2. TypeOK /\ StagesAgree /\ CreationLeadsLedger /\ [Next]_vars => CreationLeadsLedger'
    BY LeadsStep
  <1> QED BY <1>1, <1>2, Typed, PTL DEF Spec

-----------------------------------------------------------------------------
(* Replays *)

\* A response is stored, and handed out, for a promoted intent whose request
\* has the hash of the request it is stored for or handed out to.
RepliesOwn ==
    /\ \A e \in idempotency : e.intent \in Promoted /\ e.hash = HashRequest(create[e.intent].req)
    /\ \A c \in Creates : create[c].code \in {"200", "201"} =>
          /\ create[c].intent \in Promoted
          /\ HashRequest(create[create[c].intent].req) = HashRequest(create[c].req)

\* A promoted intent stays promoted.
LEMMA PromotedGrows ==
  ASSUME TypeOK, StagesAgree, [Next]_vars PROVE Promoted \subseteq Promoted'
  <1> SUFFICES ASSUME NEW j \in Promoted PROVE j \in Promoted'
    OBVIOUS
  <1>0. j \in Creates /\ status[j] \notin {Absent, "created"}
    BY DEF Promoted
  <1>1. ASSUME NEW c \in Creates, InsertIntent(c) \/ Promote(c) PROVE j \in Promoted'
    <2>1. c # j
      BY <1>0, <1>1 DEF InsertIntent, Promote, StagesAgree, CreateStage
    <2> QED BY <1>0, <1>1, <2>1 DEF InsertIntent, Promote, Promoted, TypeOK
  <1>2. ASSUME NEW r \in Callers, ApplyPaid(r) \/ ApplyNonPaid(r) PROVE j \in Promoted'
    <2>1. PICK i \in Creates, target \in RefreshTargets : status' = [status EXCEPT ![i] = target]
      BY <1>2, ApplyTarget DEF ApplyPaid, ApplyNonPaid
    <2> QED BY <1>0, <2>1, Statuses_ DEF Promoted, TypeOK, Absent
  <1>3. CASE UNCHANGED database
    BY <1>3 DEF database, Promoted
  <1> QED BY <1>1, <1>2, <1>3, Writers

\* Who answers a request with an intent: a replay, or its own promotion.
LEMMA Replied ==
  ASSUME TypeOK, [Next]_vars, NEW c \in Creates, create'[c].code \in {"200", "201"}
  PROVE  \/ /\ create'[c].code = create[c].code
            /\ create'[c].intent = create[c].intent /\ create'[c].req = create[c].req
         \/ \E r \in Requests : ReplayStored(c, r)
         \/ Promote(c)
  <1> DEFINE Same == /\ create'[c].code = create[c].code
                     /\ create'[c].intent = create[c].intent /\ create'[c].req = create[c].req
  <1>0. create[c] \in CreateStates /\ create \in [Creates -> CreateStates]
    BY DEF TypeOK
  <1>1. ASSUME NEW d \in Creates, CreateNext(d), d # c PROVE Same
    BY <1>0, <1>1 DEF CreateNext, ReplayStored, RejectKeyReuse, AcceptCreate, InsertIntent,
       RejectInsert, CreateInvoice, InvoiceFails, Promote, RejectPromote, CreateAborts, Reply, Advance
  <1>2. ASSUME NEW step, Advance(c, step) PROVE Same
    BY <1>0, <1>2 DEF Advance, CreateStates
  <1>3. ASSUME NEW r, NEW code, code \notin {"200", "201"}, NEW i,
               create' = [create EXCEPT ![c] = Answered(r, code, i)]
        PROVE  FALSE
    BY <1>0, <1>3 DEF Answered
  <1>4. ASSUME NEW r \in Requests, RejectKeyReuse(c, r) \/ AcceptCreate(c, r) PROVE FALSE
    <2>1. CASE RejectKeyReuse(c, r)
      BY <1>3, <2>1 DEF RejectKeyReuse
    <2>2. CASE AcceptCreate(c, r) /\ r.merchant \notin Merchants
      BY <1>3, <2>2 DEF AcceptCreate
    <2>3. CASE AcceptCreate(c, r) /\ r.merchant \in Merchants
      BY <1>0, <2>3 DEF AcceptCreate
    <2> QED BY <1>4, <2>1, <2>2, <2>3
  <1>5. ASSUME RejectInsert(c) \/ InvoiceFails(c) \/ RejectPromote(c) \/ CreateAborts(c) PROVE FALSE
    BY <1>3, <1>5 DEF RejectInsert, InvoiceFails, RejectPromote, CreateAborts, InsertErrors, Reply
  <1>6. ASSUME InsertIntent(c) \/ CreateInvoice(c) PROVE Same
    BY <1>2, <1>6 DEF InsertIntent, CreateInvoice
  <1>7. CASE Restart
    BY <1>0, <1>7 DEF Restart, Answered
  <1>8. CASE UNCHANGED create
    BY <1>8
  <1>9. (\E d \in Creates : CreateNext(d)) \/ Restart \/ UNCHANGED create
    BY DEF Next, StartCall, CallNext, PollNextState, Callers, vars, Refresh, DemoMark,
           LoadAfterMark, QueryAdapter, QueryFails, ApplyPaid, RejectReceipt, ApplyNonPaid,
           ApplyAborts, PollTick, PollNext, PollEnd, NodeMove
  <1> QED BY <1>1, <1>4, <1>5, <1>6, <1>7, <1>8, <1>9 DEF CreateNext

\* A replay hands out what the promotion stored, and neither intent nor request
\* changes after that.
LEMMA RepliesStep ==
  ASSUME TypeOK, StagesAgree, RepliesOwn, [Next]_vars PROVE RepliesOwn'
  <1>0. Promoted \subseteq Promoted'
    BY PromotedGrows
  <1>1. \A d \in Promoted : create'[d].req = create[d].req
    BY RequestStays DEF Promoted, Inserted
  <1>2. ASSUME NEW e \in idempotency'
        PROVE  e.intent \in Promoted' /\ e.hash = HashRequest(create'[e.intent].req)
    <2>1. CASE e \in idempotency
      BY <1>0, <1>1, <2>1 DEF RepliesOwn
    <2>2. CASE e \notin idempotency
      <3>1. PICK c \in Creates : Promote(c)
        BY <2>2, Writers DEF InsertIntent, ApplyPaid, ApplyNonPaid, database
      <3>2. e.hash = HashRequest(create[c].req) /\ e.intent = c
        BY <2>2, <3>1 DEF Promote
      <3>3. create'[c].req = create[c].req
        BY <3>1 DEF Promote, Reply, Answered, TypeOK
      <3>4. c \in Promoted'
        BY <3>1 DEF Promote, Promoted, TypeOK, Absent
      <3> QED BY <3>2, <3>3, <3>4
    <2> QED BY <2>1, <2>2
  <1>3. ASSUME NEW c \in Creates, create'[c].code \in {"200", "201"}
        PROVE  /\ create'[c].intent \in Promoted'
               /\ HashRequest(create'[create'[c].intent].req) = HashRequest(create'[c].req)
    <2>1. CASE /\ create'[c].code = create[c].code
               /\ create'[c].intent = create[c].intent /\ create'[c].req = create[c].req
      BY <1>0, <1>1, <1>3, <2>1 DEF RepliesOwn
    <2>2. ASSUME NEW r \in Requests, ReplayStored(c, r)
          PROVE  /\ create'[c].intent \in Promoted'
                 /\ HashRequest(create'[create'[c].intent].req) = HashRequest(create'[c].req)
      <3>1. PICK e \in idempotency : /\ e.hash = HashRequest(r)
                                     /\ create' = [create EXCEPT ![c] = Answered(r, "200", e.intent)]
        BY <2>2 DEF ReplayStored, Stored
      <3>2. create'[c].intent = e.intent /\ create'[c].req = r
        BY <3>1 DEF Answered, TypeOK
      <3>3. e.intent \in Promoted /\ create'[e.intent].req = create[e.intent].req
             /\ e.hash = HashRequest(create[e.intent].req)
        BY <1>1 DEF RepliesOwn
      <3> QED BY <1>0, <3>1, <3>2, <3>3
    <2>3. CASE Promote(c)
      <3>1. create'[c].intent = c /\ c \in Promoted'
        BY <2>3 DEF Promote, Reply, Answered, Promoted, TypeOK, Absent
      <3> QED BY <3>1
    <2> QED BY <1>3, <2>1, <2>2, <2>3, Replied
  <1> QED BY <1>2, <1>3 DEF RepliesOwn

\* However requests with the same and with colliding keys interleave, a 200 or
\* 201 names an intent that has its invoice, made for the same merchant, order
\* and body (idempotency-service.ts:28-52).
THEOREM ReplaysOwnRequestHolds == Spec => []ReplaysOwnRequest
  <1>1. Init => RepliesOwn
    BY DEF Init, RepliesOwn, NewCreate
  <1>2. TypeOK /\ StagesAgree /\ RepliesOwn /\ [Next]_vars => RepliesOwn'
    BY RepliesStep
  <1>3. RepliesOwn => ReplaysOwnRequest
    BY DEF RepliesOwn, ReplaysOwnRequest, Promoted
  <1> QED BY <1>1, <1>2, <1>3, Typed, PTL DEF Spec

\* A key is stored once, and whoever was answered with an intent under a key
\* finds that intent there.
RecordsKept ==
    /\ \A e, f \in idempotency : e.key = f.key => e = f
    /\ \A c \in Creates : create[c].code \in {"200", "201"} /\ Keyed(create[c].req) =>
         \E e \in Stored(create[c].req) :
            e.hash = HashRequest(create[c].req) /\ e.intent = create[c].intent

\* Records are write-once.
LEMMA RecordsStay ==
  ASSUME [Next]_vars
  PROVE  \/ UNCHANGED idempotency
         \/ \E c \in Creates : Promote(c)
  BY Writers DEF InsertIntent, ApplyPaid, ApplyNonPaid, database

LEMMA RecordsStep ==
  ASSUME TypeOK, RecordsKept, [Next]_vars PROVE RecordsKept'
  <1>1. idempotency \subseteq idempotency'
    BY RecordsStay DEF Promote
  <1>2. \A e, f \in idempotency' : e.key = f.key => e = f
    <2>1. ASSUME NEW c \in Creates, Promote(c) PROVE \A e, f \in idempotency' : e.key = f.key => e = f
      <3> DEFINE r == create[c].req
                 new == [key |-> BuildKey(r.merchant, r.key), hash |-> HashRequest(r), intent |-> c]
      <3>1. CASE ~Keyed(r)
        BY <2>1, <3>1 DEF Promote, RecordsKept
      <3>2. CASE Keyed(r)
        <4>1. idempotency' = idempotency \cup {new} /\ \A e \in idempotency : e.key # new.key
          BY <2>1, <3>2 DEF Promote, Stored
        <4> HIDE DEF new
        <4> QED BY <4>1 DEF RecordsKept
      <3> QED BY <3>1, <3>2
    <2>2. CASE UNCHANGED idempotency
      BY <2>2 DEF RecordsKept
    <2> QED BY <2>1, <2>2, RecordsStay
  <1>3. ASSUME NEW c \in Creates, create'[c].code \in {"200", "201"}, Keyed(create'[c].req)
        PROVE  \E e \in Stored(create[c].req)' :
                  e.hash = HashRequest(create'[c].req) /\ e.intent = create'[c].intent
    <2>1. CASE /\ create'[c].code = create[c].code
               /\ create'[c].intent = create[c].intent /\ create'[c].req = create[c].req
      BY <1>1, <1>3, <2>1 DEF RecordsKept, Stored
    <2>2. ASSUME NEW r \in Requests, ReplayStored(c, r)
          PROVE  \E e \in Stored(create[c].req)' :
                    e.hash = HashRequest(create'[c].req) /\ e.intent = create'[c].intent
      <3>1. PICK e \in Stored(r) : /\ e.hash = HashRequest(r)
                                   /\ create' = [create EXCEPT ![c] = Answered(r, "200", e.intent)]
        BY <2>2 DEF ReplayStored
      <3>2. create'[c].intent = e.intent /\ create'[c].req = r
        BY <3>1 DEF Answered, TypeOK
      <3> QED BY <1>1, <3>1, <3>2 DEF Stored
    <2>3. CASE Promote(c)
      <3> DEFINE r == create[c].req
                 new == [key |-> BuildKey(r.merchant, r.key), hash |-> HashRequest(r), intent |-> c]
      <3>1. create'[c].req = r /\ create'[c].intent = c
        BY <2>3 DEF Promote, Reply, Answered, TypeOK
      <3>2. new \in idempotency'
        BY <1>3, <2>3, <3>1 DEF Promote
      <3> QED BY <3>1, <3>2 DEF Stored
    <2> QED BY <1>3, <2>1, <2>2, <2>3, Replied
  <1> QED BY <1>2, <1>3 DEF RecordsKept

\* How a request begins.
LEMMA FirstStep ==
  ASSUME TypeOK, [Next]_vars, NEW d \in Creates, create[d].pc = "new", create'[d].pc # "new"
  PROVE  \E r \in Requests :
           /\ create'[d].req = r
           /\ ReplayStored(d, r) \/ RejectKeyReuse(d, r) \/ AcceptCreate(d, r)
  <1>0. create \in [Creates -> CreateStates]
    BY DEF TypeOK
  <1>1. PICK c \in Creates : CreateNext(c)
    <2>1. ~Restart /\ create' # create
      BY <1>0 DEF Restart
    <2> QED BY <2>1 DEF Next, StartCall, CallNext, PollNextState, Callers, vars, Refresh, DemoMark,
           LoadAfterMark, QueryAdapter, QueryFails, ApplyPaid, RejectReceipt, ApplyNonPaid,
           ApplyAborts, PollTick, PollNext, PollEnd, NodeMove
  <1>2. c = d
    BY <1>0, <1>1 DEF CreateNext, ReplayStored, RejectKeyReuse, AcceptCreate, InsertIntent,
       RejectInsert, CreateInvoice, InvoiceFails, Promote, RejectPromote, CreateAborts, Reply, Advance
  <1>3. PICK r \in Requests : ReplayStored(d, r) \/ RejectKeyReuse(d, r) \/ AcceptCreate(d, r)
    BY <1>1, <1>2 DEF CreateNext, InsertIntent, RejectInsert, CreateInvoice, InvoiceFails,
       Promote, RejectPromote, CreateAborts
  <1>4. create'[d].req = r
    BY <1>0, <1>3 DEF ReplayStored, RejectKeyReuse, AcceptCreate, Answered
  <1> QED BY <1>3, <1>4

\* The record of the answer is found, and no other is.
LEMMA RetryStep ==
  ASSUME TypeOK, RecordsKept, [Next]_vars, NEW c \in Creates, NEW d \in Creates,
         create[c].code \in {"200", "201"}, Keyed(create[c].req),
         create[d].pc = "new", create'[d].pc # "new", create'[d].req = create[c].req
  PROVE  create'[d].code = "200" /\ create'[d].intent = create[c].intent
  <1> DEFINE r == create[c].req
  <1>1. ReplayStored(d, r) \/ RejectKeyReuse(d, r) \/ AcceptCreate(d, r)
    BY FirstStep
  <1>2. PICK e \in Stored(r) : e.hash = HashRequest(r) /\ e.intent = create[c].intent
    BY DEF RecordsKept
  <1>3. \A f \in Stored(r) : f = e
    BY DEF RecordsKept, Stored
  <1>4. ReplayStored(d, r)
    BY <1>1, <1>2, <1>3 DEF RejectKeyReuse, AcceptCreate
  <1>5. create' = [create EXCEPT ![d] = Answered(r, "200", create[c].intent)]
    BY <1>2, <1>3, <1>4 DEF ReplayStored
  <1> QED BY <1>5 DEF Answered, TypeOK

\* Once a client could have seen an answer with an intent, its retries get that
\* intent again: no other request, crash or refresh takes the record away
\* (payment-intent-service.ts:58-75, 151-176).
THEOREM AnsweredRetriesReplayHolds == Spec => AnsweredRetriesReplay
  <1>1. Init => RecordsKept
    BY DEF Init, RecordsKept, NewCreate
  <1>2. TypeOK /\ RecordsKept /\ [Next]_vars => RecordsKept'
    BY RecordsStep
  <1>3. TypeOK /\ RecordsKept /\ [Next]_vars =>
          [\A c, d \in Creates :
             /\ create[c].code \in {"200", "201"} /\ Keyed(create[c].req)
             /\ create[d].pc = "new" /\ create'[d].pc # "new" /\ create'[d].req = create[c].req
             => create'[d].code = "200" /\ create'[d].intent = create[c].intent]_vars
    BY RetryStep
  <1> QED BY <1>1, <1>2, <1>3, Typed, PTL DEF Spec, AnsweredRetriesReplay

-----------------------------------------------------------------------------
(* Conflicts of keys *)

\* Two storage keys are the same only if their parts are, when neither merchant
\* id has the separator in it.
LEMMA KeyParts ==
  ASSUME NEW T, NEW m \in Seq(T), NEW n \in Seq(T), NEW k \in Seq(T), NEW l \in Seq(T),
         \A j \in DOMAIN m : m[j] # ":", \A j \in DOMAIN n : n[j] # ":",
         BuildKey(m, k) = BuildKey(n, l)
  PROVE  m = n /\ k = l
  <1> DEFINE a == BuildKey(m, k)
             b == BuildKey(n, l)
  <1>1. /\ Len(m) \in Nat /\ Len(n) \in Nat /\ Len(k) \in Nat /\ Len(l) \in Nat
        /\ DOMAIN m = 1..Len(m) /\ DOMAIN n = 1..Len(n)
        /\ DOMAIN k = 1..Len(k) /\ DOMAIN l = 1..Len(l)
    OBVIOUS
  <1>2. /\ Len(a) = Len(m) + 1 + Len(k) /\ a[Len(m) + 1] = ":"
        /\ \A j \in 1..Len(m) : a[j] = m[j]
        /\ \A j \in 1..Len(k) : a[Len(m) + 1 + j] = k[j]
    BY <1>1 DEF BuildKey
  <1>3. /\ Len(b) = Len(n) + 1 + Len(l) /\ b[Len(n) + 1] = ":"
        /\ \A j \in 1..Len(n) : b[j] = n[j]
        /\ \A j \in 1..Len(l) : b[Len(n) + 1 + j] = l[j]
    BY <1>1 DEF BuildKey
  <1> HIDE DEF a, b
  <1>4. a = b
    BY DEF a, b
  <1>5. Len(m) = Len(n)
    <2>1. ~(Len(m) < Len(n))
      <3> SUFFICES ASSUME Len(m) < Len(n) PROVE FALSE
        OBVIOUS
      <3>1. Len(m) + 1 \in 1..Len(n)
        BY <1>1
      <3> QED BY <1>1, <1>2, <1>3, <1>4, <3>1
    <2>2. ~(Len(n) < Len(m))
      <3> SUFFICES ASSUME Len(n) < Len(m) PROVE FALSE
        OBVIOUS
      <3>1. Len(n) + 1 \in 1..Len(m)
        BY <1>1
      <3> QED BY <1>1, <1>2, <1>3, <1>4, <3>1
    <2>3. Len(m) \in Nat /\ Len(n) \in Nat
      OBVIOUS
    <2> QED BY <2>1, <2>2, <2>3
  <1>6. Len(k) = Len(l)
    <2>1. Len(m) + 1 + Len(k) = Len(m) + 1 + Len(l)
      BY <1>2, <1>3, <1>4, <1>5
    <2>2. Len(m) \in Nat /\ Len(k) \in Nat /\ Len(l) \in Nat
      OBVIOUS
    <2> QED BY <2>1, <2>2
  <1>7. m = n
    BY <1>1, <1>2, <1>3, <1>4, <1>5
  <1>8. k = l
    BY <1>1, <1>2, <1>3, <1>4, <1>5, <1>6
  <1> QED BY <1>7, <1>8

\* Merchant ids and keys are spelled in some characters, and no request names a
\* merchant with the separator in its id.
PlainMerchants(Characters) ==
    \A r \in Requests :
      /\ r.merchant \in Seq(Characters) /\ \A j \in DOMAIN r.merchant : r.merchant[j] # ":"
      /\ r.key # NoKey => r.key \in Seq(Characters)

\* A record is stored under the key of the request it answers, and a request
\* that is told of a conflict met an intent under its own key.
KeyConflicts ==
    /\ \A e \in idempotency :
         /\ e.intent \in Promoted /\ create[e.intent].req \in Requests /\ Keyed(create[e.intent].req)
         /\ e.key = BuildKey(create[e.intent].req.merchant, create[e.intent].req.key)
    /\ \A c \in Creates :
         /\ create[c].pc \in {"insert", "invoice", "promote"}
               => create[c].code = "none" /\ create[c].req \in Requests
         /\ create[c].code = "idempotency_key_conflict" => \E d \in Inserted \ {c} : SameKey(c, d)

\* Every way a request moves on.
LEMMA CreateMoves ==
  ASSUME TypeOK, [Next]_vars, NEW c \in Creates
  PROVE  \/ create'[c] = create[c]
         \/ \E r \in Requests : AcceptCreate(c, r) \/ RejectKeyReuse(c, r)
         \/ RejectInsert(c)
         \/ /\ create[c].pc \in {"insert", "invoice", "promote"}
            /\ create'[c].req = create[c].req /\ create'[c].code = create[c].code
         \/ create'[c].pc = "done" /\ create'[c].code # "idempotency_key_conflict"
  <1>0. create \in [Creates -> CreateStates]
    BY DEF TypeOK
  <1>1. ASSUME NEW d \in Creates, CreateNext(d), d # c PROVE create'[c] = create[c]
    BY <1>0, <1>1 DEF CreateNext, ReplayStored, RejectKeyReuse, AcceptCreate, InsertIntent,
       RejectInsert, CreateInvoice, InvoiceFails, Promote, RejectPromote, CreateAborts, Reply, Advance
  <1>2. ASSUME InsertIntent(c) \/ CreateInvoice(c)
        PROVE  /\ create[c].pc \in {"insert", "invoice", "promote"}
               /\ create'[c].req = create[c].req /\ create'[c].code = create[c].code
    <2>1. create[c] \in CreateStates
      BY <1>0
    <2>2. \E step : Advance(c, step)
      BY <1>2 DEF InsertIntent, CreateInvoice
    <2> QED BY <1>0, <1>2, <2>1, <2>2 DEF InsertIntent, CreateInvoice, Advance, CreateStates
  <1>3. ASSUME NEW r \in Requests, ReplayStored(c, r)
        PROVE  create'[c].pc = "done" /\ create'[c].code # "idempotency_key_conflict"
    BY <1>0, <1>3 DEF ReplayStored, Answered
  <1>4. ASSUME InvoiceFails(c) \/ Promote(c) \/ RejectPromote(c) \/ CreateAborts(c)
        PROVE  create'[c].pc = "done" /\ create'[c].code # "idempotency_key_conflict"
    BY <1>0, <1>4 DEF InvoiceFails, Promote, RejectPromote, CreateAborts, Reply, Answered
  <1>5. CASE Restart
    BY <1>0, <1>5 DEF Restart, Answered
  <1>6. CASE UNCHANGED create
    BY <1>6
  <1>7. (\E d \in Creates : CreateNext(d)) \/ Restart \/ UNCHANGED create
    BY DEF Next, StartCall, CallNext, PollNextState, Callers, vars, Refresh, DemoMark,
           LoadAfterMark, QueryAdapter, QueryFails, ApplyPaid, RejectReceipt, ApplyNonPaid,
           ApplyAborts, PollTick, PollNext, PollEnd, NodeMove
  <1> QED BY <1>1, <1>2, <1>3, <1>4, <1>5, <1>6, <1>7 DEF CreateNext

\* An intent that was inserted stays.
LEMMA InsertedGrows ==
  ASSUME TypeOK, StagesAgree, [Next]_vars PROVE Inserted \subseteq Inserted'
  <1>1. ASSUME NEW c \in Creates, InsertIntent(c) \/ Promote(c) PROVE Inserted \subseteq Inserted'
    BY <1>1 DEF InsertIntent, Promote, Inserted, TypeOK, Absent
  <1>2. ASSUME NEW r \in Callers, ApplyPaid(r) \/ ApplyNonPaid(r) PROVE Inserted \subseteq Inserted'
    <2>1. PICK i \in Creates, t \in RefreshTargets : status' = [status EXCEPT ![i] = t]
      BY <1>2, SettlementWrites
    <2> QED BY <2>1, Statuses_ DEF Inserted, TypeOK, Absent
  <1>3. CASE UNCHANGED database
    BY <1>3 DEF database, Inserted
  <1> QED BY <1>1, <1>2, <1>3, Writers

\* A record under the key of a request with a plain merchant id is of that key.
LEMMA RecordOfKey ==
  ASSUME NEW Characters, PlainMerchants(Characters), KeyConflicts,
         NEW r \in Requests, Keyed(r), NEW e \in Stored(r)
  PROVE  /\ create[e.intent].req.merchant = r.merchant
         /\ create[e.intent].req.key = r.key
  <1> DEFINE q == create[e.intent].req
  <1>1. q \in Requests /\ Keyed(q) /\ BuildKey(q.merchant, q.key) = BuildKey(r.merchant, r.key)
    BY DEF KeyConflicts, Stored
  <1> HIDE DEF q
  <1>2. /\ q.merchant \in Seq(Characters) /\ \A j \in DOMAIN q.merchant : q.merchant[j] # ":"
        /\ r.merchant \in Seq(Characters) /\ \A j \in DOMAIN r.merchant : r.merchant[j] # ":"
        /\ q.key \in Seq(Characters) /\ r.key \in Seq(Characters)
    BY <1>1 DEF PlainMerchants, Keyed
  <1>3. q.merchant = r.merchant /\ q.key = r.key
    BY <1>1, <1>2, KeyParts
  <1> QED BY <1>3 DEF q

LEMMA ConflictStep ==
  ASSUME NEW Characters, PlainMerchants(Characters),
         TypeOK, StagesAgree, KeyConflicts, [Next]_vars
  PROVE  KeyConflicts'
  <1>0. Promoted \subseteq Promoted' /\ Inserted \subseteq Inserted'
    BY PromotedGrows, InsertedGrows
  <1>1. \A d \in Inserted : create'[d].req = create[d].req
    BY RequestStays
  <1>2. Promoted \subseteq Inserted
    BY DEF Promoted, Inserted
  <1>3. ASSUME NEW e \in idempotency'
        PROVE  LET r == create'[e.intent].req
               IN  /\ e.intent \in Promoted' /\ r \in Requests /\ Keyed(r)
                   /\ e.key = BuildKey(r.merchant, r.key)
    <2>1. CASE e \in idempotency
      BY <1>0, <1>1, <1>2, <2>1 DEF KeyConflicts
    <2>2. CASE e \notin idempotency
      <3>1. PICK c \in Creates : Promote(c)
        BY <2>2, RecordsStay
      <3> DEFINE r == create[c].req
      <3>2. e.intent = c /\ Keyed(r) /\ e.key = BuildKey(r.merchant, r.key)
        BY <2>2, <3>1 DEF Promote
      <3>3. create'[c].req = r
        BY <3>1 DEF Promote, Reply, Answered, TypeOK
      <3>4. r \in Requests /\ c \in Promoted'
        BY <3>1 DEF Promote, KeyConflicts, Promoted, TypeOK, Absent
      <3> QED BY <3>2, <3>3, <3>4
    <2> QED BY <2>1, <2>2
  <1>4. ASSUME NEW c \in Creates
        PROVE  /\ create'[c].pc \in {"insert", "invoice", "promote"}
                     => create'[c].code = "none" /\ create'[c].req \in Requests
               /\ create'[c].code = "idempotency_key_conflict"
                     => \E d \in Inserted' \ {c} : SameKey(c, d)'
    <2>0. create \in [Creates -> CreateStates]
      BY DEF TypeOK
    <2>1. CASE create'[c] = create[c]
      BY <1>0, <1>1, <2>1 DEF KeyConflicts, SameKey
    <2>2. ASSUME NEW r \in Requests, AcceptCreate(c, r)
          PROVE  /\ create'[c].req = r /\ create'[c].code # "idempotency_key_conflict"
                 /\ create'[c].pc \in {"insert", "invoice", "promote"} => create'[c].code = "none"
      BY <2>0, <2>2 DEF AcceptCreate, Answered
    <2>3. ASSUME NEW r \in Requests, RejectKeyReuse(c, r)
          PROVE  create'[c].pc = "done" /\ \E d \in Inserted' \ {c} : SameKey(c, d)'
      <3>1. create'[c].pc = "done" /\ create'[c].req = r
        BY <2>0, <2>3 DEF RejectKeyReuse, Answered
      <3>2. PICK e \in Stored(r) : TRUE
        BY <2>3 DEF RejectKeyReuse
      <3>3. /\ create[e.intent].req.merchant = r.merchant
            /\ create[e.intent].req.key = r.key /\ r.key # NoKey
        BY <2>3, RecordOfKey DEF RejectKeyReuse, Keyed
      <3>4. e.intent \in Promoted
        BY DEF KeyConflicts, Stored
      <3>5. e.intent # c
        BY <2>3, <3>4 DEF RejectKeyReuse, StagesAgree, CreateStage, Promoted
      <3>6. create'[e.intent].req = create[e.intent].req /\ e.intent \in Inserted'
        BY <1>0, <1>1, <1>2, <3>4
      <3> QED BY <3>1, <3>3, <3>5, <3>6 DEF SameKey
    <2>4. ASSUME RejectInsert(c)
          PROVE  /\ create'[c].pc = "done"
                 /\ create'[c].code = "idempotency_key_conflict"
                       => \E d \in Inserted' \ {c} : SameKey(c, d)'
      <3>1. PICK code \in InsertErrors(c) :
               create' = [create EXCEPT ![c] = Answered(create[c].req, code, NoIntent)]
        BY <2>4 DEF RejectInsert, Reply
      <3>2. create'[c].pc = "done" /\ create'[c].req = create[c].req /\ create'[c].code = code
        BY <2>0, <3>1 DEF Answered
      <3>3. c \notin Inserted
        BY <2>4 DEF RejectInsert, StagesAgree, CreateStage, Inserted
      <3>4. code = "idempotency_key_conflict" => \E d \in Inserted : SameKey(c, d)
        BY DEF InsertErrors
      <3> QED BY <1>0, <1>1, <3>2, <3>3, <3>4 DEF SameKey
    <2>5. CASE /\ create[c].pc \in {"insert", "invoice", "promote"}
               /\ create'[c].req = create[c].req /\ create'[c].code = create[c].code
      BY <2>5 DEF KeyConflicts
    <2>6. CASE create'[c].pc = "done" /\ create'[c].code # "idempotency_key_conflict"
      BY <2>6
    <2> QED BY <2>1, <2>2, <2>3, <2>4, <2>5, <2>6, CreateMoves
  <1> QED BY <1>3, <1>4 DEF KeyConflicts

\* The comment of buildKey, "a key only ever collides within its own merchant",
\* is true of merchant ids without a colon (the run key_collision shows ids for
\* which it is not): a request told of a key conflict then met a request of its
\* own merchant with its own key (idempotency-service.ts:22-25).
THEOREM KeysArePerMerchantHolds ==
  ASSUME NEW Characters, PlainMerchants(Characters)
  PROVE  Spec => []KeysArePerMerchant
  <1>1. Init => KeyConflicts
    BY DEF Init, KeyConflicts, NewCreate
  <1>2. TypeOK /\ StagesAgree /\ KeyConflicts /\ [Next]_vars => KeyConflicts'
    BY ConflictStep
  <1>3. StagesAgree /\ KeyConflicts => KeysArePerMerchant
    BY DEF StagesAgree, CreateStage, KeyConflicts, KeysArePerMerchant, Inserted
  <1> QED BY <1>1, <1>2, <1>3, Typed, PTL DEF Spec
=============================================================================
