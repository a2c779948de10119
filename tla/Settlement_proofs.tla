-------------------------- MODULE Settlement_proofs --------------------------
(***************************************************************************)
(* PaymentIntents implements the abstract Settlement, for any sets of      *)
(* requests and callers and any number of restarts.                        *)
(***************************************************************************)
EXTENDS PaymentIntents_proofs

-----------------------------------------------------------------------------
(* The invoice between two steps of a request or a call *)

\* A request that has not issued its invoice has none at the adapter, and a
\* call that is about to record a payment was told so by an invoice that is
\* still paid: a restart that forgets the invoice ends the call as well.
InvoiceHeld ==
    /\ \A c \in Creates : create[c].pc \in {"new", "insert", "invoice"} => invoice[c] = Absent
    /\ \A r \in Callers : call[r].pc = "apply" /\ call[r].target = "paid"
                            => invoice[call[r].intent] = PaidInvoice

\* What a demo mark does to an invoice that is paid, or was never issued.
LEMMA MarkKeeps ==
  ASSUME NEW s, NEW action \in DemoActions, NEW o \in MarkOutcomes(action, s)
  PROVE  s \in {"paid", Absent} => o.to = s
  BY DEF MarkOutcomes, AfterExpiry, DemoActions, Absent

\* A report of a payment is a look at a paid invoice.
LEMMA PaidReport ==
  ASSUME NEW s, IntentStatusFromAdapterStatus(Reported(s)) = "paid"
  PROVE  s = PaidInvoice
  BY ModeAssumption DEF IntentStatusFromAdapterStatus, IntentStatusByAdapterStatus, Reported,
     InvoiceStatusMap, SimulatedStatuses, PaidInvoice

\* Looking at an invoice neither pays it nor makes it unpaid.
LEMMA QueryKeeps ==
  ASSUME TypeOK, NEW r \in Callers, QueryAdapter(r)
  PROVE  \A j \in Creates : /\ invoice'[j] = PaidInvoice <=> invoice[j] = PaidInvoice
                            /\ invoice[j] = Absent => invoice'[j] = Absent
  <1>1. PICK s \in SeenByAdapter(r) :
          invoice' = IF s = Absent THEN invoice ELSE [invoice EXCEPT ![call[r].intent] = s]
    BY DEF QueryAdapter
  <1> DEFINE held == invoice[call[r].intent]
  <1>2. s \in {Absent, held} \/ (s = "expired" /\ Mode = "simulated" /\ held \in {"created", "processing"})
    <2>1. SeenByAdapter(r) \subseteq AfterExpiry(Absent) \cup AfterExpiry(held) \cup {Absent, held}
      BY DEF SeenByAdapter
    <2>2. AfterExpiry(Absent) = {Absent}
      BY DEF AfterExpiry, Absent
    <2>3. Mode = "simulated" \/ SeenByAdapter(r) \subseteq {Absent, held}
      BY DEF SeenByAdapter
    <2> QED BY <2>1, <2>2, <2>3 DEF AfterExpiry
  <1>3. PaidInvoice # "expired" /\ (Mode = "simulated" => PaidInvoice = "paid")
    BY DEF PaidInvoice
  <1> QED BY <1>1, <1>2, <1>3 DEF TypeOK, Absent

\* Only a node, a demo mark, a restart or the creating request changes what is
\* paid or issued at the adapter.
LEMMA InvoiceWriters ==
  ASSUME [Next]_vars
  PROVE  \/ \E c \in Creates : CreateInvoice(c) \/ InvoiceFails(c)
         \/ \E r \in Callers, i \in Creates, a \in DemoActions : DemoMark(r, i, a)
         \/ \E r \in Callers : QueryAdapter(r)
         \/ \E i \in Creates : NodeMove(i)
         \/ Restart
         \/ UNCHANGED invoice
  BY DEF Next, CreateNext, StartCall, CallNext, PollNextState, Callers, vars,
         ReplayStored, RejectKeyReuse, AcceptCreate, InsertIntent, RejectInsert,
         Promote, RejectPromote, CreateAborts, Refresh, LoadAfterMark, QueryFails,
         ApplyPaid, RejectReceipt, ApplyNonPaid, ApplyAborts, PollTick, PollNext, PollEnd

\* Which invoices are paid after a step: the same, one more, or none because
\* the simulated adapter has started over.
PaidAtAdapter == {i \in Creates : invoice[i] = PaidInvoice}

LEMMA PaidSteps ==
  ASSUME TypeOK, StagesAgree, InvoiceHeld, [Next]_vars
  PROVE  \/ PaidAtAdapter' = PaidAtAdapter
         \/ \E i \in Creates \ PaidAtAdapter :
              PaidAtAdapter' = PaidAtAdapter \cup {i} /\ UNCHANGED database
         \/ Restart /\ Mode = "simulated" /\ PaidAtAdapter' = {} /\ UNCHANGED database
  <1>0. Absent # PaidInvoice /\ NewInvoice # PaidInvoice
    BY ModeAssumption DEF Absent, PaidInvoice, NewInvoice
  <1>1. ASSUME NEW c \in Creates, CreateInvoice(c) \/ InvoiceFails(c)
        PROVE  PaidAtAdapter' = PaidAtAdapter
    BY <1>0, <1>1 DEF CreateInvoice, InvoiceFails, InvoiceHeld, PaidAtAdapter, TypeOK
  <1>2. ASSUME NEW r \in Callers, NEW i \in Creates, NEW a \in DemoActions, DemoMark(r, i, a)
        PROVE  /\ UNCHANGED database
               /\ PaidAtAdapter' = PaidAtAdapter
                    \/ (i \notin PaidAtAdapter /\ PaidAtAdapter' = PaidAtAdapter \cup {i})
    <2>1. PICK o \in MarkOutcomes(a, invoice[i]) : invoice' = [invoice EXCEPT ![i] = o.to]
      BY <1>2 DEF DemoMark
    <2>2. invoice[i] = "paid" => o.to = "paid"
      BY MarkKeeps
    <2>3. PaidInvoice = "paid"
      BY <1>2 DEF DemoMark, PaidInvoice
    <2> QED BY <1>2, <2>1, <2>2, <2>3 DEF DemoMark, PaidAtAdapter, TypeOK
  <1>3. ASSUME NEW r \in Callers, QueryAdapter(r) PROVE PaidAtAdapter' = PaidAtAdapter
    BY <1>3, QueryKeeps DEF PaidAtAdapter
  <1>4. ASSUME NEW i \in Creates, NodeMove(i)
        PROVE  /\ UNCHANGED database
               /\ PaidAtAdapter' = PaidAtAdapter
                    \/ (i \notin PaidAtAdapter /\ PaidAtAdapter' = PaidAtAdapter \cup {i})
    <2>1. PICK s \in NodeMoves[invoice[i]] : invoice' = [invoice EXCEPT ![i] = s]
      BY <1>4 DEF NodeMove
    <2>2. invoice[i] # PaidInvoice
      BY <1>4, <2>1 DEF NodeMove, NodeMoves, PaidInvoice
    <2> QED BY <1>4, <2>1, <2>2 DEF NodeMove, PaidAtAdapter, TypeOK
  <1>5. CASE Restart
    BY <1>0, <1>5, ModeAssumption DEF Restart, PaidAtAdapter
  <1>6. CASE UNCHANGED invoice
    BY <1>6 DEF PaidAtAdapter
  <1> QED BY <1>1, <1>2, <1>3, <1>4, <1>5, <1>6, InvoiceWriters

\* Every step keeps invoices with their requests and calls.
LEMMA HeldStep ==
  ASSUME TypeOK, StagesAgree, InvoiceHeld, [Next]_vars PROVE InvoiceHeld'
  <1>a. \A r \in Callers : call[r].pc = "apply" /\ call[r].target = "paid"
                             => call[r].intent \in Creates
    BY ApplyTarget
  <1>1. ASSUME NEW c \in Creates, create'[c].pc \in {"new", "insert", "invoice"}
        PROVE  invoice'[c] = Absent
    <2>0. create[c] \in CreateStates
      BY DEF TypeOK
    <2>1. create[c].pc \in {"new", "insert", "invoice"} /\ ~CreateInvoice(c) /\ ~InvoiceFails(c)
      <3>1. ASSUME NEW d \in Creates, CreateNext(d)
            PROVE  create[c].pc \in {"new", "insert", "invoice"} /\ ~CreateInvoice(c) /\ ~InvoiceFails(c)
        <4>1. CASE d = c
          <5>1. ~CreateInvoice(c) /\ ~InvoiceFails(c) /\ ~Promote(c) /\ ~RejectPromote(c)
            BY <1>1, <2>0 DEF CreateInvoice, InvoiceFails, Promote, RejectPromote, Reply,
               Advance, Answered, TypeOK, CreateStates
          <5>2. \/ \E r \in Requests : ReplayStored(c, r) \/ RejectKeyReuse(c, r) \/ AcceptCreate(c, r)
                \/ InsertIntent(c) \/ RejectInsert(c) \/ CreateAborts(c)
            BY <3>1, <4>1, <5>1 DEF CreateNext
          <5>3. ~CreateAborts(c)
            BY <1>1 DEF CreateAborts, Reply, Answered, TypeOK
          <5> QED BY <5>1, <5>2, <5>3 DEF ReplayStored, RejectKeyReuse, AcceptCreate,
                     InsertIntent, RejectInsert
        <4>2. CASE d # c
          <5>1. create'[c] = create[c]
            BY <3>1, <4>2 DEF CreateNext, ReplayStored, RejectKeyReuse, AcceptCreate,
               InsertIntent, RejectInsert, CreateInvoice, InvoiceFails, Promote, RejectPromote,
               CreateAborts, Reply, Advance, TypeOK
          <5>2. ~CreateInvoice(c) /\ ~InvoiceFails(c)
            BY <2>0, <5>1 DEF CreateInvoice, InvoiceFails, Reply, Advance, Answered, TypeOK,
               CreateStates
          <5> QED BY <1>1, <5>1, <5>2
        <4> QED BY <4>1, <4>2
      <3>2. CASE Restart
        BY <1>1, <3>2 DEF Restart, Answered, CreateInvoice, InvoiceFails, Reply, Advance, TypeOK
      <3>3. CASE ~(\E d \in Creates : CreateNext(d)) /\ ~Restart
        BY <1>1, <3>3 DEF Next, StartCall, CallNext, PollNextState, vars, Refresh, DemoMark,
           LoadAfterMark, QueryAdapter, QueryFails, ApplyPaid, RejectReceipt, ApplyNonPaid,
           ApplyAborts, PollTick, PollNext, PollEnd, NodeMove, CreateNext
      <3> QED BY <3>1, <3>2, <3>3
    <2>2. invoice[c] = Absent
      BY <2>1 DEF InvoiceHeld
    <2>3. ASSUME NEW d \in Creates, CreateInvoice(d) \/ InvoiceFails(d) PROVE invoice'[c] = Absent
      BY <2>1, <2>2, <2>3 DEF CreateInvoice, InvoiceFails, TypeOK
    <2>4. ASSUME NEW r \in Callers, NEW i \in Creates, NEW a \in DemoActions, DemoMark(r, i, a)
          PROVE  invoice'[c] = Absent
      BY <2>2, <2>4, MarkKeeps DEF DemoMark, TypeOK
    <2>5. ASSUME NEW i \in Creates, NodeMove(i) PROVE invoice'[c] = Absent
      BY <2>2, <2>5 DEF NodeMove, TypeOK
    <2>6. CASE Restart
      BY <2>2, <2>6 DEF Restart
    <2> QED BY <2>2, <2>3, <2>4, <2>5, <2>6, QueryKeeps, InvoiceWriters
  <1>2. ASSUME NEW r \in Callers, call'[r].pc = "apply", call'[r].target = "paid"
        PROVE  invoice'[call'[r].intent] = PaidInvoice
    <2>1. CASE QueryAdapter(r)
      <3>1. PICK s \in SeenByAdapter(r) :
              /\ invoice' = IF s = Absent THEN invoice ELSE [invoice EXCEPT ![call[r].intent] = s]
              /\ call' = [call EXCEPT ![r] =
                   IF Actionable(@.status, IntentStatusFromAdapterStatus(Reported(s)))
                   THEN [pc |-> "apply", intent |-> call[r].intent, status |-> @.status,
                         target |-> IntentStatusFromAdapterStatus(Reported(s))]
                   ELSE Idle]
        BY <2>1 DEF QueryAdapter
      <3>2. /\ call'[r].intent = call[r].intent
            /\ IntentStatusFromAdapterStatus(Reported(s)) = "paid"
        BY <1>2, <3>1 DEF TypeOK, Idle
      <3>3. s = PaidInvoice /\ s # Absent
        BY <3>2, PaidReport DEF PaidInvoice, Absent
      <3>4. call[r].intent \in Creates
        <4>1. call[r].pc = "query" /\ call[r] \in CallStates
          BY <2>1 DEF QueryAdapter, TypeOK
        <4> QED BY <4>1 DEF CallStates, Idle
      <3> QED BY <3>1, <3>2, <3>3, <3>4 DEF TypeOK
    <2>2. CASE ~QueryAdapter(r)
      <3>0. ASSUME NEW q \in Callers, NEW i, LoadIntent(q, i) PROVE call'[r] = call[r]
        BY <1>2, <3>0 DEF LoadIntent, Idle, TypeOK
      <3>1. call'[r] = call[r] /\ ~Restart
        <4>1. ASSUME NEW q \in Callers, CallNext(q) PROVE call'[r] = call[r]
          <5>1. CASE LoadAfterMark(q)
            BY <3>0, <5>1 DEF LoadAfterMark
          <5>2. CASE QueryAdapter(q)
            BY <2>2, <5>2 DEF QueryAdapter, TypeOK
          <5>3. CASE QueryFails(q) \/ ApplyPaid(q) \/ RejectReceipt(q) \/ ApplyNonPaid(q) \/ ApplyAborts(q)
            BY <1>2, <5>3 DEF QueryFails, ApplyPaid, RejectReceipt, ApplyNonPaid, ApplyAborts,
               Idle, TypeOK
          <5> QED BY <4>1, <5>1, <5>2, <5>3 DEF CallNext
        <4>2. ASSUME NEW q \in Calls, StartCall(q) PROVE call'[r] = call[r]
          <5>1. PICK i \in Creates : Refresh(q, i) \/ \E a \in DemoActions : DemoMark(q, i, a)
            BY <4>2 DEF StartCall
          <5>2. CASE Refresh(q, i)
            BY <3>0, <5>2 DEF Refresh, Callers
          <5>3. CASE \E a \in DemoActions : DemoMark(q, i, a)
            BY <1>2, <5>3 DEF DemoMark, TypeOK
          <5> QED BY <5>1, <5>2, <5>3
        <4>3. ASSUME PollNext PROVE call'[r] = call[r]
          BY <3>0, <4>3 DEF PollNext, Callers
        <4>4. ~Restart
          BY <1>2 DEF Restart, Idle
        <4>5. CASE UNCHANGED call
          BY <4>4, <4>5
        <4>6. \/ \E q \in Callers : CallNext(q)
              \/ \E q \in Calls : StartCall(q)
              \/ PollNext \/ UNCHANGED call
          BY <4>4 DEF Next, CreateNext, PollNextState, vars, ReplayStored, RejectKeyReuse,
             AcceptCreate, InsertIntent, RejectInsert, CreateInvoice, InvoiceFails, Promote,
             RejectPromote, CreateAborts, PollTick, PollEnd, NodeMove
        <4> QED BY <4>1, <4>2, <4>3, <4>4, <4>5, <4>6
      <3>2. call[r].intent \in PaidAtAdapter
        BY <1>a, <1>2, <3>1 DEF InvoiceHeld, PaidAtAdapter
      <3>3. PaidAtAdapter \subseteq PaidAtAdapter'
        BY <3>1, PaidSteps
      <3> QED BY <3>1, <3>2, <3>3 DEF PaidAtAdapter
    <2> QED BY <2>1, <2>2
  <1> QED BY <1>1, <1>2 DEF InvoiceHeld

-----------------------------------------------------------------------------
(* The refinement *)

Announced == {i \in Creates : Occurs("payment_intent.paid", outbox[i])}

\* Each writer of the database opens an intent, settles a paid one, or changes
\* nothing the abstract specification speaks of.
LEMMA DatabaseSteps ==
  ASSUME TypeOK, StagesAgree, InvoiceHeld, [Next]_vars
  PROVE  \/ \E i \in Creates \ Promoted :
              /\ Promoted' = Promoted \cup {i}
              /\ UNCHANGED <<PaidAtAdapter, receipts, Announced>>
         \/ \E i \in (Promoted \cap PaidAtAdapter) \ receipts :
              /\ receipts' = receipts \cup {i} /\ Announced' = Announced \cup {i}
              /\ UNCHANGED <<Promoted, PaidAtAdapter>>
         \/ UNCHANGED <<Promoted, receipts, Announced>>
              /\ (UNCHANGED database \/ UNCHANGED PaidAtAdapter)
  <1>1. ASSUME NEW c \in Creates, InsertIntent(c)
        PROVE  UNCHANGED <<Promoted, receipts, Announced, PaidAtAdapter>>
    <2>1. status[c] = Absent
      BY <1>1 DEF InsertIntent, StagesAgree, CreateStage
    <2> QED BY <1>1, <2>1 DEF InsertIntent, Promoted, Announced, PaidAtAdapter, TypeOK
  <1>2. ASSUME NEW c \in Creates, Promote(c)
        PROVE  /\ c \notin Promoted /\ Promoted' = Promoted \cup {c}
               /\ UNCHANGED <<PaidAtAdapter, receipts, Announced>>
    <2> DEFINE hook == <<"payment_intent.created">>
    <2>1. status[c] = "created"
      BY <1>2 DEF Promote, StagesAgree, CreateStage
    <2>2. c \notin Promoted /\ Promoted' = Promoted \cup {c}
      BY <1>2, <2>1 DEF Promote, Promoted, TypeOK, Absent
    <2>3. hook \in Seq(WebhookTypes) /\ ~Occurs("payment_intent.paid", hook)
      BY DEF Occurs, WebhookTypes
    <2>4. outbox' = LogTo(outbox, c, hook)
      BY <1>2 DEF Promote
    <2> HIDE DEF hook
    <2>5. Announced' = Announced
      BY <2>3, <2>4, LogOther DEF Announced, TypeOK
    <2> QED BY <1>2, <2>2, <2>5 DEF Promote, PaidAtAdapter
  <1>3. ASSUME NEW r \in Callers, ApplyPaid(r)
        PROVE  \E i \in (Promoted \cap PaidAtAdapter) \ receipts :
                 /\ receipts' = receipts \cup {i} /\ Announced' = Announced \cup {i}
                 /\ UNCHANGED <<Promoted, PaidAtAdapter>>
    <2>1. PICK i \in Creates : i = call[r].intent
      BY <1>3, ApplyTarget DEF ApplyPaid
    <2>2. call[r] \in CallStates /\ call[r].pc = "apply" /\ call[r].target = "paid"
      BY <1>3 DEF ApplyPaid, TypeOK
    <2>3. i \in Promoted /\ i \in PaidAtAdapter /\ i \notin receipts
      <3>1. call[r].status # "created"
        BY <2>2 DEF CallStates, Idle
      <3> QED BY <1>3, <2>1, <2>2, <3>1
              DEF ApplyPaid, StagesAgree, CallStage, InvoiceHeld, PaidAtAdapter
    <2>4. /\ receipts' = receipts \cup {i} /\ outbox' = LogTo(outbox, i, PaidHooks)
          /\ status' = [status EXCEPT ![i] = "paid"] /\ invoice' = invoice
      BY <1>3, <2>1 DEF ApplyPaid, PaidHooks
    <2>5. Announced' = Announced \cup {i}
      <3>1. outbox \in [Creates -> Seq(WebhookTypes)]
        BY DEF TypeOK
      <3>2. Occurs("payment_intent.paid", outbox'[i])
        BY <2>4, <3>1, PaidBatch, LogFirst
      <3>3. \A j \in Creates \ {i} : outbox'[j] = outbox[j]
        BY <2>4, <3>1 DEF LogTo
      <3> QED BY <3>2, <3>3 DEF Announced
    <2>6. UNCHANGED <<Promoted, PaidAtAdapter>>
      BY <2>3, <2>4 DEF Promoted, PaidAtAdapter, TypeOK, Absent
    <2> QED BY <2>3, <2>4, <2>5, <2>6
  <1>4. ASSUME NEW r \in Callers, ApplyNonPaid(r)
        PROVE  UNCHANGED <<Promoted, receipts, Announced, PaidAtAdapter>>
    <2>1. PICK i \in Creates, target \in RefreshTargets \ {"paid"} :
             i = call[r].intent /\ target = call[r].target
      BY <1>4, ApplyTarget DEF ApplyNonPaid
    <2>2. call[r] \in CallStates /\ call[r].pc = "apply"
      BY <1>4 DEF ApplyNonPaid, TypeOK
    <2>3. i \in Promoted
      <3>1. call[r].status # "created"
        BY <2>2 DEF CallStates, Idle
      <3> QED BY <2>1, <2>2, <3>1 DEF StagesAgree, CallStage
    <2> DEFINE hook == <<WebhookTypeByStatus[target]>>
    <2>4. hook \in Seq(WebhookTypes) /\ ~Occurs("payment_intent.paid", hook)
      BY <2>1, Statuses_ DEF Occurs, WebhookTypes, WebhookTypeByStatus
    <2>5. /\ outbox' = LogTo(outbox, i, hook) /\ status' = [status EXCEPT ![i] = target]
          /\ UNCHANGED <<receipts, invoice>>
      BY <1>4, <2>1 DEF ApplyNonPaid
    <2> HIDE DEF hook
    <2>6. Announced' = Announced
      BY <2>4, <2>5, LogOther DEF Announced, TypeOK
    <2>7. Promoted' = Promoted
      BY <2>1, <2>3, <2>5, Statuses_ DEF Promoted, TypeOK, Absent
    <2> QED BY <2>5, <2>6, <2>7 DEF PaidAtAdapter
  <1>5. CASE UNCHANGED database
    BY <1>5 DEF database, Promoted, Announced
  <1> QED BY <1>1, <1>2, <1>3, <1>4, <1>5, Writers

\* However creation, refreshes, demo marks, polls, lapses and restarts
\* interleave, what happens to the money is what Settlement allows: an intent
\* is opened, its invoice paid, and a paid and opened intent settled at most
\* once, its receipt and its announcement in one step.
THEOREM PaymentsImplementSettlement == Spec => ImplementsSettlement
  <1> DEFINE Inv == TypeOK /\ StagesAgree /\ InvoiceHeld
  <1>1. Init => InvoiceHeld
    BY DEF Init, InvoiceHeld, NewCreate, Idle
  <1>2. TypeOK /\ StagesAgree /\ InvoiceHeld /\ [Next]_vars => InvoiceHeld'
    BY HeldStep
  <1>3. Init => Money!SettlementInit
    BY ModeAssumption DEF Init, Money!SettlementInit, Promoted, Occurs, PaidInvoice, Absent
  <1>4. TypeOK /\ StagesAgree /\ InvoiceHeld /\ [Next]_vars
          => [Money!SettlementNext]_(Money!settlement)
    <2> SUFFICES ASSUME TypeOK, StagesAgree, InvoiceHeld, [Next]_vars
                 PROVE  [Money!SettlementNext]_(Money!settlement)
      OBVIOUS
    <2>1. ASSUME NEW i \in Creates \ Promoted, Promoted' = Promoted \cup {i},
                 UNCHANGED <<PaidAtAdapter, receipts, Announced>>
          PROVE  Money!Open(i)
      BY <2>1 DEF Money!Open, PaidAtAdapter, Announced
    <2>2. ASSUME NEW i \in (Promoted \cap PaidAtAdapter) \ receipts,
                 receipts' = receipts \cup {i}, Announced' = Announced \cup {i},
                 UNCHANGED <<Promoted, PaidAtAdapter>>
          PROVE  Money!Settle(i)
      BY <2>2 DEF Money!Settle, PaidAtAdapter, Announced
    <2>3. ASSUME UNCHANGED <<Promoted, receipts, Announced, PaidAtAdapter>>
          PROVE  UNCHANGED Money!settlement
      BY <2>3 DEF Money!settlement, PaidAtAdapter, Announced
    <2>4. ASSUME UNCHANGED <<Promoted, receipts, Announced>>,
                 NEW i \in Creates \ PaidAtAdapter, PaidAtAdapter' = PaidAtAdapter \cup {i}
          PROVE  Money!Pay(i)
      BY <2>4 DEF Money!Pay, PaidAtAdapter, Announced
    <2>5. ASSUME UNCHANGED <<Promoted, receipts, Announced>>,
                 Mode = "simulated", PaidAtAdapter' = {}
          PROVE  Money!Forget
      BY <2>5 DEF Money!Forget, PaidAtAdapter, Announced
    <2>6. UNCHANGED database => UNCHANGED <<Promoted, receipts, Announced>>
      BY DEF database, Promoted, Announced
    <2>7. Promoted \subseteq Creates
      BY DEF Promoted
    <2> QED BY <2>1, <2>2, <2>3, <2>4, <2>5, <2>6, <2>7, DatabaseSteps, PaidSteps
            DEF Money!SettlementNext
  <1> QED BY <1>1, <1>2, <1>3, <1>4, Typed, PTL
          DEF Spec, ImplementsSettlement, Money!SettlementSpec
=============================================================================
