---------------------------- MODULE Storefront_proofs ----------------------------
(***************************************************************************)
(* Proofs about the demo shop: which webhooks it acts on, for every header; *)
(* what its log counts; and what its tables show, for any number of rows.  *)
(***************************************************************************)
EXTENDS Storefront, DataTable_proofs, WellFoundedInduction, FiniteSetTheorems, TLAPS

\* Some part of a header is the last of its kind.
LEMMA LastPart ==
  ASSUME NEW n \in Nat, NEW K, K \subseteq 1..n, K # {}
  PROVE  \E last \in K : \A k \in K : k <= last
  <1> DEFINE T == {n - k : k \in K}
             R == {ss \in Nat \X Nat : ss[1] < ss[2]}
  <1>1. T \subseteq Nat /\ T # {}
    <2>1. \A k \in K : k \in Nat /\ k <= n /\ n - k \in Nat
      OBVIOUS
    <2> QED BY <2>1
  <1>2. IsWellFoundedOn(R, Nat)
    BY NatLessThanWellFounded, Zenon DEF OpToRel
  <1>3. PICK x \in T : \A y \in T : ~(<<y, x>> \in R)
    <2> HIDE DEF R, T
    <2> QED BY <1>1, <1>2, WFMin
  <1>4. PICK last \in K : x = n - last
    BY <1>3
  <1>5. ASSUME NEW k \in K PROVE k <= last
    <2>1. n - k \in T /\ n - k \in Nat /\ x \in Nat
      BY <1>1, <1>3
    <2>2. ~(n - k < x)
      <3> SUFFICES ASSUME n - k < x PROVE FALSE
        OBVIOUS
      <3>1. <<n - k, x>> \in R
        BY <2>1
      <3> QED BY <1>3, <2>1, <3>1
    <2>3. last \in 1..n /\ k \in 1..n
      BY <1>4, <1>5
    <2> QED BY <1>4, <2>2, <2>3
  <1> QED BY <1>5

\* A header that parses has a timestamp, which is one of its t parts.
LEMMA TimestampParsed ==
  ASSUME NEW header, Len(header) \in Nat, DOMAIN header = 1..Len(header), ~IsMalformed(header),
         \A k \in DOMAIN header : header[k].key = "t" => header[k].value \in Nat
  PROVE  ParsedTimestamp(header) \in Nat
  <1> DEFINE K == {k \in DOMAIN header : header[k].key = "t"}
  <1>1. K \subseteq 1..Len(header) /\ K # {}
    BY DEF IsMalformed, ValuesOf
  <1>2. \E last \in K : \A k \in K : k <= last
    BY <1>1, LastPart
  <1>3. \E last \in DOMAIN header :
          /\ header[last].key = "t"
          /\ \A j \in DOMAIN header : header[j].key = "t" => j <= last
    BY <1>2
  <1> QED BY <1>3 DEF ParsedTimestamp

\* What is valid was signed in time, with this secret and for this body,
LEMMA ValidIsSigned ==
  ASSUME NEW r \in Requests, Verdict(r) = "valid"
  PROVE  SignedAround(r)
  <1> DEFINE t == ParsedTimestamp(r.header)
             s == ComputeSignature(Secret, t, r.body)
  <1>1. ~IsMalformed(r.header)
    BY DEF Verdict, VerifySignatureHeader
  <1>2. ~OutOfTolerance(r.now, t, Tolerance) /\ s \in ValuesOf(r.header, "v1")
    BY <1>1 DEF Verdict, VerifySignatureHeader
  <1>3. t \in Nat /\ r.now \in Nat /\ Tolerance \in Nat
    BY <1>1, TimestampParsed, StorefrontAssumption
  <1>4. t \in (r.now - Tolerance)..(r.now + Tolerance)
    <2> HIDE DEF t
    <2> QED BY <1>2, <1>3 DEF OutOfTolerance, Distance
  <1>5. s.secret = Secret /\ s.rawBody = r.body /\ s.timestamp = t
    BY DEF ComputeSignature
  <1> QED BY <1>2, <1>4, <1>5 DEF SignedAround

\* and what the sender signed in time is valid.
LEMMA GenuineIsValid ==
  ASSUME NEW r \in Requests, Genuine(r)
  PROVE  Verdict(r) = "valid"
  <1>1. PICK t \in (r.now - Tolerance)..(r.now + Tolerance) : r.header = BuildSignatureHeader(Secret, r.body, t)
    BY DEF Genuine
  <1> DEFINE header == r.header
             s == ComputeSignature(Secret, t, r.body)
  <1>2. DOMAIN header = {1, 2} /\ header[1] = Timestamp(t) /\ header[2] = SignedBy(s)
    BY <1>1 DEF BuildSignatureHeader
  <1>3. /\ header[1].key = "t" /\ header[1].value = t
        /\ header[2].key = "v1" /\ header[2].value = s
    BY <1>2 DEF Timestamp, SignedBy
  <1> HIDE DEF header, s
  <1>4. ValuesOf(header, "t") # {} /\ s \in ValuesOf(header, "v1")
    BY <1>2, <1>3 DEF ValuesOf
  <1>5. ~IsMalformed(header)
    BY <1>2, <1>3, <1>4 DEF IsMalformed
  <1>6. ParsedTimestamp(header) = t
    <2> DEFINE P(k) == /\ header[k].key = "t"
                       /\ \A j \in DOMAIN header : header[j].key = "t" => j <= k
    <2>1. P(1) /\ \A k \in DOMAIN header : P(k) => k = 1
      BY <1>2, <1>3
    <2>2. (CHOOSE k \in DOMAIN header : P(k)) = 1
      BY <1>2, <2>1
    <2> QED BY <1>3, <2>2 DEF ParsedTimestamp
  <1>7. ~OutOfTolerance(r.now, t, Tolerance)
    <2>1. r.now \in Nat /\ Tolerance \in Nat
      BY StorefrontAssumption
    <2> QED BY <1>1, <2>1 DEF OutOfTolerance, Distance
  <1> QED BY <1>4, <1>5, <1>6, <1>7 DEF Verdict, VerifySignatureHeader, header, s

\* Whatever headers reach the shop, it looks at a body only if that was signed
\* within the tolerance, and it refuses nothing that the sender signed in time
\* (verifier.ts:15-90, merchant-demo webhook-handler.ts:38-126).
THEOREM ActsOnSignedHolds == Spec => ActsOnSigned
  <1>1. ASSUME NEW r \in Requests
        PROVE  /\ AcceptWebhook(r) \/ RejectBody(r) => SignedAround(r)
               /\ RejectSignature(r) => ~Genuine(r)
    BY ValidIsSigned, GenuineIsValid DEF AcceptWebhook, RejectBody, RejectSignature
  <1>2. [Next]_vars =>
          [log' # log =>
              \A r \in Requests :
                  /\ AcceptWebhook(r) \/ RejectBody(r) => SignedAround(r)
                  /\ RejectSignature(r) => ~Genuine(r)]_vars
    BY <1>1
  <1> QED BY <1>2, PTL DEF Spec, ActsOnSigned
-----------------------------------------------------------------------------
(* What the log counts *)

Outcomes == {"invalid_signature", "malformed", "duplicate_ignored", "acknowledged",
             "fulfilled", "expired", "failed"}

Entries == [order : Orders \cup {"none"}, verified : BOOLEAN, outcome : Outcomes]

\* The shop's own state, and the fulfilments its log tells of.
ShopTyped ==
    /\ seen \subseteq Events
    /\ order \in [Orders -> OrderStatuses]
    /\ fulfilments \in [Orders -> Nat]
    /\ log \in Seq(Entries)

Fulfilled(l, o) == {k \in DOMAIN l : l[k].order = o /\ l[k].outcome = "fulfilled"}

\* One more entry of a log counts for its order, if it tells of a fulfilment.
LEMMA FulfilledAppended ==
  ASSUME NEW l \in Seq(Entries), NEW e \in Entries, NEW o \in Orders
  PROVE  Cardinality(Fulfilled(Append(l, e), o)) =
             Cardinality(Fulfilled(l, o)) + (IF e.order = o /\ e.outcome = "fulfilled" THEN 1 ELSE 0)
  <1> DEFINE n == Append(l, e)
             last == Len(l) + 1
  <1>1. /\ Len(l) \in Nat /\ DOMAIN l = 1..Len(l) /\ DOMAIN n = 1..last
        /\ \A k \in 1..Len(l) : n[k] = l[k]
        /\ n[last] = e
    OBVIOUS
  <1>2. IsFiniteSet(Fulfilled(l, o)) /\ Cardinality(Fulfilled(l, o)) \in Nat
    <2>1. Fulfilled(l, o) \in SUBSET (1..Len(l)) /\ IsFiniteSet(1..Len(l))
      BY <1>1, FS_Interval DEF Fulfilled
    <2> QED BY <2>1, FS_Subset, FS_CardinalityType
  <1> HIDE DEF n
  <1>3. CASE e.order = o /\ e.outcome = "fulfilled"
    <2>1. Fulfilled(n, o) = Fulfilled(l, o) \cup {last} /\ last \notin Fulfilled(l, o)
      BY <1>1, <1>3 DEF Fulfilled
    <2> QED BY <1>2, <1>3, <2>1, FS_AddElement DEF n
  <1>4. CASE ~(e.order = o /\ e.outcome = "fulfilled")
    <2>1. Fulfilled(n, o) = Fulfilled(l, o)
      BY <1>1, <1>4 DEF Fulfilled
    <2> QED BY <1>2, <1>4, <2>1 DEF n
  <1> QED BY <1>3, <1>4

\* What the shop does with an event it has not seen.
LEMMA NewEvent ==
  ASSUME NEW e \in Events
  PROVE  /\ OutcomeOf(e) \in Outcomes
         /\ OutcomeOf(e) = "fulfilled" <=> TypeOf[e] = "payment_intent.paid"
         /\ TypeOf[e] \in DrivingTypes => OrderStatusByType[TypeOf[e]] \in OrderStatuses
  <1>1. CASE TypeOf[e] \in DrivingTypes
    <2>1. CASE TypeOf[e] = "payment_intent.paid"
      BY <2>1 DEF OutcomeOf, DrivingTypes, OrderStatusByType, Outcomes, OrderStatuses
    <2>2. CASE TypeOf[e] = "payment_intent.expired"
      BY <2>2 DEF OutcomeOf, DrivingTypes, OrderStatusByType, Outcomes, OrderStatuses
    <2>3. CASE TypeOf[e] = "payment_intent.failed"
      BY <2>3 DEF OutcomeOf, DrivingTypes, OrderStatusByType, Outcomes, OrderStatuses
    <2> QED BY <1>1, <2>1, <2>2, <2>3 DEF DrivingTypes
  <1>2. CASE TypeOf[e] \notin DrivingTypes
    BY <1>2 DEF OutcomeOf, DrivingTypes, Outcomes
  <1> QED BY <1>1, <1>2

\* An accepted request is logged as what it did to its order.
LEMMA AcceptedCounts ==
  ASSUME ShopTyped, LogCountsFulfilments, NEW r \in Requests, AcceptWebhook(r)
  PROVE  ShopTyped' /\ LogCountsFulfilments'
  <1> DEFINE e == r.body
             outcome == IF e \in seen THEN "duplicate_ignored" ELSE OutcomeOf(e)
             entry == [order |-> OrderOf[e], verified |-> TRUE, outcome |-> outcome]
  <1>1. e \in Events /\ e # NotJson
    BY StorefrontAssumption DEF AcceptWebhook
  <1>2. OrderOf[e] \in Orders
    BY <1>1, EventAssumption
  <1>3. log' = Append(log, entry) /\ HandleWebhook(e)
    BY <1>1 DEF AcceptWebhook, LogEvent
  <1>4. outcome \in Outcomes /\ entry \in Entries
    BY <1>1, <1>2, NewEvent DEF Entries, Outcomes
  <1>5. log' \in Seq(Entries)
    BY <1>3, <1>4 DEF ShopTyped
  <1>6. CASE e \in seen
    <2>1. UNCHANGED <<seen, order, fulfilments>> /\ entry.outcome # "fulfilled"
      BY <1>3, <1>6 DEF HandleWebhook
    <2>2. ShopTyped'
      BY <1>5, <2>1 DEF ShopTyped
    <2> HIDE DEF entry
    <2>3. \A o \in Orders : Cardinality(Fulfilled(log', o)) = Cardinality(Fulfilled(log, o)) + 0
      BY <1>3, <1>4, <2>1, FulfilledAppended DEF ShopTyped
    <2>4. \A o \in Orders : Cardinality(Fulfilled(log, o)) = fulfilments[o] /\ fulfilments[o] \in Nat
      BY DEF LogCountsFulfilments, Fulfilled, ShopTyped
    <2>5. \A o \in Orders : Cardinality(Fulfilled(log', o)) = fulfilments'[o]
      BY <2>1, <2>3, <2>4
    <2> QED BY <2>2, <2>5 DEF LogCountsFulfilments, Fulfilled
  <1>7. CASE e \notin seen
    <2> DEFINE paid == TypeOf[e] = "payment_intent.paid"
    <2>1. seen' = seen \cup {e} /\ Apply(e)
      BY <1>3, <1>7 DEF HandleWebhook
    <2>2. entry.order = OrderOf[e] /\ (entry.outcome = "fulfilled" <=> paid)
      BY <1>1, <1>7, NewEvent
    <2>3. fulfilments' = [fulfilments EXCEPT ![OrderOf[e]] =
                             IF paid THEN fulfilments[OrderOf[e]] + 1 ELSE fulfilments[OrderOf[e]]]
      BY <2>1 DEF Apply
    <2>4. order' \in [Orders -> OrderStatuses]
      <3>1. EnsureOrder(order[OrderOf[e]]) \in OrderStatuses
        BY <1>2 DEF EnsureOrder, OrderStatuses, ShopTyped
      <3> QED BY <1>1, <1>2, <2>1, <3>1, NewEvent DEF Apply, ShopTyped
    <2>5. ShopTyped'
      <3>1. fulfilments[OrderOf[e]] \in Nat
        BY <1>2 DEF ShopTyped
      <3>2. (IF paid THEN fulfilments[OrderOf[e]] + 1 ELSE fulfilments[OrderOf[e]]) \in Nat
        BY <3>1
      <3> HIDE DEF paid, e
      <3>3. fulfilments' \in [Orders -> Nat]
        BY <2>3, <3>2 DEF ShopTyped
      <3>4. seen' \subseteq Events
        BY <1>1, <2>1 DEF ShopTyped
      <3> QED BY <1>5, <2>4, <3>3, <3>4 DEF ShopTyped
    <2> HIDE DEF entry, e, paid
    <2>6. ASSUME NEW o \in Orders PROVE Cardinality(Fulfilled(log', o)) = fulfilments'[o]
      <3>1. Cardinality(Fulfilled(log', o)) = Cardinality(Fulfilled(log, o))
              + (IF entry.order = o /\ entry.outcome = "fulfilled" THEN 1 ELSE 0)
        BY <1>3, <1>4, FulfilledAppended DEF ShopTyped
      <3>2. Cardinality(Fulfilled(log, o)) = fulfilments[o] /\ fulfilments \in [Orders -> Nat]
        BY DEF LogCountsFulfilments, Fulfilled, ShopTyped
      <3> QED BY <1>2, <2>2, <2>3, <3>1, <3>2
    <2> QED BY <2>5, <2>6 DEF LogCountsFulfilments, Fulfilled
  <1> QED BY <1>6, <1>7

\* A refused request is logged, and fulfils nothing.
LEMMA RefusedCounts ==
  ASSUME ShopTyped, LogCountsFulfilments, UNCHANGED shop,
         NEW verified \in BOOLEAN, NEW outcome \in Outcomes \ {"fulfilled"},
         LogEvent(NotJson, verified, outcome)
  PROVE  ShopTyped' /\ LogCountsFulfilments'
  <1> DEFINE entry == [order |-> "none", verified |-> verified, outcome |-> outcome]
  <1>1. entry \in Entries /\ log' = Append(log, entry) /\ entry.outcome # "fulfilled"
    BY DEF LogEvent, Entries
  <1>2. ShopTyped'
    BY <1>1 DEF ShopTyped, shop
  <1> HIDE DEF entry
  <1>3. \A o \in Orders : Cardinality(Fulfilled(log', o)) = Cardinality(Fulfilled(log, o)) + 0
    BY <1>1, FulfilledAppended DEF ShopTyped
  <1>4. \A o \in Orders : Cardinality(Fulfilled(log, o)) = fulfilments[o] /\ fulfilments[o] \in Nat
    BY DEF LogCountsFulfilments, Fulfilled, ShopTyped
  <1>5. \A o \in Orders : Cardinality(Fulfilled(log', o)) = fulfilments'[o]
    BY <1>3, <1>4 DEF shop
  <1> QED BY <1>2, <1>5 DEF LogCountsFulfilments, Fulfilled

\* Only the receiver touches the shop and its log.
LEMMA PageLeavesShop ==
  ASSUME [Next]_vars PROVE ReceiverNext \/ UNCHANGED <<shop, log>>
  <1>1. OwnerNext => UNCHANGED server
    BY DEF OwnerNext, ClickTab, OpenDrawer, CloseDrawer, ApplyHash, LoadPage, ChooseFilter, TurnPage
  <1>2. ASSUME NEW p \in polls, PollApplied(p) \/ PollFails(p) PROVE UNCHANGED server
    BY <1>2 DEF PollApplied, PollFails
  <1>3. ASSUME NEW part \in {"orders", "events"}, PollAnswers(part) PROVE UNCHANGED server
    BY <1>3 DEF PollAnswers, PollAnswered
  <1>4. StartPoll => UNCHANGED server
    BY DEF StartPoll
  <1>5. UNCHANGED vars => UNCHANGED <<shop, log>>
    BY DEF vars
  <1>6. UNCHANGED server => UNCHANGED <<shop, log>>
    BY DEF server
  <1> QED BY <1>1, <1>2, <1>3, <1>4, <1>5, <1>6 DEF Next, PollReturns

LEMMA LogCountsStep ==
  ASSUME ShopTyped, LogCountsFulfilments, [Next]_vars PROVE ShopTyped' /\ LogCountsFulfilments'
  <1> DEFINE Counts == ShopTyped' /\ LogCountsFulfilments'
  <1>1. ASSUME NEW r \in Requests, RejectSignature(r) PROVE Counts
    BY <1>1, RefusedCounts DEF RejectSignature, Outcomes
  <1>2. ASSUME NEW r \in Requests, RejectBody(r) PROVE Counts
    BY <1>2, RefusedCounts DEF RejectBody, Outcomes
  <1>3. ASSUME NEW r \in Requests, AcceptWebhook(r) PROVE Counts
    BY <1>3, AcceptedCounts
  <1>4. ASSUME NEW o \in Orders, ShopPlacesOrder(o) PROVE Counts
    <2>1. order' \in [Orders -> OrderStatuses] /\ UNCHANGED <<seen, fulfilments, log>>
      BY <1>4 DEF ShopPlacesOrder, PlaceOrder, EnsureOrder, OrderStatuses, ShopTyped
    <2> QED BY <2>1 DEF ShopTyped, LogCountsFulfilments
  <1>5. CASE ShopRestarts
    <2>1. /\ seen' = {} /\ log' = <<>>
          /\ order' = [o \in Orders |-> "none"] /\ fulfilments' = [o \in Orders |-> 0]
      BY <1>5 DEF ShopRestarts, ShopBoots
    <2>2. ShopTyped'
      BY <2>1 DEF ShopTyped, OrderStatuses
    <2>3. \A o \in Orders : Fulfilled(log', o) = {} /\ fulfilments'[o] = 0
      BY <2>1 DEF Fulfilled
    <2> QED BY <2>2, <2>3, FS_EmptySet DEF LogCountsFulfilments, Fulfilled
  <1>6. CASE UNCHANGED <<shop, log>>
    BY <1>6 DEF shop, ShopTyped, LogCountsFulfilments
  <1> QED BY <1>1, <1>2, <1>3, <1>4, <1>5, <1>6, PageLeavesShop DEF ReceiverNext

LEMMA LogCountsInit == Init => ShopTyped /\ LogCountsFulfilments
  <1> SUFFICES ASSUME Init PROVE ShopTyped /\ LogCountsFulfilments
    OBVIOUS
  <1>1. ShopTyped
    BY DEF Init, ShopInit, ShopTyped, OrderStatuses
  <1>2. \A o \in Orders : Fulfilled(log, o) = {} /\ fulfilments[o] = 0
    BY DEF Init, ShopInit, Fulfilled
  <1> QED BY <1>1, <1>2, FS_EmptySet DEF LogCountsFulfilments, Fulfilled

\* Since the last boot the shop's log has one "fulfilled" for each fulfilment of
\* an order and no other, however its events are repeated, refused or mixed
\* (merchant-demo webhook-handler.ts:75-126, order-store.ts:87-91).
THEOREM LogCountsFulfilmentsHolds == Spec => []LogCountsFulfilments
  <1>1. ShopTyped /\ LogCountsFulfilments /\ [Next]_vars => ShopTyped' /\ LogCountsFulfilments'
    BY LogCountsStep
  <1> QED BY <1>1, LogCountsInit, PTL DEF Spec

-----------------------------------------------------------------------------
(* What a table shows *)

Tabs == {"overview", "orders", "webhooks"}

\* What a page was told, and what a poll has been told so far.
Shows(s) == s.orders \in [Orders -> OrderStatuses] /\ s.events \in Seq(Entries)

Told(p) ==
    /\ "orders" \in DOMAIN p => p["orders"] \in [Orders -> OrderStatuses]
    /\ "events" \in DOMAIN p => p["events"] \in Seq(Entries)

PageNumber == Nat \ {0}

ViewTyped(v) == v \in [tab : Tabs, filter : Filters \cup {""}, page : PageNumber]

\* The page is one that the table has.
OnPage(s, v) == v.tab # "overview" => v.page <= TotalPages(RowsOf(s, v), PageSize)

PageFits ==
    /\ ShopTyped
    /\ Shows(shown) /\ (\A p \in polls : Told(p))
    /\ ViewTyped(view) /\ OnPage(shown, view)

LEMMA RowCount ==
  ASSUME NEW s, Shows(s), NEW v
  PROVE  /\ VisibleRows(s, v) \in Nat
         /\ RowsOf(s, v) \in Seq(Nat) /\ Len(RowsOf(s, v)) = VisibleRows(s, v)
  <1>1. IsFiniteSet(OrderRows(s, v))
    <2>1. OrderRows(s, v) \in SUBSET Orders /\ IsFiniteSet(Orders)
      BY StorefrontAssumption DEF OrderRows
    <2> QED BY <2>1, FS_Subset
  <1>2. IsFiniteSet(EventRows(s, v))
    <2>1. Len(s.events) \in Nat /\ DOMAIN s.events = 1..Len(s.events)
      BY DEF Shows
    <2>2. EventRows(s, v) \in SUBSET (1..Len(s.events)) /\ IsFiniteSet(1..Len(s.events))
      BY <2>1, FS_Interval DEF EventRows
    <2> QED BY <2>2, FS_Subset
  <1>3. VisibleRows(s, v) \in Nat
    BY <1>1, <1>2, FS_CardinalityType DEF VisibleRows
  <1> HIDE DEF VisibleRows
  <1> QED BY <1>3 DEF RowsOf

\* However few rows are left, render leads to a page the table has.
LEMMA RenderedFits ==
  ASSUME NEW s, Shows(s), NEW v, ViewTyped(v)
  PROVE  ViewTyped(Rendered(s, v)) /\ OnPage(s, Rendered(s, v))
  <1>1. CASE v.tab = "overview"
    BY <1>1 DEF Rendered, OnPage
  <1>2. CASE v.tab # "overview"
    <2> DEFINE last == TotalPages(RowsOf(s, v), PageSize)
               w == Rendered(s, v)
    <2>1. last \in Nat \ {0}
      BY RowCount, PageNumbers, StorefrontAssumption
    <2>2. w = [v EXCEPT !.page = Smaller(@, last)]
      BY <1>2 DEF Rendered
    <2> HIDE DEF last, w
    <2>3. Smaller(v.page, last) \in PageNumber /\ Smaller(v.page, last) <= last
      <3>1. v.page \in PageNumber
        BY DEF ViewTyped
      <3> QED BY <2>1, <3>1 DEF Smaller, PageNumber
    <2>4. ViewTyped(w) /\ w.tab = v.tab /\ w.filter = v.filter /\ w.page = Smaller(v.page, last)
      BY <2>2, <2>3 DEF ViewTyped
    <2>5. RowsOf(s, w) = RowsOf(s, v)
      BY <2>4 DEF RowsOf, VisibleRows, OrderRows, EventRows
    <2> QED BY <2>3, <2>4, <2>5 DEF OnPage, last, w
  <1> QED BY <1>1, <1>2

\* A page that the table has is not empty.
LEMMA FittingPageHasRows ==
  ASSUME NEW s, Shows(s), NEW v, ViewTyped(v), OnPage(s, v),
         v.tab # "overview", VisibleRows(s, v) > 0
  PROVE  Slice(s, v) # <<>>
  <1> DEFINE rows == RowsOf(s, v)
  <1>1. rows \in Seq(Nat) /\ Len(rows) = VisibleRows(s, v) /\ rows # <<>>
    BY RowCount
  <1>2. v.page \in Nat \ {0} /\ PageSize \in Nat \ {0}
    <2>1. v.page \in PageNumber
      BY DEF ViewTyped
    <2> QED BY <2>1, StorefrontAssumption DEF PageNumber
  <1>3. TotalPages(rows, PageSize) \in Nat \ {0} /\ v.page <= TotalPages(rows, PageSize)
    BY <1>1, <1>2, PageNumbers DEF OnPage
  <1>4. SafePage(rows, PageSize, v.page) = v.page
    BY <1>2, <1>3 DEF SafePage, Smaller
  <1>5. Slice(s, v) = PageRows(rows, PageSize, v.page)
    BY <1>1, <1>4 DEF Slice, PageRows
  <1> QED BY <1>1, <1>2, <1>5, PageShowsRows

LEMMA NewViewTyped == ViewTyped(NewView) /\ 1 \in PageNumber
  BY DEF ViewTyped, NewView, Tabs, PageNumber

LEMMA SnapshotShows ==
  ASSUME ShopTyped PROVE Shows(Snapshot)
  BY DEF ShopTyped, Shows, Snapshot

\* Every way to another view ends in a render.
LEMMA OwnerKeepsFit ==
  ASSUME PageFits, OwnerNext PROVE PageFits'
  <1> DEFINE Fits == Shows(shown') /\ (\A p \in polls' : Told(p)) /\ ViewTyped(view') /\ OnPage(shown', view')
  <1>1. ASSUME NEW v, ViewTyped(v), view' = Rendered(shown, v), UNCHANGED <<shown, polls>> PROVE Fits
    BY <1>1, RenderedFits DEF PageFits
  <1>2. ASSUME UNCHANGED <<shown, view, polls>> PROVE Fits
    BY <1>2 DEF PageFits
  <1>3. ASSUME NEW tab \in Tabs, ClickTab(tab) PROVE Fits
    <2>1. ViewTyped([NewView EXCEPT !.tab = tab])
      BY NewViewTyped DEF ViewTyped
    <2> QED BY <1>1, <1>3, <2>1 DEF ClickTab
  <1>4. ASSUME NEW o \in Orders, OpenDrawer(o) PROVE Fits
    BY <1>2, <1>4 DEF OpenDrawer
  <1>5. ASSUME CloseDrawer PROVE Fits
    BY <1>2, <1>5 DEF CloseDrawer
  <1>6. ASSUME NEW h \in Orders \cup {"", "orders", "webhooks"}, ApplyHash(h) PROVE Fits
    <2>1. CASE h \in Orders
      <3>1. ViewTyped([view EXCEPT !.tab = IF @ = "overview" THEN "orders" ELSE @])
        BY DEF PageFits, ViewTyped, Tabs
      <3> QED BY <1>1, <1>6, <2>1, <3>1 DEF ApplyHash, FollowLink
    <2>2. CASE h \notin Orders
      <3>1. ViewTyped([view EXCEPT !.tab = IF h = "" THEN "overview" ELSE h, !.page = 1])
        BY <2>2, NewViewTyped DEF PageFits, ViewTyped, Tabs
      <3> QED BY <1>1, <1>6, <2>2, <3>1 DEF ApplyHash, FollowTab
    <2> QED BY <2>1, <2>2
  <1>7. ASSUME NEW h \in Orders \cup {"", "orders", "webhooks"}, LoadPage(h) PROVE Fits
    <2> DEFINE v == [NewView EXCEPT !.tab =
                        IF h = "" THEN "overview" ELSE IF h \in Orders THEN "orders" ELSE h]
    <2>1. ViewTyped(v)
      BY NewViewTyped DEF ViewTyped, Tabs
    <2>2. shown' = Snapshot /\ polls' = {} /\ view' = Rendered(Snapshot, v)
      BY <1>7 DEF LoadPage
    <2>3. Shows(Snapshot)
      BY SnapshotShows DEF PageFits
    <2> HIDE DEF v
    <2> QED BY <2>1, <2>2, <2>3, RenderedFits
  <1>8. ASSUME NEW filter \in Filters \cup {""}, ChooseFilter(filter) PROVE Fits
    <2>1. ViewTyped([view EXCEPT !.filter = filter, !.page = 1])
      BY NewViewTyped DEF PageFits, ViewTyped
    <2> QED BY <1>1, <1>8, <2>1 DEF ChooseFilter
  <1>9. ASSUME NEW step \in {-1, 1}, TurnPage(step) PROVE Fits
    <2>1. view.page + step \in PageNumber
      <3>1. TotalPages(RowsOf(shown, view), PageSize) \in Nat
        BY RowCount, PageNumbers, StorefrontAssumption DEF PageFits
      <3> QED BY <1>9, <3>1 DEF TurnPage, PageNumber
    <2>2. ViewTyped([view EXCEPT !.page = @ + step])
      BY <2>1 DEF PageFits, ViewTyped
    <2> QED BY <1>1, <1>9, <2>2 DEF TurnPage
  <1>10. Fits
    BY <1>3, <1>4, <1>5, <1>6, <1>7, <1>8, <1>9 DEF OwnerNext, Tabs
  <1>11. ShopTyped'
    <2>1. UNCHANGED server
      BY DEF OwnerNext, ClickTab, OpenDrawer, CloseDrawer, ApplyHash, LoadPage, ChooseFilter, TurnPage
    <2> QED BY <2>1 DEF PageFits, ShopTyped, server, shop
  <1> QED BY <1>10, <1>11 DEF PageFits, Shows, Told, ViewTyped, OnPage

\* What a poll brings is a state of orders and a log, if not of the same moment.
LEMMA PollKeepsFit ==
  ASSUME PageFits, UNCHANGED server,
         \/ StartPoll
         \/ \E part \in {"orders", "events"} : PollAnswers(part)
         \/ PollReturns
         \/ \E p \in polls : PollFails(p)
  PROVE  PageFits'
  <1>1. ShopTyped'
    BY DEF PageFits, ShopTyped, server, shop
  <1> DEFINE Fits == Shows(shown') /\ (\A p \in polls' : Told(p)) /\ ViewTyped(view') /\ OnPage(shown', view')
  <1>2. ASSUME StartPoll PROVE Fits
    <2>1. Told(<<>>)
      BY DEF Told
    <2> QED BY <1>2, <2>1 DEF StartPoll, PageFits
  <1>3. ASSUME NEW part \in {"orders", "events"}, NEW p \in polls, PollAnswered(p, part) PROVE Fits
    <2> DEFINE q == [x \in DOMAIN p \cup {part} |-> IF x = part THEN Snapshot[x] ELSE p[x]]
    <2>1. Told(p) /\ Shows(Snapshot)
      BY SnapshotShows DEF PageFits
    <2>2. DOMAIN q = DOMAIN p \cup {part}
      OBVIOUS
    <2>3. \A x \in DOMAIN q : q[x] = IF x = part THEN Snapshot[x] ELSE p[x]
      OBVIOUS
    <2> HIDE DEF q
    <2>4. Told(q)
      BY <2>1, <2>2, <2>3 DEF Told, Shows, Snapshot
    <2> QED BY <1>3, <2>4 DEF PollAnswered, PageFits, q
  <1>4. ASSUME NEW p \in polls, PollApplied(p) PROVE Fits
    <2>1. Shows(p)
      BY <1>4 DEF PollApplied, PageFits, Told, Shows
    <2> QED BY <1>4, <2>1, RenderedFits DEF PollApplied, PageFits
  <1>5. ASSUME NEW p \in polls, PollFails(p) PROVE Fits
    BY <1>5 DEF PollFails, PageFits
  <1>6. Fits
    BY <1>2, <1>3, <1>4, <1>5 DEF PollAnswers, PollReturns
  <1> QED BY <1>1, <1>6 DEF PageFits, Shows, Told, ViewTyped, OnPage

LEMMA ReceiverLeavesPage ==
  ASSUME ReceiverNext PROVE UNCHANGED page
  BY DEF ReceiverNext, RejectSignature, RejectBody, AcceptWebhook, ShopPlacesOrder, ShopRestarts

LEMMA PageFitsStep ==
  ASSUME PageFits, LogCountsFulfilments, [Next]_vars PROVE PageFits'
  <1>1. CASE ReceiverNext
    <2>1. ShopTyped'
      BY LogCountsStep DEF PageFits
    <2> QED BY <1>1, <2>1, ReceiverLeavesPage DEF page, PageFits, Shows, Told, ViewTyped, OnPage
  <1>2. CASE OwnerNext
    BY <1>2, OwnerKeepsFit
  <1>3. CASE StartPoll
    BY <1>3, PollKeepsFit DEF StartPoll
  <1>4. ASSUME NEW part \in {"orders", "events"}, PollAnswers(part) PROVE PageFits'
    <2>1. UNCHANGED server
      BY <1>4 DEF PollAnswers, PollAnswered
    <2> QED BY <1>4, <2>1, PollKeepsFit
  <1>5. CASE PollReturns
    <2>1. UNCHANGED server
      BY <1>5 DEF PollReturns, PollApplied
    <2> QED BY <1>5, <2>1, PollKeepsFit
  <1>6. ASSUME NEW p \in polls, PollFails(p) PROVE PageFits'
    <2>1. UNCHANGED server
      BY <1>6 DEF PollFails
    <2> QED BY <1>6, <2>1, PollKeepsFit
  <1>7. CASE UNCHANGED vars
    BY <1>7 DEF vars, page, shop, PageFits, ShopTyped, Shows, Told, ViewTyped, OnPage
  <1> QED BY <1>1, <1>2, <1>3, <1>4, <1>5, <1>6, <1>7 DEF Next

LEMMA PageFitsInit == Init => PageFits
  <1> SUFFICES ASSUME Init PROVE PageFits
    OBVIOUS
  <1>1. ShopTyped /\ Shows(shown)
    BY LogCountsInit, SnapshotShows DEF Init
  <1>2. ViewTyped(view) /\ view.tab = "overview" /\ polls = {}
    BY NewViewTyped DEF Init, NewView
  <1> QED BY <1>1, <1>2 DEF PageFits, OnPage

\* Whatever polls, filters, links and restarts of the shop do to the rows of a
\* tab, the page that is shown has some of them as long as there are any
\* (merchant-demo html.ts:404-443).
THEOREM TabHasRowsHolds == Spec => []TabHasRows
  <1> DEFINE Inv == PageFits /\ LogCountsFulfilments
  <1>1. Init => Inv
    BY PageFitsInit, LogCountsInit
  <1>2. Inv /\ [Next]_vars => Inv'
    BY PageFitsStep, LogCountsStep DEF PageFits
  <1>3. Inv => TabHasRows
    BY FittingPageHasRows DEF TabHasRows, PageFits
  <1> QED BY <1>1, <1>2, <1>3, PTL DEF Spec
=============================================================================
