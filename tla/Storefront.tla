------------------------------- MODULE Storefront -------------------------------
(***************************************************************************)
(* The demo shop as its owner sees it: the webhook receiver in front of    *)
(* MerchantDemo, which verifies, handles and logs every request, and the   *)
(* page that polls orders and events and shows them in tables and in a     *)
(* drawer.  Requests reach the receiver at any time, in any order and any  *)
(* number of times.  The search box narrows a table as the status filter   *)
(* does; the filter stands for both.                                       *)
(***************************************************************************)
EXTENDS MerchantDemo, Signature, DataTable, FiniteSets

CONSTANTS
    Requests,       \* what reaches the shop: a header, a body, and the time on its clock
    NotJson,        \* a body that is no JSON
    Secret,         \* the secret the shop shares with the sender
    Tolerance,      \* accepted distance of the clocks, in seconds
    Filters,        \* choices of the status filter besides "all"
    PageSize,       \* rows on a page of a table
    MaxLog,         \* bound: requests the shop logs, one less after each restart
    MaxRejected,    \* bound: refused requests, among the first ones only
    MaxPolls,       \* bound: polls in flight
    MaxBoots        \* bound: restarts of the shop

ASSUME StorefrontAssumption ==
    /\ \A r \in Requests :
        /\ r.body \in Events \cup {NotJson} /\ r.now \in Nat
        /\ Len(r.header) \in Nat /\ DOMAIN r.header = 1..Len(r.header)
        /\ \A k \in DOMAIN r.header : r.header[k].key = "t" => r.header[k].value \in Nat
    /\ NotJson \notin Events
    /\ Tolerance \in Nat
    /\ PageSize \in Nat \ {0}
    /\ IsFiniteSet(Orders) /\ Orders \cap {"none", "", "orders", "webhooks"} = {}

VARIABLES
    log,            \* the shop: every webhook received, oldest first
    boots,          \* how often the shop was restarted
    shown,          \* the page: the orders and events it was last told
    view,           \* its tab, filter and page of the table
    drawer,         \* the order whose details are open, as last rendered
    live,           \* did the last poll succeed?
    polls           \* polls in flight, with what was answered so far

server == <<shop, log, boots>>
page == <<shown, view, drawer, live, polls>>
vars == <<shop, log, boots, page>>

-----------------------------------------------------------------------------
(* The receiver                                                             *)

Verdict(r) == VerifySignatureHeader(r.header, r.body, Secret, Tolerance, r.now)

\* What the handler makes of a new event.
OutcomeOf(e) ==
    IF TypeOf[e] \in DrivingTypes THEN OrderStatusByType[TypeOf[e]] ELSE "acknowledged"

LogEvent(id, verified, outcome) ==
    /\ id = NotJson => Len(log) + boots < MaxRejected
    /\ Len(log) + boots < MaxLog
    /\ log' = Append(log, [order |-> IF id = NotJson THEN "none" ELSE OrderOf[id],
                           verified |-> verified, outcome |-> outcome])

\* 401: nothing of the body is looked at.
RejectSignature(r) ==
    /\ Verdict(r) # "valid"
    /\ LogEvent(NotJson, FALSE, "invalid_signature")
    /\ UNCHANGED <<shop, boots, page>>

\* 400
RejectBody(r) ==
    /\ Verdict(r) = "valid"
    /\ r.body = NotJson
    /\ LogEvent(NotJson, TRUE, "malformed")
    /\ UNCHANGED <<shop, boots, page>>

\* 200
AcceptWebhook(r) ==
    /\ Verdict(r) = "valid"
    /\ r.body # NotJson
    /\ LogEvent(r.body, TRUE, IF r.body \in seen THEN "duplicate_ignored" ELSE OutcomeOf(r.body))
    /\ HandleWebhook(r.body)
    /\ UNCHANGED <<boots, page>>

\* POST /orders
ShopPlacesOrder(o) ==
    /\ PlaceOrder(o)
    /\ UNCHANGED <<log, boots, page>>

ShopRestarts ==
    /\ boots < MaxBoots
    /\ boots' = boots + 1
    /\ ShopBoots
    /\ log' = <<>>
    /\ UNCHANGED page

-----------------------------------------------------------------------------
(* The page                                                                 *)

Snapshot == [orders |-> order, events |-> log]

EventsFor(events, o) == SelectSeq(events, LAMBDA e : e.order = o)

Known(s, o) == s.orders[o] # "none" \/ EventsFor(s.events, o) # <<>>

EventPasses(e, filter) ==
    CASE filter = "verified" -> e.verified
      [] filter = "rejected" -> ~e.verified
      [] filter = "duplicate" -> e.outcome = "duplicate_ignored"
      [] filter = "fulfilled" -> e.outcome = "fulfilled"
      [] OTHER -> TRUE

OrderRows(s, v) == {o \in Orders : s.orders[o] # "none" /\ v.filter \in {"", s.orders[o]}}

\* By their places in the log.
EventRows(s, v) == {k \in DOMAIN s.events : EventPasses(s.events[k], v.filter)}

\* How many rows the tab has; the newest come first.
VisibleRows(s, v) ==
    Cardinality(IF v.tab = "orders" THEN OrderRows(s, v) ELSE EventRows(s, v))

\* The rows as DataTable counts them.
RowsOf(s, v) == [k \in 1..VisibleRows(s, v) |-> k]

\* Faulty variant: the page is left as it was chosen.
RenderedAsChosen(s, v) == v

\* render: the table takes the page back to its last one.
Rendered(s, v) ==
    IF v.tab = "overview" THEN v
    ELSE [v EXCEPT !.page = Smaller(@, TotalPages(RowsOf(s, v), PageSize))]

\* The rows that render puts on the page.
Slice(s, v) ==
    SubSeq(RowsOf(s, v), (v.page - 1) * PageSize + 1, Smaller(v.page * PageSize, VisibleRows(s, v)))

Closed == [id |-> "none", status |-> "none", events |-> <<>>]

Details(s, o) == [id |-> o, status |-> s.orders[o], events |-> EventsFor(s.events, o)]

NewView == [tab |-> "overview", filter |-> "", page |-> 1]

Init ==
    /\ ShopInit
    /\ log = <<>>
    /\ boots = 0
    /\ shown = Snapshot
    /\ view = NewView
    /\ drawer = Closed
    /\ live = TRUE
    /\ polls = {}

OpenDrawer(o) ==
    /\ \/ view.tab = "overview" /\ EventsFor(shown.events, o) # <<>>
       \/ view.tab = "orders" /\ o \in OrderRows(shown, view)
       \/ view.tab = "webhooks" /\ \E k \in EventRows(shown, view) : shown.events[k].order = o
    /\ drawer' = Details(shown, o)
    /\ UNCHANGED <<server, shown, view, live, polls>>

CloseDrawer ==
    /\ drawer # Closed
    /\ drawer' = Closed
    /\ UNCHANGED <<server, shown, view, live, polls>>

ClickTab(tab) ==
    /\ view' = Rendered(shown, [NewView EXCEPT !.tab = tab])
    /\ drawer' = Closed
    /\ UNCHANGED <<server, shown, live, polls>>

\* The page follows the fragment of its address (an order, a tab, or none for
\* the overview): back, forward, or a link that was shared.
FollowLink(o) ==
    /\ view' = Rendered(shown, [view EXCEPT !.tab = IF @ = "overview" THEN "orders" ELSE @])
    /\ drawer' = IF Known(shown, o) THEN Details(shown, o) ELSE drawer

FollowTab(h) ==
    /\ drawer' = Closed
    /\ view' = Rendered(shown, [view EXCEPT !.tab = IF h = "" THEN "overview" ELSE h, !.page = 1])

ApplyHash(h) ==
    /\ IF h \in Orders THEN FollowLink(h) ELSE FollowTab(h)
    /\ UNCHANGED <<server, shown, live, polls>>

\* The page is loaded anew, with the state of the shop in it and any fragment.
LoadPage(h) ==
    /\ shown' = Snapshot
    /\ live' = TRUE
    /\ polls' = {}
    /\ view' = Rendered(Snapshot, [NewView EXCEPT !.tab =
                   IF h = "" THEN "overview" ELSE IF h \in Orders THEN "orders" ELSE h])
    /\ drawer' = IF h \in Orders /\ Known(Snapshot, h) THEN Details(Snapshot, h) ELSE Closed
    /\ UNCHANGED server

ChooseFilter(filter) ==
    /\ view.tab # "overview"
    /\ view' = Rendered(shown, [view EXCEPT !.filter = filter, !.page = 1])
    /\ UNCHANGED <<server, shown, drawer, live, polls>>

TurnPage(step) ==
    /\ view.tab # "overview"
    /\ view.page + step \in 1..TotalPages(RowsOf(shown, view), PageSize)
    /\ view' = Rendered(shown, [view EXCEPT !.page = @ + step])
    /\ UNCHANGED <<server, shown, drawer, live, polls>>

-----------------------------------------------------------------------------
(* poll: two requests at the same time; nothing orders one poll after another *)

StartPoll ==
    /\ Cardinality(polls \cup {<<>>}) <= MaxPolls
    /\ polls' = polls \cup {<<>>}
    /\ UNCHANGED <<server, shown, view, drawer, live>>

PollAnswered(p, part) ==
    /\ part \notin DOMAIN p
    /\ polls' = (polls \ {p}) \cup 
           {[x \in DOMAIN p \cup {part} |-> IF x = part THEN Snapshot[x] ELSE p[x]]}
    /\ UNCHANGED <<server, shown, view, drawer, live>>

Placed(s) == {o \in Orders : s.orders[o] # "none"}

\* Only the numbers of orders and of events are compared.
Changed(p) ==
    \/ Len(p.events) # Len(shown.events)
    \/ Cardinality(Placed(p)) # Cardinality(Placed(shown))

\* Faulty variant: the drawer is rendered when it is opened and not again.
NeverRedrawn(p) == drawer

\* The drawer is rendered again if there is more or less to show.
Redrawn(p) ==
    IF Changed(p) /\ drawer # Closed /\ Known(p, drawer.id) THEN Details(p, drawer.id) ELSE drawer

\* Faulty variant: an answer of the same length is taken for the same answer.
PollAppliedIfLonger(p) ==
    /\ DOMAIN p = {"orders", "events"}
    /\ polls' = polls \ {p}
    /\ shown' = IF Changed(p) THEN p ELSE shown
    /\ view' = Rendered(p, view)
    /\ drawer' = Redrawn(p)
    /\ live' = TRUE
    /\ UNCHANGED server

PollApplied(p) ==
    /\ DOMAIN p = {"orders", "events"}
    /\ polls' = polls \ {p}
    /\ shown' = p
    /\ view' = Rendered(p, view)
    /\ drawer' = Redrawn(p)
    /\ live' = TRUE
    /\ UNCHANGED server

PollFails(p) ==
    /\ polls' = polls \ {p}
    /\ live' = FALSE
    /\ UNCHANGED <<server, shown, view, drawer>>

-----------------------------------------------------------------------------

ReceiverNext ==
    \/ \E r \in Requests :
          RejectSignature(r) \/ RejectBody(r) \/ AcceptWebhook(r)
    \/ \E o \in Orders : ShopPlacesOrder(o)
    \/ ShopRestarts

OwnerNext ==
    \/ \E tab \in {"overview", "orders", "webhooks"} : ClickTab(tab)
    \/ \E o \in Orders : OpenDrawer(o)
    \/ CloseDrawer
    \/ \E h \in Orders \cup {"", "orders", "webhooks"} : ApplyHash(h) \/ LoadPage(h)
    \/ \E filter \in Filters \cup {""} : ChooseFilter(filter)
    \/ \E step \in {-1, 1} : TurnPage(step)

PollAnswers(part) == \E p \in polls : PollAnswered(p, part)

PollReturns == \E p \in polls : PollApplied(p)

Next ==
    \/ ReceiverNext
    \/ OwnerNext
    \/ StartPoll
    \/ \E part \in {"orders", "events"} : PollAnswers(part)
    \/ PollReturns
    \/ \E p \in polls : PollFails(p)

\* The interval runs on, and the browser ends every request sooner or later.
Fairness ==
    /\ WF_vars(StartPoll)
    /\ \A part \in {"orders", "events"} : WF_vars(PollAnswers(part))
    /\ WF_vars(PollReturns)

Spec == Init /\ [][Next]_vars /\ Fairness

-----------------------------------------------------------------------------

SignedAround(r) ==
    \E s \in ValuesOf(r.header, "v1") :
        s.secret = Secret /\ s.rawBody = r.body /\ s.timestamp \in (r.now - Tolerance)..(r.now + Tolerance)

Genuine(r) ==
    \E t \in (r.now - Tolerance)..(r.now + Tolerance) : r.header = BuildSignatureHeader(Secret, r.body, t)

\* Whatever arrives, and however its header is put together, the shop looks at a
\* body only if somebody who knows the secret signed this body within the
\* tolerance of the shop's own clock; and it never refuses what the sender
\* signed in time.
ActsOnSigned ==
    [][log' # log =>
          \A r \in Requests :
              /\ AcceptWebhook(r) \/ RejectBody(r) => SignedAround(r)
              /\ RejectSignature(r) => ~Genuine(r)]_vars

\* The log is the proof the page shows of "fulfilled exactly once": it counts as
\* many fulfilments of an order as there were, however often its events arrive.
LogCountsFulfilments ==
    \A o \in Orders :
        Cardinality({k \in DOMAIN log : log[k].order = o /\ log[k].outcome = "fulfilled"})
            = fulfilments[o]

\* A tab with rows shows some of them, also after a poll, a filter or a restart
\* of the shop took rows away.
TabHasRows ==
    view.tab # "overview" /\ VisibleRows(shown, view) > 0 => Slice(shown, view) # <<>>

\* Polls overtake each other, but in the end the page shows the shop as it is,
\* or says that it is reconnecting.
PageCatchesUp == <>[](live => shown = Snapshot)

\* Unless the shop is restarted, the timeline in an open drawer catches up too.
TimelineCatchesUp ==
    <>[](boots = 0 /\ live /\ drawer # Closed => drawer.events = EventsFor(log, drawer.id))
=============================================================================
