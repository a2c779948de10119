------------------------------ MODULE AdminConsole ------------------------------
(***************************************************************************)
(* The admin console in one browser tab: the selected merchant, the page   *)
(* that is mounted with the feeds it loads and polls (useAsync), and the   *)
(* actions an operator starts from its rows and buttons.  Of the server    *)
(* only one fact is told apart: which intents are settled.  A settlement   *)
(* writes the intent, its ledger event and its webhook in one transaction  *)
(* (StatusOnRecord of PaymentIntents).  Texts, layout and messages are     *)
(* left out.                                                               *)
(***************************************************************************)
EXTENDS DataTable, FiniteSets, SequencesExt

CONSTANTS
    Merchants,
    DefaultMerchant,
    Intents,
    MerchantOf,     \* the merchant of each intent
    SettledBefore,  \* intents settled before the tab is opened
    DemoEndpoints,  \* does the server offer the demo marks?
    Visited,        \* bound: the pages of the sidebar the operator opens
    PageSize,       \* rows on a page of a table
    MaxLoads,       \* bound: loads of one feed in flight
    MaxPosts,       \* bound: actions in flight
    MaxClicks       \* bound: navigations, switches and actions

VARIABLES
    settled,        \* the server: intents in a terminal status
    merchant,       \* the selected merchant, kept in localStorage
    known,          \* merchants the switcher lists
    demoEnabled,    \* what the last /healthz answer said
    route,          \* the mounted page
    routeId,        \* the intent of the detail page's address
    openId,         \* the intent of the order modal
    feed,           \* the mounted feeds: data and error
    loads,          \* the loads in flight of each mounted feed
    posts,          \* the actions in flight
    busy,           \* rows (or buttons) that are disabled meanwhile
    tablePage,      \* the page chosen in the table
    narrowed,       \* the filter of a list: settled intents only
    clicks

vars == <<settled, merchant, known, demoEnabled, route, routeId, openId,
          feed, loads, posts, busy, tablePage, narrowed, clicks>>

table == <<tablePage, narrowed>>

-----------------------------------------------------------------------------
(* Pages and feeds *)

TableRoutes == {"/ledger", "/webhooks", "/receipts"}

\* The pages of the sidebar; the detail page is reached from their rows.
SidebarRoutes == {"/", "/payment-intents", "/reconciliation"} \cup TableRoutes

Routes == SidebarRoutes \cup {"/payment-intents/:id"}

ASSUME ConsoleAssumption ==
    /\ DefaultMerchant \in Merchants
    /\ IsFiniteSet(Intents)
    /\ MerchantOf \in [Intents -> Merchants]
    /\ SettledBefore \subseteq Intents
    /\ DemoEndpoints \in BOOLEAN
    /\ PageSize \in Nat \ {0}
    /\ Visited \subseteq SidebarRoutes
    /\ {MaxLoads, MaxPosts, MaxClicks} \subseteq Nat
    /\ "none" \notin Intents \cup Merchants

\* The rail beside the intents loads as the overview does, by a hook of its
\* own, and is left out.
FeedsOf(r) ==
    CASE r = "/" -> {"overview"}
      [] r = "/payment-intents" -> {"intents"}
      [] r = "/payment-intents/:id" -> {"detail"}
      [] r \in TableRoutes -> {r}
      [] OTHER -> {}

PolledFeeds == UNION {FeedsOf(r) : r \in Routes}

Feeds == PolledFeeds \cup {"order"}

\* What a load asks for, in requests of their own.  Lists of one merchant
\* that are asked for at the same time are not told apart.
PartsOf(f) == IF f = "detail" THEN {"intent", "ledger", "webhooks"} ELSE {"list"}

\* Faulty variant: everything at once.
BeforeNothing(f, part) == {}

\* The detail page asks for the lists once it knows the intent's merchant.
Before(f, part) == IF f = "detail" /\ part # "intent" THEN {"intent"} ELSE {}

KeyOf(f) ==
    CASE f = "detail" -> routeId
      [] f = "order" -> openId
      [] OTHER -> merchant

Scope(key) == IF key \in Merchants THEN {i \in Intents : MerchantOf[i] = key} ELSE {key}

Asked(key) == [key |-> key, got |-> <<>>]

NoData == Asked("none")

NewFeed == [data |-> NoData, error |-> FALSE]

Mount(fs) == [f \in fs |-> NewFeed]

\* What a feed lists.  Receipts and the largest intents are of settled ones.
Rows(f) ==
    LET shown == feed[f].data
    IN  CASE shown = NoData -> {}
          [] shown # NoData /\ (f \in {"overview", "/receipts"} \/ narrowed) -> shown.got["list"]
          [] OTHER -> Scope(shown.key)

TableRows == SetToSeq(Rows(route))

NoPost == [fn |-> "none"]

Heard(n) == posts[n] # NoPost /\ posts[n].heard

\* The tab is opened at any address.
Init ==
    /\ settled = SettledBefore
    /\ merchant = DefaultMerchant
    /\ known = {}
    /\ demoEnabled = FALSE
    /\ \/ route \in Visited /\ routeId = "none"
       \/ route = "/payment-intents/:id" /\ routeId \in Intents
    /\ openId = "none"
    /\ feed = Mount(FeedsOf(route))
    /\ loads = [f \in FeedsOf(route) |-> {Asked(IF f = "detail" THEN routeId ELSE merchant)}]
    /\ posts = [n \in 1..MaxPosts |-> NoPost]
    /\ busy = {}
    /\ tablePage = 1
    /\ narrowed = FALSE
    /\ clicks = 0

Click == clicks < MaxClicks /\ clicks' = clicks + 1

-----------------------------------------------------------------------------
(* Navigation: a page that is left takes its feeds, its table and its busy  *)
(* flag with it; what it posted still reaches the server, unheard.          *)

Land(r, id) ==
    /\ route' = r
    /\ routeId' = id
    /\ openId' = "none"
    /\ feed' = Mount(FeedsOf(r))
    /\ loads' = [f \in FeedsOf(r) |-> {Asked(IF f = "detail" THEN id ELSE merchant)}]
    /\ posts' = [n \in 1..MaxPosts |->
                    IF Heard(n) /\ posts[n].answer = "none"
                    THEN [posts[n] EXCEPT !.heard = FALSE]
                    ELSE IF Heard(n) THEN NoPost ELSE posts[n]]
    /\ busy' = {}
    /\ tablePage' = 1
    /\ narrowed' = FALSE
    /\ UNCHANGED <<settled, merchant>>

OpenPage(r) ==
    /\ Click
    /\ r # route
    /\ Land(r, "none")
    /\ UNCHANGED <<known, demoEnabled>>

OpenIntent(i) ==
    /\ Click
    /\ \/ \E f \in DOMAIN feed \ {"detail", "order"} : i \in Rows(f)
       \/ openId = i
    /\ Land("/payment-intents/:id", i)
    /\ UNCHANGED <<known, demoEnabled>>

\* The address is loaded anew: only the selected merchant is kept.
Reopen ==
    /\ Click
    /\ Land(route, routeId)
    /\ known' = {}
    /\ demoEnabled' = FALSE

\* The loaders of fs run for a key; what the feeds show stays until that is here.
Reload(fs, key) ==
    /\ \A f \in fs : Cardinality(loads[f] \cup {Asked(key)}) <= MaxLoads
    /\ loads' = [f \in DOMAIN loads |-> IF f \in fs THEN loads[f] \cup {Asked(key)} ELSE loads[f]]

\* From one detail page to another, by the history of the tab (which may be
\* older than this load of the console): the page stays mounted.
JumpToIntent(i) ==
    /\ Click
    /\ route = "/payment-intents/:id"
    /\ i # routeId
    /\ routeId' = i
    /\ Reload({"detail"}, i)
    /\ UNCHANGED <<settled, merchant, known, demoEnabled, route, openId, feed, posts, busy, table>>

SwitchMerchant(m) ==
    /\ Click
    /\ m \in known \ {merchant}
    /\ merchant' = m
    /\ Reload(DOMAIN feed \ {"detail", "order"}, m)
    /\ UNCHANGED <<settled, known, demoEnabled, route, routeId, openId, feed, posts, busy, table>>

OpenOrder(i) ==
    /\ Click
    /\ route = "/payment-intents"
    /\ openId = "none"
    /\ i \in Rows("intents")
    /\ openId' = i
    /\ feed' = [f \in DOMAIN feed \cup {"order"} |-> IF f = "order" THEN NewFeed ELSE feed[f]]
    /\ loads' = [f \in DOMAIN feed \cup {"order"} |-> IF f = "order" THEN {Asked(i)} ELSE loads[f]]
    /\ UNCHANGED <<settled, merchant, known, demoEnabled, route, routeId, posts, busy, table>>

\* Faulty variant: the loads of the modal outlive it.
CloseOrderWhileLoading ==
    /\ openId # "none"
    /\ openId' = "none"
    /\ feed' = [f \in DOMAIN feed \ {"order"} |-> feed[f]]
    /\ UNCHANGED <<settled, merchant, known, demoEnabled, route, routeId, loads, posts, busy, table, clicks>>

CloseOrder ==
    /\ openId # "none"
    /\ openId' = "none"
    /\ feed' = [f \in DOMAIN feed \ {"order"} |-> feed[f]]
    /\ loads' = [f \in DOMAIN loads \ {"order"} |-> loads[f]]
    /\ UNCHANGED <<settled, merchant, known, demoEnabled, route, routeId, posts, busy, table, clicks>>

-----------------------------------------------------------------------------
(* useAsync: nothing ties an answer to the latest load                      *)

view == <<merchant, known, demoEnabled, route, routeId, openId, posts, busy, table, clicks>>

\* Faulty variant: a feed that has its data is not asked for again.
PollUntilLoaded(f) ==
    /\ f \in DOMAIN feed \cap PolledFeeds
    /\ feed[f].data = NoData
    /\ Reload({f}, KeyOf(f))
    /\ UNCHANGED <<view, settled, feed>>

\* The interval, or the refresh button: always the loader of the last render.
Poll(f) ==
    /\ f \in DOMAIN feed \cap PolledFeeds
    /\ Reload({f}, KeyOf(f))
    /\ UNCHANGED <<view, settled, feed>>

Replace(f, l, new) == loads' = [loads EXCEPT ![f] = (@ \ {l}) \cup new]

ServerAnswers(f, l, part) ==
    /\ part \in PartsOf(f) \ DOMAIN l.got
    /\ Before(f, part) \subseteq DOMAIN l.got
    /\ LET answer == settled \cap Scope(l.key)
           got == [p \in DOMAIN l.got \cup {part} |-> IF p = part THEN answer ELSE l.got[p]]
       IN  Replace(f, l, {[l EXCEPT !.got = got]})
    /\ UNCHANGED <<view, settled, feed>>

SetData(f, l) ==
    /\ DOMAIN l.got = PartsOf(f)
    /\ Replace(f, l, {})
    /\ feed' = [feed EXCEPT ![f] = [data |-> l, error |-> FALSE]]
    /\ UNCHANGED <<view, settled>>

SetError(f, l) ==
    /\ Replace(f, l, {})
    /\ feed' = [feed EXCEPT ![f] = [data |-> @.data, error |-> TRUE]]
    /\ UNCHANGED <<view, settled>>

LoadAnswered(f) ==
    /\ f \in DOMAIN loads
    /\ \E l \in loads[f] : \E part \in PartsOf(f) : ServerAnswers(f, l, part)

LoadEnds(f) ==
    /\ f \in DOMAIN loads
    /\ \E l \in loads[f] : SetData(f, l) \/ SetError(f, l)

\* The contexts around the pages.
SetMerchants ==
    /\ known = {}
    /\ known' = Merchants
    /\ UNCHANGED <<settled, merchant, demoEnabled, route, routeId, openId, feed, loads, posts, busy,
                   table, clicks>>

SetHealth(reachable) ==
    /\ demoEnabled' = (reachable /\ DemoEndpoints)
    /\ UNCHANGED <<settled, merchant, known, route, routeId, openId, feed, loads, posts, busy,
                   table, clicks>>

-----------------------------------------------------------------------------
(* Actions: runAction of the pages, the replays and the exports             *)

Formats == {"csv", "json"}

\* The list pages remember one row; the others lock every button.
Locked(on) ==
    CASE route = "/payment-intents/:id" -> Intents
      [] route = "/reconciliation" -> Formats
      [] OTHER -> {on}

Post(fn, on) ==
    /\ Click
    /\ on \notin busy
    /\ \E n \in 1..MaxPosts :
        /\ posts[n] = NoPost
        /\ \A k \in 1..(n - 1) : posts[k] # NoPost
        /\ posts' = [posts EXCEPT ![n] = [fn |-> fn, on |-> on, heard |-> TRUE, answer |-> "none"]]
    /\ busy' = Locked(on)
    /\ UNCHANGED <<settled, merchant, known, demoEnabled, route, routeId, openId, feed, loads, table>>

\* A menu of the table offers the marks for what the list shows as open.
ActOnRow(fn, i) ==
    /\ route = "/payment-intents"
    /\ i \in Rows("intents")
    /\ fn = "mark" => demoEnabled /\ i \notin feed["intents"].data.got["list"]
    /\ Post(fn, i)

\* The buttons of the detail page act on the intent of its address,
ActOnDetail(fn) ==
    /\ route = "/payment-intents/:id"
    /\ feed["detail"].data # NoData
    /\ fn = "mark" => demoEnabled
    /\ Post(fn, routeId)

\* and the timeline replays the webhooks it shows.
ReplayShown ==
    /\ route = "/payment-intents/:id"
    /\ feed["detail"].data # NoData
    /\ Post("replay", feed["detail"].data.key)

ReplayRow(i) ==
    /\ route = "/webhooks"
    /\ i \in Rows("/webhooks")
    /\ Post("replay", i)

Export(format) ==
    /\ route = "/reconciliation"
    /\ Post("export", format)

\* What an action may do to the settled intents, whether or not its answer
\* makes it back: a refresh may find the intent settled, a mark settles it
\* (as paid, expired or failed, which the console does not tell apart).
Effects(fn, on, ok) ==
    CASE fn = "mark" -> IF ok THEN {{on}} ELSE {{}, {on}}
      [] fn = "refresh" -> {{}, {on}}
      [] OTHER -> {{}}

ServerActs(n) ==
    /\ posts[n] # NoPost
    /\ posts[n].answer = "none"
    /\ \E ok \in BOOLEAN : \E effect \in Effects(posts[n].fn, posts[n].on, ok) :
        /\ settled' = settled \cup effect
        /\ posts' = [posts EXCEPT ![n] =
                        IF @.heard THEN [@ EXCEPT !.answer = IF ok THEN "done" ELSE "failed"] ELSE NoPost]
    /\ UNCHANGED <<merchant, known, demoEnabled, route, routeId, openId, feed, loads, busy, table, clicks>>

PageKey == IF route = "/payment-intents/:id" THEN routeId ELSE merchant

\* Faulty variant: the flag is cleared after success only.
ActionEndsWell(n) ==
    /\ Heard(n)
    /\ posts[n].answer # "none"
    /\ posts' = [posts EXCEPT ![n] = NoPost]
    /\ Reload(IF posts[n].answer = "done" THEN FeedsOf(route) ELSE {}, PageKey)
    /\ busy' = IF posts[n].answer = "done" THEN {} ELSE busy
    /\ UNCHANGED <<settled, merchant, known, demoEnabled, route, routeId, openId, feed, table, clicks>>

ActionEnds(n) ==
    /\ Heard(n)
    /\ posts[n].answer # "none"
    /\ posts' = [posts EXCEPT ![n] = NoPost]
    /\ Reload(IF posts[n].answer = "done" THEN FeedsOf(route) ELSE {}, PageKey)
    /\ busy' = {}
    /\ UNCHANGED <<settled, merchant, known, demoEnabled, route, routeId, openId, feed, table, clicks>>

\* The poller, a demo endpoint or another operator.
ServerSettles(i) ==
    /\ settled' = settled \cup {i}
    /\ UNCHANGED <<view, feed, loads>>

-----------------------------------------------------------------------------
(* The table of the pages that have one                                     *)

TurnPage ==
    /\ route \in TableRoutes
    /\ feed[route].data # NoData
    /\ \/ CanGoBack(TableRows, PageSize, tablePage) /\ tablePage' = PreviousPage(tablePage)
       \/ CanGoOn(TableRows, PageSize, tablePage) /\ tablePage' = NextPage(TableRows, PageSize, tablePage)
    /\ UNCHANGED <<settled, merchant, known, demoEnabled, route, routeId, openId, feed, loads, posts, busy, narrowed, clicks>>

\* The filter above a list is applied or reset; the page stays as it was chosen.
Narrow ==
    /\ route \in {"/payment-intents", "/ledger", "/webhooks"}
    /\ narrowed' = ~narrowed
    /\ UNCHANGED <<settled, merchant, known, demoEnabled, route, routeId, openId, feed, loads, posts, busy,
                   tablePage, clicks>>

\* Another query, sort key or number of rows starts from the first page.
RestartTable ==
    /\ route \in TableRoutes
    /\ feed[route].data # NoData
    /\ tablePage' = 1
    /\ UNCHANGED <<settled, merchant, known, demoEnabled, route, routeId, openId, feed, loads, posts, busy, narrowed, clicks>>

-----------------------------------------------------------------------------

UserNext ==
    \/ \E r \in Visited : OpenPage(r)
    \/ \E i \in Intents : OpenIntent(i) \/ JumpToIntent(i) \/ OpenOrder(i) \/ ReplayRow(i)
    \/ \E m \in Merchants : SwitchMerchant(m)
    \/ \E fn \in {"refresh", "mark"} : (\E i \in Intents : ActOnRow(fn, i)) \/ ActOnDetail(fn)
    \/ ReplayShown
    \/ \E format \in Formats : Export(format)
    \/ Reopen
    \/ CloseOrder
    \/ TurnPage
    \/ RestartTable
    \/ Narrow

Next ==
    \/ UserNext
    \/ \E f \in Feeds : Poll(f) \/ LoadAnswered(f) \/ LoadEnds(f)
    \/ \E n \in 1..MaxPosts : ServerActs(n) \/ ActionEnds(n)
    \/ SetMerchants
    \/ \E reachable \in BOOLEAN : SetHealth(reachable)
    \/ \E i \in Intents : ServerSettles(i)

\* The interval keeps running, and a request is answered, refused or given up
\* by the browser in the end.
Fairness ==
    \A f \in Feeds :
        WF_vars(Poll(f)) /\ WF_vars(LoadAnswered(f)) /\ WF_vars(LoadEnds(f))

Spec == Init /\ [][Next]_vars /\ Fairness

-----------------------------------------------------------------------------

Loads == [key : Merchants \cup Intents, got : UNION {[ps -> SUBSET Intents] : ps \in
            {{}, {"list"}} \cup SUBSET PartsOf("detail")}]

TypeOK ==
    /\ settled \subseteq Intents
    /\ merchant \in Merchants
    /\ known \in {{}, Merchants}
    /\ demoEnabled \in BOOLEAN
    /\ route \in Routes
    /\ {routeId, openId} \subseteq Intents \cup {"none"}
    /\ DOMAIN feed = DOMAIN loads
    /\ DOMAIN feed \in {FeedsOf(route), FeedsOf(route) \cup {"order"}}
    /\ \A f \in DOMAIN feed :
        /\ feed[f].data \in Loads \cup {NoData}
        /\ feed[f].error \in BOOLEAN
        /\ loads[f] \subseteq Loads
    /\ tablePage \in Nat \ {0}
    /\ narrowed \in BOOLEAN

\* Buttons are disabled only while the action they wait for is on its way, so
\* a failed action, a navigation or a crossing of two actions never leaves
\* them dead; and where one flag locks all buttons there is one action at most.
BusyIsWorking ==
    /\ busy # {} => \E n \in 1..MaxPosts : Heard(n) /\ Locked(posts[n].on) = busy
    /\ route \in {"/payment-intents/:id", "/reconciliation"} =>
          \A n1, n2 \in 1..MaxPosts : Heard(n1) /\ Heard(n2) => n1 = n2

\* A detail page shows no settled intent without the ledger event and the
\* webhook of its settlement, however the three requests interleave with it.
DetailIsWhole ==
    "detail" \in DOMAIN feed /\ feed["detail"].data # NoData =>
        LET shown == feed["detail"].data.got
        IN  shown["intent"] \subseteq shown["ledger"] \cap shown["webhooks"]

\* While a table has rows its page shows some, also after the list shrank
\* under a page further on.
PageHasRows ==
    route \in TableRoutes /\ feed[route].data # NoData /\ TableRows # <<>> =>
        PageRows(TableRows, PageSize, tablePage) # <<>>

Current(f) ==
    \/ feed[f].error
    \/ /\ feed[f].data.key = KeyOf(f)
       /\ \A part \in PartsOf(f) : feed[f].data.got[part] = settled \cap Scope(KeyOf(f))

\* Answers may overtake each other and show another merchant, or the past; but
\* once the operator and the server hold still, every polled feed shows the
\* present state of what is selected, or says that it could not be loaded.
FeedsCatchUp == \A f \in PolledFeeds : <>[](f \in DOMAIN feed => Current(f))
=============================================================================
