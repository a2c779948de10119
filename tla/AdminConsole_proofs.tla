-------------------------- MODULE AdminConsole_proofs --------------------------
(***************************************************************************)
(* Proofs about the lists, the buttons and the detail page of the admin    *)
(* console, for any merchants and intents and any bounds.                  *)
(***************************************************************************)
EXTENDS AdminConsole, DataTable_proofs, FiniteSetTheorems, SequenceTheorems, TLAPS

-----------------------------------------------------------------------------
(* The state the console keeps *)

DetailRoute == "/payment-intents/:id"

\* What the feeds of a page are called.
LEMMA FeedNames ==
  \A r \in Routes :
      /\ "order" \notin FeedsOf(r)
      /\ "detail" \in FeedsOf(r) <=> r = DetailRoute
      /\ FeedsOf(r) \subseteq PolledFeeds
      /\ r \in TableRoutes => FeedsOf(r) = {r} /\ r # "detail" /\ r # "order"
  BY DEF Routes, FeedsOf, SidebarRoutes, TableRoutes, PolledFeeds, DetailRoute

\* The order modal does not poll.
LEMMA OrderIsNotPolled == "order" \notin PolledFeeds
  BY FeedNames DEF PolledFeeds

\* Which keys a feed is asked for, what a load of it holds, and what it shows.
KeysOf(f) == IF f \in {"detail", "order"} THEN Intents ELSE Merchants

LoadsOf(f) == [key : KeysOf(f), got : UNION {[ps -> SUBSET Intents] : ps \in SUBSET PartsOf(f)}]

DataOf(f) == {l \in LoadsOf(f) : DOMAIN l.got = PartsOf(f)} \cup {NoData}

\* What is mounted is what the page needs, and holds what it asked for.
FeedsTyped ==
    /\ DOMAIN feed \in {FeedsOf(route), FeedsOf(route) \cup {"order"}}
    /\ feed = [f \in DOMAIN feed |-> [data |-> feed[f].data, error |-> feed[f].error]]
    /\ loads = [f \in DOMAIN feed |-> loads[f]]
    /\ \A f \in DOMAIN feed :
          /\ feed[f].data \in DataOf(f) /\ feed[f].error \in BOOLEAN
          /\ loads[f] \subseteq LoadsOf(f)

SelectionTyped ==
    /\ settled \subseteq Intents
    /\ merchant \in Merchants
    /\ known \in {{}, Merchants}
    /\ demoEnabled \in BOOLEAN
    /\ route \in Routes
    /\ {routeId, openId} \subseteq Intents \cup {"none"}
    /\ route = DetailRoute => routeId \in Intents
    /\ tablePage \in Nat \ {0}
    /\ narrowed \in BOOLEAN

\* A load is one of the loads TypeOK lists.
LEMMA LoadTyped ==
  ASSUME NEW f, NEW l \in LoadsOf(f) PROVE l \in Loads
  <1>1. l.key \in Merchants \cup Intents
    BY DEF LoadsOf, KeysOf
  <1>2. PICK ps \in SUBSET PartsOf(f) : l.got \in [ps -> SUBSET Intents]
    BY DEF LoadsOf
  <1>3. ps \in {{}, {"list"}} \cup SUBSET PartsOf("detail")
    BY DEF PartsOf
  <1>4. l = [key |-> l.key, got |-> l.got]
    BY DEF LoadsOf
  <1>5. l.got \in UNION {[qs -> SUBSET Intents] : qs \in {{}, {"list"}} \cup SUBSET PartsOf("detail")}
    BY <1>2, <1>3
  <1> QED BY <1>1, <1>4, <1>5 DEF Loads

\* What has been asked for is a load with nothing in it yet.
LEMMA AskedTyped ==
  ASSUME NEW f, NEW key \in KeysOf(f) PROVE Asked(key) \in LoadsOf(f)
  <1>1. <<>> \in [{} -> SUBSET Intents] /\ {} \in SUBSET PartsOf(f)
    OBVIOUS
  <1>2. <<>> \in UNION {[ps -> SUBSET Intents] : ps \in SUBSET PartsOf(f)}
    BY <1>1
  <1> QED BY <1>2 DEF Asked, LoadsOf

\* These two say what TypeOK says, and more.
LEMMA TypesFollow == SelectionTyped /\ FeedsTyped => TypeOK
  <1> SUFFICES ASSUME SelectionTyped, FeedsTyped PROVE TypeOK
    OBVIOUS
  <1>1. ASSUME NEW f \in DOMAIN feed
        PROVE  feed[f].data \in Loads \cup {NoData} /\ loads[f] \subseteq Loads
    <2>1. feed[f].data \in LoadsOf(f) \cup {NoData} /\ loads[f] \subseteq LoadsOf(f)
      BY <1>1 DEF FeedsTyped, DataOf
    <2> QED BY <2>1, LoadTyped
  <1>2. DOMAIN feed = DOMAIN loads
    BY DEF FeedsTyped
  <1>3. \A f \in DOMAIN feed : feed[f].error \in BOOLEAN
    BY DEF FeedsTyped
  <1>4. DOMAIN feed \in {FeedsOf(route), FeedsOf(route) \cup {"order"}}
    BY DEF FeedsTyped
  <1> QED BY <1>1, <1>2, <1>3, <1>4, Zenon DEF SelectionTyped, TypeOK

-----------------------------------------------------------------------------
(* What a table lists *)

\* A finite set is listed in some order.
LEMMA Listing ==
  ASSUME NEW S, IsFiniteSet(S) PROVE SetToSeq(S) \in Seq(S)
  <1>1. Cardinality(S) \in Nat /\ ExistsBijection(1..Cardinality(S), S)
    BY FS_CardinalityType
  <1>2. \E f \in [1..Cardinality(S) -> S] : IsInjective(f)
    <2>1. PICK f : f \in Bijection(1..Cardinality(S), S)
      BY <1>1 DEF ExistsBijection
    <2>2. f \in [1..Cardinality(S) -> S] /\ IsInjective(f)
      BY <2>1 DEF Bijection, Injection
    <2> QED BY <2>2
  <1>3. SetToSeq(S) \in [1..Cardinality(S) -> S]
    BY <1>2, Zenon DEF SetToSeq
  <1> QED BY <1>1, <1>3

\* The rows of a list are intents, and so are finitely many.
LEMMA TableListed ==
  ASSUME FeedsTyped, route \in TableRoutes, feed[route].data # NoData
  PROVE  TableRows \in Seq(Intents)
  <1>1. FeedsOf(route) = {route} /\ route # "detail" /\ route # "order"
    BY FeedNames DEF Routes, SidebarRoutes
  <1>2. route \in DOMAIN feed
    BY <1>1 DEF FeedsTyped
  <1>3. feed[route].data \in LoadsOf(route) /\ DOMAIN feed[route].data.got = PartsOf(route)
    BY <1>2 DEF FeedsTyped, DataOf
  <1> DEFINE l == feed[route].data
  <1>4. l.key \in Merchants /\ DOMAIN l.got = {"list"}
    BY <1>1, <1>3 DEF LoadsOf, KeysOf, PartsOf
  <1>5. l.got["list"] \subseteq Intents
    <2>1. PICK ps \in SUBSET PartsOf(route) : l.got \in [ps -> SUBSET Intents]
      BY <1>3 DEF LoadsOf
    <2> QED BY <1>4, <2>1
  <1>6. Scope(l.key) \subseteq Intents
    BY <1>4 DEF Scope
  <1>7. Rows(route) \subseteq Intents
    BY <1>5, <1>6 DEF Rows
  <1>8. IsFiniteSet(Rows(route))
    BY <1>7, FS_Subset, ConsoleAssumption
  <1>9. TableRows \in Seq(Rows(route))
    BY <1>8, Listing DEF TableRows
  <1> QED BY <1>7, <1>9

-----------------------------------------------------------------------------
(* Types *)

\* A page is mounted with empty feeds, each asked for what the page is about.
LEMMA LandTyped ==
  ASSUME SelectionTyped, FeedsTyped, NEW r \in Routes, NEW id \in Intents \cup {"none"},
         r = DetailRoute => id \in Intents, Land(r, id),
         known' \in {{}, Merchants}, demoEnabled' \in BOOLEAN
  PROVE  SelectionTyped' /\ FeedsTyped'
  <1>1. SelectionTyped'
    <2>1. /\ settled' = settled /\ merchant' = merchant /\ route' = r /\ routeId' = id
          /\ openId' = "none" /\ tablePage' = 1 /\ narrowed' = FALSE
      BY DEF Land
    <2>2. settled \subseteq Intents /\ merchant \in Merchants
      BY DEF SelectionTyped
    <2>3. route' \in Routes /\ (route' = DetailRoute => routeId' \in Intents)
      BY <2>1
    <2>4. {routeId', openId'} \subseteq Intents \cup {"none"}
      BY <2>1
    <2>5. tablePage' \in Nat \ {0}
      BY <2>1
    <2>6. narrowed' \in BOOLEAN
      BY <2>1
    <2>7. settled' \subseteq Intents /\ merchant' \in Merchants
      BY <2>1, <2>2
    <2> QED BY <2>3, <2>4, <2>5, <2>6, <2>7, Zenon DEF SelectionTyped, DetailRoute
  <1>2. ASSUME NEW f \in FeedsOf(r)
        PROVE  /\ feed'[f] = NewFeed
               /\ loads'[f] \subseteq LoadsOf(f)
    <2>1. feed'[f] = NewFeed
      BY DEF Land, Mount
    <2> DEFINE key == IF f = "detail" THEN id ELSE merchant
    <2>2. key \in KeysOf(f)
      BY FeedNames DEF KeysOf, SelectionTyped
    <2>3. loads'[f] = {Asked(key)}
      BY DEF Land
    <2> QED BY <2>1, <2>2, <2>3, AskedTyped
  <1>3. DOMAIN feed' = FeedsOf(r) /\ route' = r /\ loads' = [f \in DOMAIN feed' |-> loads'[f]]
    BY DEF Land, Mount
  <1>4. feed' = [f \in DOMAIN feed' |-> [data |-> feed'[f].data, error |-> feed'[f].error]]
    BY DEF Land, Mount, NewFeed
  <1>5. NewFeed.data = NoData /\ NewFeed.error = FALSE
    BY DEF NewFeed
  <1> QED BY <1>1, <1>2, <1>3, <1>4, <1>5 DEF FeedsTyped, DataOf

\* A reload adds loads of the right kind.
LEMMA ReloadTyped ==
  ASSUME FeedsTyped, NEW fs, NEW key, \A f \in fs : key \in KeysOf(f), Reload(fs, key),
         feed' = feed, route' = route
  PROVE  FeedsTyped'
  <1>1. loads' = [f \in DOMAIN feed |-> loads'[f]]
    BY DEF FeedsTyped, Reload
  <1>2. ASSUME NEW f \in DOMAIN feed PROVE loads'[f] \subseteq LoadsOf(f)
    <2>1. loads[f] \subseteq LoadsOf(f) /\ f \in DOMAIN loads
      BY DEF FeedsTyped
    <2>2. CASE f \in fs
      <3>1. Asked(key) \in LoadsOf(f)
        BY <2>2, AskedTyped
      <3> QED BY <2>1, <2>2, <3>1 DEF Reload
    <2>3. CASE f \notin fs
      BY <2>1, <2>3 DEF Reload
    <2> QED BY <2>2, <2>3
  <1> QED BY <1>1, <1>2 DEF FeedsTyped

\* The feed of the order modal comes,
LEMMA OpenOrderTyped ==
  ASSUME SelectionTyped, FeedsTyped, NEW i \in Intents, OpenOrder(i)
  PROVE  FeedsTyped'
  <1>1. DOMAIN feed = FeedsOf(route) \/ DOMAIN feed = FeedsOf(route) \cup {"order"}
    BY DEF FeedsTyped
  <1>2. DOMAIN feed' = FeedsOf(route) \cup {"order"} /\ route' = route
    BY <1>1 DEF OpenOrder
  <1>3. loads' = [f \in DOMAIN feed' |-> loads'[f]]
    BY DEF OpenOrder
  <1>4. NewFeed.data = NoData /\ NewFeed.error = FALSE /\ NewFeed = [data |-> NewFeed.data, error |-> NewFeed.error]
    BY DEF NewFeed
  <1>5. ASSUME NEW f \in DOMAIN feed'
        PROVE  /\ feed'[f].data \in DataOf(f) /\ feed'[f].error \in BOOLEAN
               /\ loads'[f] \subseteq LoadsOf(f)
               /\ feed'[f] = [data |-> feed'[f].data, error |-> feed'[f].error]
    <2>1. CASE f = "order"
      <3>1. feed'[f] = NewFeed /\ loads'[f] = {Asked(i)}
        BY <2>1 DEF OpenOrder
      <3>2. Asked(i) \in LoadsOf(f)
        BY <2>1, AskedTyped DEF KeysOf
      <3> QED BY <1>4, <3>1, <3>2 DEF DataOf
    <2>2. CASE f # "order"
      <3>1. f \in DOMAIN feed /\ feed'[f] = feed[f] /\ loads'[f] = loads[f]
        BY <2>2 DEF OpenOrder
      <3>2. feed[f].data \in DataOf(f) /\ feed[f].error \in BOOLEAN /\ loads[f] \subseteq LoadsOf(f)
        BY <3>1 DEF FeedsTyped
      <3>3. feed[f] = [data |-> feed[f].data, error |-> feed[f].error]
        BY <3>1 DEF FeedsTyped
      <3> QED BY <3>1, <3>2, <3>3, Zenon
    <2> QED BY <2>1, <2>2
  <1>6. feed' = [f \in DOMAIN feed' |-> [data |-> feed'[f].data, error |-> feed'[f].error]]
    BY <1>5 DEF OpenOrder
  <1> QED BY <1>2, <1>3, <1>5, <1>6 DEF FeedsTyped

\* and goes.
LEMMA CloseOrderTyped ==
  ASSUME SelectionTyped, FeedsTyped, CloseOrder
  PROVE  FeedsTyped'
  <1>1. DOMAIN feed = FeedsOf(route) \/ DOMAIN feed = FeedsOf(route) \cup {"order"}
    BY DEF FeedsTyped
  <1>2. DOMAIN feed' = FeedsOf(route) /\ route' = route /\ DOMAIN loads' = FeedsOf(route)
    BY <1>1, FeedNames DEF CloseOrder, FeedsTyped, SelectionTyped
  <1>3. \A f \in DOMAIN feed' : feed'[f] = feed[f] /\ loads'[f] = loads[f] /\ f \in DOMAIN feed
    BY <1>2 DEF CloseOrder, FeedsTyped
  <1>4. \A f \in DOMAIN feed' :
          /\ feed'[f].data \in DataOf(f) /\ feed'[f].error \in BOOLEAN
          /\ loads'[f] \subseteq LoadsOf(f)
          /\ feed'[f] = [data |-> feed'[f].data, error |-> feed'[f].error]
    BY <1>3 DEF FeedsTyped
  <1>5. feed' = [f \in DOMAIN feed' |-> [data |-> feed'[f].data, error |-> feed'[f].error]]
    BY <1>4 DEF CloseOrder
  <1>6. loads' = [f \in DOMAIN feed' |-> loads'[f]]
    BY <1>2 DEF CloseOrder
  <1> QED BY <1>2, <1>4, <1>5, <1>6 DEF FeedsTyped

\* What the server answers is settled intents.
LEMMA AnswerTyped ==
  ASSUME NEW f, NEW l \in LoadsOf(f), NEW part \in PartsOf(f), NEW answer \in SUBSET Intents
  PROVE  [l EXCEPT !.got = [p \in DOMAIN l.got \cup {part} |-> IF p = part THEN answer ELSE l.got[p]]]
            \in LoadsOf(f)
  <1> DEFINE got == [p \in DOMAIN l.got \cup {part} |-> IF p = part THEN answer ELSE l.got[p]]
  <1>1. PICK ps \in SUBSET PartsOf(f) : l.got \in [ps -> SUBSET Intents]
    BY DEF LoadsOf
  <1>2. got \in [ps \cup {part} -> SUBSET Intents] /\ ps \cup {part} \in SUBSET PartsOf(f)
    BY <1>1
  <1>3. got \in UNION {[qs -> SUBSET Intents] : qs \in SUBSET PartsOf(f)}
    BY <1>2
  <1> HIDE DEF got
  <1> QED BY <1>3 DEF LoadsOf

\* Answers, and the ends of loads, leave the feeds what they are.
LEMMA LoadStepTyped ==
  ASSUME FeedsTyped, settled \subseteq Intents,
         NEW f \in DOMAIN loads, NEW l \in loads[f],
         \/ \E part \in PartsOf(f) : ServerAnswers(f, l, part)
         \/ SetData(f, l) \/ SetError(f, l)
  PROVE  FeedsTyped'
  <1>1. f \in DOMAIN feed /\ l \in LoadsOf(f) /\ loads[f] \subseteq LoadsOf(f)
    BY DEF FeedsTyped
  <1>2. CASE \E part \in PartsOf(f) : ServerAnswers(f, l, part)
    <2>1. PICK part \in PartsOf(f) : ServerAnswers(f, l, part)
      BY <1>2
    <2> DEFINE answer == settled \cap Scope(l.key)
               new == [l EXCEPT !.got = [p \in DOMAIN l.got \cup {part} |-> IF p = part THEN answer ELSE l.got[p]]]
    <2>2. new \in LoadsOf(f)
      BY <1>1, AnswerTyped
    <2>3. loads' = [loads EXCEPT ![f] = (@ \ {l}) \cup {new}] /\ feed' = feed /\ route' = route
      BY <2>1 DEF ServerAnswers, Replace, view
    <2> HIDE DEF new
    <2>4. \A g \in DOMAIN feed : loads'[g] \subseteq LoadsOf(g)
      BY <1>1, <2>2, <2>3 DEF FeedsTyped
    <2>5. loads' = [g \in DOMAIN feed |-> loads'[g]]
      BY <2>3 DEF FeedsTyped
    <2> QED BY <2>3, <2>4, <2>5 DEF FeedsTyped
  <1>3. CASE SetData(f, l) \/ SetError(f, l)
    <2>1. loads' = [loads EXCEPT ![f] = @ \ {l}] /\ route' = route
      BY <1>3 DEF SetData, SetError, Replace, view
    <2>2. PICK shown \in DataOf(f), error \in BOOLEAN :
            feed' = [feed EXCEPT ![f] = [data |-> shown, error |-> error]]
      <3>1. CASE SetData(f, l)
        BY <1>1, <3>1 DEF SetData, DataOf
      <3>2. CASE SetError(f, l)
        <4>1. feed[f] = [data |-> feed[f].data, error |-> feed[f].error] /\ feed[f].data \in DataOf(f)
          BY <1>1 DEF FeedsTyped
        <4>2. feed' = [feed EXCEPT ![f] = [data |-> feed[f].data, error |-> TRUE]]
          BY <3>2 DEF SetError
        <4> QED BY <4>1, <4>2
      <3> QED BY <1>3, <3>1, <3>2
    <2>3. \A g \in DOMAIN feed : loads'[g] \subseteq LoadsOf(g)
      BY <1>1, <2>1 DEF FeedsTyped
    <2>4. DOMAIN feed' = DOMAIN feed /\ loads' = [g \in DOMAIN feed |-> loads'[g]]
      BY <2>1, <2>2 DEF FeedsTyped
    <2>5. \A g \in DOMAIN feed :
            /\ feed'[g].data \in DataOf(g) /\ feed'[g].error \in BOOLEAN
            /\ feed'[g] = [data |-> feed'[g].data, error |-> feed'[g].error]
      BY <1>1, <2>2 DEF FeedsTyped
    <2>6. feed' = [g \in DOMAIN feed' |-> [data |-> feed'[g].data, error |-> feed'[g].error]]
      BY <2>2, <2>4, <2>5 DEF FeedsTyped
    <2> QED BY <2>1, <2>3, <2>4, <2>5, <2>6 DEF FeedsTyped
  <1> QED BY <1>2, <1>3

\* The rows of a list of the payment intents page, or of any list, are intents.
LEMMA RowsAreIntents ==
  ASSUME FeedsTyped, NEW f \in DOMAIN feed \ {"detail"}
  PROVE  Rows(f) \subseteq Intents
  <1>1. CASE feed[f].data = NoData
    BY <1>1 DEF Rows
  <1>2. CASE feed[f].data # NoData
    <2> DEFINE l == feed[f].data
    <2>1. l \in LoadsOf(f) /\ DOMAIN l.got = {"list"}
      BY <1>2 DEF FeedsTyped, DataOf, PartsOf
    <2>2. l.got["list"] \subseteq Intents
      <3>1. PICK ps \in SUBSET PartsOf(f) : l.got \in [ps -> SUBSET Intents]
        BY <2>1 DEF LoadsOf
      <3> QED BY <2>1, <3>1
    <2>3. Scope(l.key) \subseteq Intents
      BY <2>1 DEF Scope, LoadsOf, KeysOf
    <2> QED BY <2>2, <2>3 DEF Rows
  <1> QED BY <1>1, <1>2

\* Steps that end with another page.
LEMMA NavigationTyped ==
  ASSUME SelectionTyped, FeedsTyped,
         \/ \E r \in Visited : OpenPage(r)
         \/ \E i \in Intents : OpenIntent(i)
         \/ Reopen
  PROVE  SelectionTyped' /\ FeedsTyped'
  <1>1. known \in {{}, Merchants} /\ demoEnabled \in BOOLEAN
    BY DEF SelectionTyped
  <1>2. CASE \E r \in Visited : OpenPage(r)
    <2>1. PICK r \in Visited : OpenPage(r)
      BY <1>2
    <2>2. r \in Routes /\ r # DetailRoute
      BY ConsoleAssumption DEF Routes, SidebarRoutes, TableRoutes, DetailRoute
    <2>3. Land(r, "none") /\ known' = known /\ demoEnabled' = demoEnabled
      BY <2>1 DEF OpenPage
    <2> QED BY <1>1, <2>2, <2>3, LandTyped
  <1>3. CASE \E i \in Intents : OpenIntent(i)
    <2>1. PICK i \in Intents : OpenIntent(i)
      BY <1>3
    <2>2. Land(DetailRoute, i) /\ known' = known /\ demoEnabled' = demoEnabled
      BY <2>1 DEF OpenIntent, DetailRoute
    <2>3. DetailRoute \in Routes
      BY DEF Routes, DetailRoute
    <2> QED BY <1>1, <2>2, <2>3, LandTyped
  <1>4. CASE Reopen
    <2>1. Land(route, routeId) /\ known' \in {{}, Merchants} /\ demoEnabled' \in BOOLEAN
      BY <1>4 DEF Reopen
    <2>2. route \in Routes /\ routeId \in Intents \cup {"none"} /\ (route = DetailRoute => routeId \in Intents)
      BY DEF SelectionTyped
    <2> QED BY <2>1, <2>2, LandTyped
  <1> QED BY <1>2, <1>3, <1>4

\* What the mounted feeds are asked for.
LEMMA KeyTyped ==
  ASSUME SelectionTyped, FeedsTyped, NEW f \in DOMAIN feed \cap PolledFeeds
  PROVE  KeyOf(f) \in KeysOf(f)
  <1>1. f # "order"
    BY OrderIsNotPolled
  <1>2. CASE f = "detail"
    <2>1. route = DetailRoute
      BY <1>2, FeedNames DEF FeedsTyped, SelectionTyped
    <2> QED BY <1>2, <2>1 DEF SelectionTyped, KeyOf, KeysOf
  <1>3. CASE f # "detail"
    BY <1>1, <1>3 DEF SelectionTyped, KeyOf, KeysOf
  <1> QED BY <1>2, <1>3

\* Steps that reload feeds of the page that stays.
LEMMA ReloadStepTyped ==
  ASSUME SelectionTyped, FeedsTyped,
         \/ \E i \in Intents : JumpToIntent(i)
         \/ \E m \in Merchants : SwitchMerchant(m)
         \/ \E f \in Feeds : Poll(f)
         \/ \E n \in 1..MaxPosts : ActionEnds(n)
  PROVE  SelectionTyped' /\ FeedsTyped'
  <1>1. CASE \E i \in Intents : JumpToIntent(i)
    <2>1. PICK i \in Intents : JumpToIntent(i)
      BY <1>1
    <2>2. FeedsTyped'
      <3>1. i \in KeysOf("detail")
        BY DEF KeysOf
      <3> QED BY <2>1, <3>1, ReloadTyped DEF JumpToIntent
    <2>3. SelectionTyped'
      BY <2>1 DEF JumpToIntent, SelectionTyped, table
    <2> QED BY <2>2, <2>3
  <1>2. CASE \E m \in Merchants : SwitchMerchant(m)
    <2>1. PICK m \in Merchants : SwitchMerchant(m)
      BY <1>2
    <2>2. FeedsTyped'
      <3>1. \A f \in DOMAIN feed \ {"detail", "order"} : m \in KeysOf(f)
        BY DEF KeysOf
      <3> QED BY <2>1, <3>1, ReloadTyped DEF SwitchMerchant
    <2>3. SelectionTyped'
      BY <2>1 DEF SwitchMerchant, SelectionTyped, table
    <2> QED BY <2>2, <2>3
  <1>3. CASE \E f \in Feeds : Poll(f)
    <2>1. PICK f \in Feeds : Poll(f)
      BY <1>3
    <2>2. f \in DOMAIN feed \cap PolledFeeds /\ Reload({f}, KeyOf(f)) /\ feed' = feed /\ route' = route
      BY <2>1 DEF Poll, view
    <2>3. \A g \in {f} : KeyOf(f) \in KeysOf(g)
      BY <2>2, KeyTyped
    <2>4. FeedsTyped'
      BY <2>2, <2>3, ReloadTyped
    <2>5. SelectionTyped'
      BY <2>1 DEF Poll, SelectionTyped, view, table
    <2> QED BY <2>4, <2>5
  <1>4. CASE \E n \in 1..MaxPosts : ActionEnds(n)
    <2>1. PICK n \in 1..MaxPosts : ActionEnds(n)
      BY <1>4
    <2>2. \A f \in FeedsOf(route) : PageKey \in KeysOf(f)
      <3>1. CASE route = DetailRoute
        <4>1. FeedsOf(route) = {"detail"} /\ PageKey = routeId /\ routeId \in Intents
          BY <3>1 DEF FeedsOf, TableRoutes, PageKey, DetailRoute, SelectionTyped
        <4> QED BY <4>1 DEF KeysOf
      <3>2. CASE route # DetailRoute
        <4>1. PageKey = merchant /\ merchant \in Merchants
          BY <3>2 DEF PageKey, DetailRoute, SelectionTyped
        <4>2. \A f \in FeedsOf(route) : f # "detail" /\ f # "order"
          BY <3>2, FeedNames DEF SelectionTyped
        <4> QED BY <4>1, <4>2 DEF KeysOf
      <3> QED BY <3>1, <3>2
    <2>3. PICK fs \in SUBSET FeedsOf(route) : Reload(fs, PageKey)
      BY <2>1 DEF ActionEnds
    <2>4. FeedsTyped'
      BY <2>1, <2>2, <2>3, ReloadTyped DEF ActionEnds
    <2>5. SelectionTyped'
      BY <2>1 DEF ActionEnds, SelectionTyped, table
    <2> QED BY <2>4, <2>5
  <1> QED BY <1>1, <1>2, <1>3, <1>4

\* Steps that leave the feeds alone, and the table's.
LEMMA OtherStepTyped ==
  ASSUME SelectionTyped, FeedsTyped,
         UNCHANGED <<route, routeId, openId, feed, loads, merchant>>,
         settled' \subseteq Intents, known' \in {{}, Merchants}, demoEnabled' \in BOOLEAN,
         tablePage' \in Nat \ {0}, narrowed' \in BOOLEAN
  PROVE  SelectionTyped' /\ FeedsTyped'
  <1>1. SelectionTyped'
    BY DEF SelectionTyped
  <1>2. FeedsTyped'
    BY DEF FeedsTyped
  <1> QED BY <1>1, <1>2

\* The feeds of the page the tab is opened at.
LEMMA InitTyped == Init => SelectionTyped /\ FeedsTyped
  <1> SUFFICES ASSUME Init PROVE SelectionTyped /\ FeedsTyped
    OBVIOUS
  <1>1. route \in Routes /\ (route = DetailRoute => routeId \in Intents) /\ routeId \in Intents \cup {"none"}
    BY ConsoleAssumption DEF Init, Routes, SidebarRoutes, TableRoutes, DetailRoute
  <1>2. SelectionTyped
    <2>1. tablePage \in Nat \ {0} /\ settled \subseteq Intents /\ merchant \in Merchants /\ known = {}
      BY ConsoleAssumption DEF Init
    <2>2. demoEnabled \in BOOLEAN /\ narrowed \in BOOLEAN
      BY DEF Init
    <2>3. openId \in Intents \cup {"none"}
      BY DEF Init
    <2>4. {routeId, openId} \subseteq Intents \cup {"none"}
      BY <1>1, <2>3
    <2> QED BY <1>1, <2>1, <2>2, <2>4 DEF SelectionTyped
  <1>3. feed = Mount(FeedsOf(route))
    BY DEF Init
  <1> DEFINE key(f) == IF f = "detail" THEN routeId ELSE merchant
  <1>4. loads = [f \in FeedsOf(route) |-> {Asked(key(f))}]
    BY DEF Init
  <1>5. NewFeed.data = NoData /\ NewFeed.error = FALSE
    BY DEF NewFeed
  <1>6. ASSUME NEW f \in FeedsOf(route) PROVE loads[f] \subseteq LoadsOf(f)
    <2>1. key(f) \in KeysOf(f)
      BY <1>1, <1>2, FeedNames DEF KeysOf, SelectionTyped
    <2> HIDE DEF key
    <2> QED BY <1>4, <2>1, AskedTyped
  <1>7. feed = [f \in FeedsOf(route) |-> [data |-> feed[f].data, error |-> feed[f].error]]
    BY <1>3 DEF Mount, NewFeed
  <1>8. \A f \in FeedsOf(route) : feed[f].data \in DataOf(f) /\ feed[f].error \in BOOLEAN
    BY <1>3, <1>5 DEF Mount, DataOf
  <1>9. DOMAIN feed = FeedsOf(route) /\ loads = [f \in FeedsOf(route) |-> loads[f]]
    BY <1>3, <1>4 DEF Mount
  <1> HIDE DEF key
  <1>10. FeedsTyped
    BY <1>6, <1>7, <1>8, <1>9 DEF FeedsTyped
  <1> QED BY <1>2, <1>10

\* A page number that is turned stays one.
LEMMA TurnTyped ==
  ASSUME SelectionTyped, FeedsTyped, TurnPage
  PROVE  tablePage' \in Nat \ {0}
  <1>1. TableRows \in Seq(Intents)
    BY TableListed DEF TurnPage
  <1>2. tablePage \in Nat \ {0} /\ PageSize \in Nat \ {0}
    BY ConsoleAssumption DEF SelectionTyped
  <1>3. PreviousPage(tablePage) \in Nat \ {0} /\ NextPage(TableRows, PageSize, tablePage) \in Nat \ {0}
    BY <1>1, <1>2, PageNumbers
  <1> QED BY <1>3 DEF TurnPage

\* What an action does to the settled intents.
LEMMA EffectTyped ==
  ASSUME NEW fn, NEW on, NEW ok, NEW effect \in Effects(fn, on, ok),
         fn \in {"mark", "refresh"} => on \in Intents
  PROVE  effect \subseteq Intents
  BY DEF Effects

\* What is posted, and on what.
Answers == {"none", "done", "failed"}

PostedOn == [fn : {"mark", "refresh", "replay"}, on : Intents, heard : BOOLEAN, answer : Answers]

Exports == [fn : {"export"}, on : Formats, heard : BOOLEAN, answer : Answers]

PostsTyped == posts \in [1..MaxPosts -> PostedOn \cup Exports \cup {NoPost}]

\* An action is still one of these when its page is left,
LEMMA UnheardTyped ==
  ASSUME NEW p \in PostedOn \cup Exports
  PROVE  [p EXCEPT !.heard = FALSE] \in PostedOn \cup Exports
  <1>1. ASSUME p \in PostedOn PROVE [p EXCEPT !.heard = FALSE] \in PostedOn
    BY <1>1 DEF PostedOn
  <1>2. ASSUME p \in Exports PROVE [p EXCEPT !.heard = FALSE] \in Exports
    BY <1>2 DEF Exports
  <1> QED BY <1>1, <1>2

\* or when it has been answered.
LEMMA AnsweredTyped ==
  ASSUME NEW p \in PostedOn \cup Exports, NEW answer \in Answers
  PROVE  [p EXCEPT !.answer = answer] \in PostedOn \cup Exports
  <1>1. ASSUME p \in PostedOn PROVE [p EXCEPT !.answer = answer] \in PostedOn
    BY <1>1 DEF PostedOn
  <1>2. ASSUME p \in Exports PROVE [p EXCEPT !.answer = answer] \in Exports
    BY <1>2 DEF Exports
  <1> QED BY <1>1, <1>2

\* What the clicks post.
LEMMA PostTyped ==
  ASSUME PostsTyped, NEW fn, NEW on, Post(fn, on),
         \/ fn \in {"mark", "refresh", "replay"} /\ on \in Intents
         \/ fn = "export" /\ on \in Formats
  PROVE  PostsTyped'
  <1> DEFINE new == [fn |-> fn, on |-> on, heard |-> TRUE, answer |-> "none"]
  <1>1. new \in PostedOn \cup Exports
    <2>1. ASSUME fn \in {"mark", "refresh", "replay"}, on \in Intents PROVE new \in PostedOn
      BY <2>1 DEF PostedOn, Answers
    <2>2. ASSUME fn = "export", on \in Formats PROVE new \in Exports
      BY <2>2 DEF Exports, Answers
    <2> QED BY <2>1, <2>2
  <1>2. PICK n \in 1..MaxPosts : posts' = [posts EXCEPT ![n] = new]
    BY DEF Post
  <1> HIDE DEF new
  <1> QED BY <1>1, <1>2 DEF PostsTyped

\* The clicks that post.
Posting ==
    \/ \E fn \in {"refresh", "mark"} : (\E i \in Intents : ActOnRow(fn, i)) \/ ActOnDetail(fn)
    \/ \E i \in Intents : ReplayRow(i)
    \/ ReplayShown
    \/ \E format \in Formats : Export(format)

\* What is posted is about the row, the intent of the address or the intent shown.
LEMMA PostingPosts ==
  ASSUME SelectionTyped, FeedsTyped, Posting
  PROVE  \E fn, on : /\ Post(fn, on)
                     /\ \/ fn \in {"mark", "refresh", "replay"} /\ on \in Intents
                        \/ fn = "export" /\ on \in Formats
                     /\ route = DetailRoute => on \in Intents
                     /\ route = "/reconciliation" => on \in Formats
  <1>1. ASSUME NEW fn \in {"refresh", "mark"}, NEW i \in Intents, ActOnRow(fn, i)
        PROVE  Post(fn, i) /\ route = "/payment-intents"
    BY <1>1 DEF ActOnRow
  <1>2. ASSUME NEW fn \in {"refresh", "mark"}, ActOnDetail(fn)
        PROVE  Post(fn, routeId) /\ route = DetailRoute /\ routeId \in Intents
    BY <1>2 DEF ActOnDetail, SelectionTyped, DetailRoute
  <1>3. ASSUME NEW i \in Intents, ReplayRow(i)
        PROVE  Post("replay", i) /\ route = "/webhooks"
    BY <1>3 DEF ReplayRow
  <1>4. ASSUME ReplayShown
        PROVE  /\ Post("replay", feed["detail"].data.key) /\ route = DetailRoute
               /\ feed["detail"].data.key \in Intents
    <2>1. route = DetailRoute /\ feed["detail"].data # NoData
      BY <1>4 DEF ReplayShown, DetailRoute
    <2>2. "detail" \in DOMAIN feed
      BY <2>1, FeedNames DEF FeedsTyped, SelectionTyped
    <2>3. feed["detail"].data \in LoadsOf("detail")
      BY <2>1, <2>2 DEF FeedsTyped, DataOf
    <2>4. feed["detail"].data.key \in Intents
      BY <2>3 DEF LoadsOf, KeysOf
    <2> QED BY <1>4, <2>1, <2>4 DEF ReplayShown
  <1>5. ASSUME NEW format \in Formats, Export(format)
        PROVE  Post("export", format) /\ route = "/reconciliation"
    BY <1>5 DEF Export
  <1>6. DetailRoute # "/reconciliation" /\ DetailRoute # "/webhooks" /\ DetailRoute # "/payment-intents"
    BY DEF DetailRoute
  <1>7. CASE \E fn \in {"refresh", "mark"}, i \in Intents : ActOnRow(fn, i)
    BY <1>1, <1>6, <1>7
  <1>8. CASE \E fn \in {"refresh", "mark"} : ActOnDetail(fn)
    BY <1>2, <1>6, <1>8
  <1>9. CASE \E i \in Intents : ReplayRow(i)
    BY <1>3, <1>6, <1>9
  <1>10. CASE ReplayShown
    BY <1>4, <1>6, <1>10
  <1>11. CASE \E format \in Formats : Export(format)
    BY <1>5, <1>6, <1>11
  <1> QED BY <1>7, <1>8, <1>9, <1>10, <1>11 DEF Posting

-----------------------------------------------------------------------------
(* The kinds of steps *)

Navigating ==
    \/ \E r \in Visited : OpenPage(r)
    \/ \E i \in Intents : OpenIntent(i)
    \/ Reopen

Reloading ==
    \/ \E i \in Intents : JumpToIntent(i)
    \/ \E m \in Merchants : SwitchMerchant(m)
    \/ \E f \in Feeds : Poll(f)
    \/ \E n \in 1..MaxPosts : ActionEnds(n)

Ordering == (\E i \in Intents : OpenOrder(i)) \/ CloseOrder

Loading == \E f \in Feeds : LoadAnswered(f) \/ LoadEnds(f)

\* The steps after which the feeds are what they were.
Aside ==
    \/ Posting
    \/ \E n \in 1..MaxPosts : ServerActs(n)
    \/ \E i \in Intents : ServerSettles(i)
    \/ SetMerchants
    \/ \E reachable \in BOOLEAN : SetHealth(reachable)
    \/ TurnPage \/ RestartTable \/ Narrow

\* Every step is of one of these kinds.
LEMMA Kinds == Next => Navigating \/ Reloading \/ Ordering \/ Loading \/ Aside
  <1>1. UserNext => Navigating \/ Reloading \/ Ordering \/ Aside
    BY DEF UserNext, Navigating, Reloading, Ordering, Aside, Posting
  <1> QED BY <1>1 DEF Next, Reloading, Loading, Aside

Typed == SelectionTyped /\ FeedsTyped /\ PostsTyped

\* Nothing is posted yet.
LEMMA InitPosts == Init => PostsTyped
  BY DEF Init, PostsTyped

\* What was posted from a page that is left goes unheard, or was answered.
LEMMA LandPosts ==
  ASSUME PostsTyped, NEW r, NEW id, Land(r, id)
  PROVE  PostsTyped' /\ \A n \in 1..MaxPosts : ~Heard(n)'
  <1> DEFINE left(n) == IF Heard(n) /\ posts[n].answer = "none"
                        THEN [posts[n] EXCEPT !.heard = FALSE]
                        ELSE IF Heard(n) THEN NoPost ELSE posts[n]
  <1>1. posts' = [n \in 1..MaxPosts |-> left(n)]
    BY DEF Land
  <1>2. ASSUME NEW n \in 1..MaxPosts
        PROVE  /\ left(n) \in PostedOn \cup Exports \cup {NoPost}
               /\ left(n) # NoPost => ~left(n).heard
    <2>1. CASE ~Heard(n)
      BY <2>1 DEF Heard, PostsTyped
    <2>2. CASE Heard(n) /\ posts[n].answer = "none"
      <3>1. posts[n] \in PostedOn \cup Exports
        BY <2>2 DEF Heard, PostsTyped
      <3>2. [posts[n] EXCEPT !.heard = FALSE] \in PostedOn \cup Exports
        BY <3>1, UnheardTyped
      <3>3. [posts[n] EXCEPT !.heard = FALSE].heard = FALSE
        BY <3>1 DEF PostedOn, Exports
      <3> QED BY <2>2, <3>2, <3>3
    <2>3. CASE Heard(n) /\ posts[n].answer # "none"
      BY <2>3
    <2> QED BY <2>1, <2>2, <2>3
  <1> HIDE DEF left
  <1>3. PostsTyped'
    BY <1>1, <1>2 DEF PostsTyped
  <1>4. \A n \in 1..MaxPosts : ~Heard(n)'
    BY <1>1, <1>2 DEF Heard
  <1> QED BY <1>3, <1>4

\* What the server does to an action leaves one of those states,
LEMMA ServerActsPosts ==
  ASSUME PostsTyped, NEW n \in 1..MaxPosts, ServerActs(n)
  PROVE  PostsTyped'
  <1>1. posts[n] \in PostedOn \cup Exports
    BY DEF ServerActs, PostsTyped
  <1>2. PICK ok \in BOOLEAN :
          posts' = [posts EXCEPT ![n] = IF @.heard
                                        THEN [@ EXCEPT !.answer = IF ok THEN "done" ELSE "failed"]
                                        ELSE NoPost]
    BY DEF ServerActs
  <1> DEFINE answer == IF ok THEN "done" ELSE "failed"
             new == [posts[n] EXCEPT !.answer = answer]
  <1>3. answer \in Answers
    BY DEF Answers
  <1>4. new \in PostedOn \cup Exports
    <2> HIDE DEF answer
    <2> QED BY <1>1, <1>3, AnsweredTyped
  <1>5. posts' = [posts EXCEPT ![n] = IF posts[n].heard THEN new ELSE NoPost]
    BY <1>2
  <1> HIDE DEF new
  <1> QED BY <1>4, <1>5 DEF PostsTyped

\* and of the settled intents a set of intents.
LEMMA ServerActsSettles ==
  ASSUME SelectionTyped, PostsTyped, NEW n \in 1..MaxPosts, ServerActs(n)
  PROVE  settled' \subseteq Intents
  <1>1. posts[n] \in PostedOn \cup Exports
    BY DEF ServerActs, PostsTyped
  <1>2. posts[n].fn \in {"mark", "refresh"} => posts[n].on \in Intents
    BY <1>1 DEF PostedOn, Exports
  <1>3. PICK ok \in BOOLEAN : \E effect \in Effects(posts[n].fn, posts[n].on, ok) : settled' = settled \cup effect
    BY DEF ServerActs
  <1> DEFINE fn == posts[n].fn
             on == posts[n].on
  <1>4. PICK effect \in Effects(fn, on, ok) : settled' = settled \cup effect
    BY <1>3
  <1>5. effect \subseteq Intents
    <2> HIDE DEF fn, on
    <2>1. fn \in {"mark", "refresh"} => on \in Intents
      BY <1>2 DEF fn, on
    <2> QED BY <1>4, <2>1, EffectTyped
  <1> QED BY <1>4, <1>5 DEF SelectionTyped

\* Every step leaves the actions in flight what they are.
LEMMA PostsStep ==
  ASSUME Typed, [Next]_vars PROVE PostsTyped'
  <1>1. CASE Navigating
    <2>1. PICK r, id : Land(r, id)
      BY <1>1 DEF Navigating, OpenPage, OpenIntent, Reopen
    <2> QED BY <2>1, LandPosts DEF Typed
  <1>2. CASE Reloading
    <2>1. UNCHANGED posts \/ \E n \in 1..MaxPosts : posts' = [posts EXCEPT ![n] = NoPost]
      BY <1>2 DEF Reloading, JumpToIntent, SwitchMerchant, Poll, ActionEnds, view
    <2> QED BY <2>1 DEF Typed, PostsTyped
  <1>3. CASE Ordering \/ Loading \/ UNCHANGED vars
    <2>1. UNCHANGED posts
      BY <1>3 DEF Ordering, Loading, OpenOrder, CloseOrder, LoadAnswered, LoadEnds, ServerAnswers, SetData,
                  SetError, view, vars
    <2> QED BY <2>1 DEF Typed, PostsTyped
  <1>4. CASE Aside
    <2>1. CASE Posting
      <3>1. PICK fn, on : /\ Post(fn, on)
                          /\ \/ fn \in {"mark", "refresh", "replay"} /\ on \in Intents
                             \/ fn = "export" /\ on \in Formats
        BY <2>1, PostingPosts DEF Typed
      <3> QED BY <3>1, PostTyped DEF Typed
    <2>2. CASE \E n \in 1..MaxPosts : ServerActs(n)
      BY <2>2, ServerActsPosts DEF Typed
    <2>3. CASE ~Posting /\ ~\E n \in 1..MaxPosts : ServerActs(n)
      <3>1. UNCHANGED posts
        BY <1>4, <2>3 DEF Aside, ServerSettles, SetMerchants, SetHealth, TurnPage, RestartTable, Narrow, view
      <3> QED BY <3>1 DEF Typed, PostsTyped
    <2> QED BY <2>1, <2>2, <2>3
  <1> QED BY <1>1, <1>2, <1>3, <1>4, Kinds

\* Every step leaves the selection and the feeds what they are.
LEMMA TypesStep ==
  ASSUME Typed, [Next]_vars PROVE SelectionTyped' /\ FeedsTyped'
  <1> USE DEF Typed
  <1>1. CASE Navigating
    BY <1>1, NavigationTyped DEF Navigating
  <1>2. CASE Reloading
    BY <1>2, ReloadStepTyped DEF Reloading
  <1>3. CASE Ordering
    <2>1. FeedsTyped'
      BY <1>3, OpenOrderTyped, CloseOrderTyped DEF Ordering
    <2>2. SelectionTyped'
      BY <1>3 DEF Ordering, OpenOrder, CloseOrder, SelectionTyped, table
    <2> QED BY <2>1, <2>2
  <1>4. CASE Loading
    <2>1. PICK f \in DOMAIN loads : \E l \in loads[f] :
            \/ \E part \in PartsOf(f) : ServerAnswers(f, l, part)
            \/ SetData(f, l) \/ SetError(f, l)
      BY <1>4 DEF Loading, LoadAnswered, LoadEnds
    <2>2. FeedsTyped'
      BY <2>1, LoadStepTyped DEF SelectionTyped
    <2>3. SelectionTyped'
      BY <2>1 DEF ServerAnswers, SetData, SetError, SelectionTyped, view, table
    <2> QED BY <2>2, <2>3
  <1>5. CASE Aside
    <2>1. UNCHANGED <<route, routeId, openId, feed, loads, merchant>>
      BY <1>5 DEF Aside, Posting, ActOnRow, ActOnDetail, ReplayRow, ReplayShown, Export, Post, ServerActs,
                  ServerSettles, SetMerchants, SetHealth, TurnPage, RestartTable, Narrow, view
    <2>2. settled' \subseteq Intents
      <3>1. CASE \E n \in 1..MaxPosts : ServerActs(n)
        BY <3>1, ServerActsSettles
      <3>2. CASE ~\E n \in 1..MaxPosts : ServerActs(n)
        <4>1. settled' = settled \/ \E i \in Intents : settled' = settled \cup {i}
          BY <1>5, <3>2 DEF Aside, Posting, ActOnRow, ActOnDetail, ReplayRow, ReplayShown, Export, Post,
                            ServerSettles, SetMerchants, SetHealth, TurnPage, RestartTable, Narrow, view
        <4> QED BY <4>1 DEF SelectionTyped
      <3> QED BY <3>1, <3>2
    <2>3. known' \in {{}, Merchants}
      BY <1>5 DEF Aside, Posting, ActOnRow, ActOnDetail, ReplayRow, ReplayShown, Export, Post, ServerActs,
                  ServerSettles, SetMerchants, SetHealth, TurnPage, RestartTable, Narrow, view, SelectionTyped
    <2>4. demoEnabled' \in BOOLEAN
      BY <1>5, ConsoleAssumption
         DEF Aside, Posting, ActOnRow, ActOnDetail, ReplayRow, ReplayShown, Export, Post, ServerActs,
             ServerSettles, SetMerchants, SetHealth, TurnPage, RestartTable, Narrow, view, SelectionTyped
    <2>5. tablePage' \in Nat \ {0}
      <3>1. CASE TurnPage
        BY <3>1, TurnTyped
      <3>2. CASE ~TurnPage
        <4>1. tablePage' = tablePage \/ tablePage' = 1
          BY <1>5, <3>2 DEF Aside, Posting, ActOnRow, ActOnDetail, ReplayRow, ReplayShown, Export, Post,
                            ServerActs, ServerSettles, SetMerchants, SetHealth, RestartTable, Narrow, view, table
        <4> QED BY <4>1 DEF SelectionTyped
      <3> QED BY <3>1, <3>2
    <2>6. narrowed' \in BOOLEAN
      BY <1>5 DEF Aside, Posting, ActOnRow, ActOnDetail, ReplayRow, ReplayShown, Export, Post, ServerActs,
                  ServerSettles, SetMerchants, SetHealth, TurnPage, RestartTable, Narrow, view, table, SelectionTyped
    <2> QED BY <2>1, <2>2, <2>3, <2>4, <2>5, <2>6, OtherStepTyped
  <1>6. CASE UNCHANGED vars
    BY <1>6 DEF vars, SelectionTyped, FeedsTyped
  <1> QED BY <1>1, <1>2, <1>3, <1>4, <1>5, <1>6, Kinds

\* What the console keeps in memory stays what its types say.
THEOREM TypedHolds == Spec => []Typed
  <1>1. Init => Typed
    BY InitTyped, InitPosts DEF Typed
  <1>2. Typed /\ [Next]_vars => Typed'
    BY TypesStep, PostsStep DEF Typed
  <1> QED BY <1>1, <1>2, PTL DEF Spec

\* The type invariant.
THEOREM ConsoleTypeOKHolds == Spec => []TypeOK
  <1>1. Typed => TypeOK
    BY TypesFollow DEF Typed
  <1> QED BY <1>1, TypedHolds, PTL

\* A table that has rows shows some, whatever page was chosen before the list
\* shrank or was filtered.
THEOREM PageHasRowsHolds == Spec => []PageHasRows
  <1>1. Typed => PageHasRows
    <2> SUFFICES ASSUME Typed, route \in TableRoutes, feed[route].data # NoData, TableRows # <<>>
                 PROVE  PageRows(TableRows, PageSize, tablePage) # <<>>
      BY DEF PageHasRows
    <2>1. TableRows \in Seq(Intents)
      BY TableListed DEF Typed
    <2>2. tablePage \in Nat \ {0} /\ PageSize \in Nat \ {0}
      BY ConsoleAssumption DEF Typed, SelectionTyped
    <2> QED BY <2>1, <2>2, PageShowsRows
  <1> QED BY <1>1, TypedHolds, PTL

-----------------------------------------------------------------------------
(* Buttons *)

LockRoutes == {DetailRoute, "/reconciliation"}

\* Where one flag locks all buttons, an action that is heard of keeps it.
OneLock == route \in LockRoutes => \A n \in 1..MaxPosts : Heard(n) => busy = Locked(posts[n].on)

Buttons == BusyIsWorking /\ OneLock

\* Only actions and navigation touch the buttons.
LEMMA ButtonsUntouched ==
  ASSUME Buttons, UNCHANGED <<route, posts, busy>> PROVE Buttons'
  BY DEF Buttons, BusyIsWorking, OneLock, Heard, Locked, LockRoutes, DetailRoute

\* A click posts only while its button is free, and takes it.
LEMMA PostButtons ==
  ASSUME Buttons, PostsTyped, NEW fn, NEW on, Post(fn, on),
         route = DetailRoute => on \in Intents,
         route = "/reconciliation" => on \in Formats
  PROVE  Buttons'
  <1> DEFINE new == [fn |-> fn, on |-> on, heard |-> TRUE, answer |-> "none"]
  <1>1. PICK n \in 1..MaxPosts : posts' = [posts EXCEPT ![n] = new]
    BY DEF Post
  <1>2. busy' = Locked(on) /\ on \notin busy /\ route' = route
    BY DEF Post
  <1>3. Heard(n)' /\ posts'[n].on = on
    BY <1>1 DEF Heard, NoPost, PostsTyped
  <1>4. \A x : Locked(x)' = Locked(x)
    BY <1>2 DEF Locked
  <1>5. ASSUME route \in LockRoutes, NEW k \in 1..MaxPosts, Heard(k)' PROVE k = n
    <2> SUFFICES ASSUME k # n PROVE FALSE
      OBVIOUS
    <2>1. Heard(k)
      BY <1>1, <1>5 DEF Heard, PostsTyped
    <2>2. busy = Locked(posts[k].on)
      BY <1>5, <2>1 DEF Buttons, OneLock
    <2>3. on \in busy
      BY <1>5, <2>2 DEF LockRoutes, Locked, DetailRoute
    <2> QED BY <1>2, <2>3
  <1>6. BusyIsWorking'
    BY <1>2, <1>3, <1>4, <1>5 DEF BusyIsWorking, LockRoutes, DetailRoute
  <1>7. OneLock'
    BY <1>2, <1>3, <1>4, <1>5 DEF OneLock, LockRoutes, DetailRoute
  <1> QED BY <1>6, <1>7 DEF Buttons

\* The answer of an action frees what it took.
LEMMA EndButtons ==
  ASSUME Buttons, PostsTyped, NEW n \in 1..MaxPosts, ActionEnds(n)
  PROVE  Buttons'
  <1>1. posts' = [posts EXCEPT ![n] = NoPost] /\ busy' = {} /\ route' = route /\ Heard(n)
    BY DEF ActionEnds
  <1>2. ASSUME NEW k \in 1..MaxPosts, Heard(k)' PROVE Heard(k) /\ k # n
    BY <1>1, <1>2 DEF Heard, PostsTyped
  <1>3. ASSUME route \in LockRoutes, NEW k \in 1..MaxPosts PROVE ~Heard(k)'
    BY <1>1, <1>2, <1>3 DEF Buttons, BusyIsWorking, LockRoutes, DetailRoute
  <1>4. BusyIsWorking'
    BY <1>1, <1>3 DEF BusyIsWorking, LockRoutes, DetailRoute
  <1>5. OneLock'
    BY <1>1, <1>3 DEF OneLock, LockRoutes, DetailRoute
  <1> QED BY <1>4, <1>5 DEF Buttons

\* The server does not touch them, and nobody who is heard of is lost.
LEMMA ServerActsButtons ==
  ASSUME Buttons, PostsTyped, NEW n \in 1..MaxPosts, ServerActs(n)
  PROVE  Buttons'
  <1>1. busy' = busy /\ route' = route /\ posts[n] \in PostedOn \cup Exports
    BY DEF ServerActs, PostsTyped
  <1>2. PICK answer \in Answers :
          posts' = [posts EXCEPT ![n] = IF posts[n].heard THEN [posts[n] EXCEPT !.answer = answer] ELSE NoPost]
    BY DEF ServerActs, Answers
  <1>3. [posts[n] EXCEPT !.answer = answer].on = posts[n].on
    BY <1>1 DEF PostedOn, Exports
  <1>4. [posts[n] EXCEPT !.answer = answer].heard = posts[n].heard
    BY <1>1 DEF PostedOn, Exports
  <1>5. [posts[n] EXCEPT !.answer = answer] # NoPost
    <2>1. [posts[n] EXCEPT !.answer = answer] \in PostedOn \cup Exports
      BY <1>1, AnsweredTyped
    <2> QED BY <2>1 DEF PostedOn, Exports, NoPost
  <1> DEFINE new == [posts[n] EXCEPT !.answer = answer]
  <1>6. new.on = posts[n].on /\ new.heard = posts[n].heard /\ new # NoPost
    BY <1>3, <1>4, <1>5
  <1>7. posts[n] # NoPost /\ n \in DOMAIN posts
    BY <1>1 DEF ServerActs, PostsTyped
  <1>8. posts' = [posts EXCEPT ![n] = IF posts[n].heard THEN new ELSE NoPost]
    BY <1>2
  <1> HIDE DEF new
  <1>9. ASSUME NEW k \in 1..MaxPosts
        PROVE  /\ Heard(k)' <=> Heard(k)
               /\ Heard(k) => posts'[k].on = posts[k].on
    <2>1. CASE k # n
      BY <1>8, <2>1 DEF Heard, PostsTyped
    <2>2. CASE k = n /\ posts[n].heard
      BY <1>6, <1>7, <1>8, <2>2 DEF Heard
    <2>3. CASE k = n /\ ~posts[n].heard
      BY <1>7, <1>8, <2>3 DEF Heard
    <2> QED BY <2>1, <2>2, <2>3
  <1>10. \A x : Locked(x)' = Locked(x)
    BY <1>1 DEF Locked
  <1>11. BusyIsWorking'
    BY <1>1, <1>9, <1>10 DEF Buttons, BusyIsWorking
  <1>12. OneLock'
    BY <1>1, <1>9, <1>10 DEF Buttons, OneLock
  <1> QED BY <1>11, <1>12 DEF Buttons

\* Buttons are disabled only while their action is on its way, and where one
\* flag locks them all there is one action at most.
THEOREM BusyIsWorkingHolds == Spec => []BusyIsWorking
  <1>1. Init => Buttons
    <2> SUFFICES ASSUME Init PROVE Buttons
      OBVIOUS
    <2>1. busy = {} /\ \A n \in 1..MaxPosts : ~Heard(n)
      BY DEF Init, Heard
    <2> QED BY <2>1 DEF Buttons, BusyIsWorking, OneLock
  <1>2. ASSUME Typed, Buttons, [Next]_vars PROVE Buttons'
    <2>1. CASE Navigating
      <3>1. PICK r, id : Land(r, id)
        BY <2>1 DEF Navigating, OpenPage, OpenIntent, Reopen
      <3>2. busy' = {} /\ \A n \in 1..MaxPosts : ~Heard(n)'
        BY <1>2, <3>1, LandPosts DEF Land, Typed
      <3> QED BY <3>2 DEF Buttons, BusyIsWorking, OneLock
    <2>2. CASE Reloading
      <3>1. CASE \E n \in 1..MaxPosts : ActionEnds(n)
        BY <1>2, <3>1, EndButtons DEF Typed
      <3>2. CASE ~\E n \in 1..MaxPosts : ActionEnds(n)
        <4>1. UNCHANGED <<route, posts, busy>>
          BY <2>2, <3>2 DEF Reloading, JumpToIntent, SwitchMerchant, Poll, view
        <4> QED BY <1>2, <4>1, ButtonsUntouched
      <3> QED BY <3>1, <3>2
    <2>3. CASE Ordering \/ Loading \/ UNCHANGED vars
      <3>1. UNCHANGED <<route, posts, busy>>
        BY <2>3 DEF Ordering, Loading, OpenOrder, CloseOrder, LoadAnswered, LoadEnds, ServerAnswers, SetData,
                    SetError, view, vars
      <3> QED BY <1>2, <3>1, ButtonsUntouched
    <2>4. CASE Aside
      <3>1. CASE Posting
        <4>1. PICK fn, on : /\ Post(fn, on)
                            /\ route = DetailRoute => on \in Intents
                            /\ route = "/reconciliation" => on \in Formats
          BY <1>2, <3>1, PostingPosts DEF Typed
        <4> QED BY <1>2, <4>1, PostButtons DEF Typed
      <3>2. CASE \E n \in 1..MaxPosts : ServerActs(n)
        BY <1>2, <3>2, ServerActsButtons DEF Typed
      <3>3. CASE ~Posting /\ ~\E n \in 1..MaxPosts : ServerActs(n)
        <4>1. UNCHANGED <<route, posts, busy>>
          BY <2>4, <3>3 DEF Aside, ServerSettles, SetMerchants, SetHealth, TurnPage, RestartTable, Narrow, view
        <4> QED BY <1>2, <4>1, ButtonsUntouched
      <3> QED BY <3>1, <3>2, <3>3
    <2> QED BY <1>2, <2>1, <2>2, <2>3, <2>4, Kinds
  <1>3. Spec => []Buttons
    BY <1>1, <1>2, TypedHolds, PTL DEF Spec
  <1>4. Buttons => BusyIsWorking
    BY DEF Buttons
  <1> QED BY <1>3, <1>4, PTL

-----------------------------------------------------------------------------
(* The detail page *)

\* The intent is answered before the lists, by a server that keeps settlements.
LoadWhole(l) ==
    \A part \in DOMAIN l.got :
        /\ "intent" \in DOMAIN l.got
        /\ l.got["intent"] \subseteq l.got[part]
        /\ l.got["intent"] \subseteq settled \cap Scope(l.key)

\* What a detail page shows and what it still waits for.
Whole ==
    "detail" \in DOMAIN feed =>
        /\ \A l \in loads["detail"] : LoadWhole(l)
        /\ feed["detail"].data = NoData \/ LoadWhole(feed["detail"].data)

\* Nothing is unsettled again.
LEMMA SettledGrows ==
  ASSUME Typed, [Next]_vars PROVE settled \subseteq settled'
  <1>1. CASE Navigating
    BY <1>1 DEF Navigating, OpenPage, OpenIntent, Reopen, Land
  <1>2. CASE Reloading
    BY <1>2 DEF Reloading, JumpToIntent, SwitchMerchant, Poll, ActionEnds
  <1>3. CASE Ordering \/ Loading \/ UNCHANGED vars
    BY <1>3 DEF Ordering, Loading, OpenOrder, CloseOrder, LoadAnswered, LoadEnds, ServerAnswers, SetData,
                SetError, vars
  <1>4. CASE Aside
    <2>1. CASE \E n \in 1..MaxPosts : ServerActs(n)
      BY <2>1 DEF ServerActs
    <2>2. CASE ~\E n \in 1..MaxPosts : ServerActs(n)
      BY <1>4, <2>2 DEF Aside, Posting, ActOnRow, ActOnDetail, ReplayRow, ReplayShown, Export, Post,
                        ServerSettles, SetMerchants, SetHealth, TurnPage, RestartTable, Narrow
    <2> QED BY <2>1, <2>2
  <1> QED BY <1>1, <1>2, <1>3, <1>4, Kinds

\* A load that has nothing yet is whole,
LEMMA AskedWhole == \A key : LoadWhole(Asked(key))
  <1> SUFFICES ASSUME NEW key PROVE LoadWhole(Asked(key))
    OBVIOUS
  <1>1. Asked(key).got = <<>> /\ DOMAIN <<>> = {}
    BY DEF Asked
  <1> QED BY <1>1 DEF LoadWhole

\* and a whole load stays so while settlements are added.
LEMMA WholeGrows ==
  ASSUME NEW l, LoadWhole(l), settled \subseteq settled' PROVE LoadWhole(l)'
  BY DEF LoadWhole

\* An answer leaves a load whole: the intent's comes first, the lists' later.
LEMMA AnswerWhole ==
  ASSUME NEW l \in LoadsOf("detail"), LoadWhole(l), NEW part \in PartsOf("detail"),
         part \notin DOMAIN l.got, Before("detail", part) \subseteq DOMAIN l.got,
         settled' = settled, NEW answer, answer = settled \cap Scope(l.key)
  PROVE  LoadWhole([l EXCEPT !.got = [p \in DOMAIN l.got \cup {part} |->
                      IF p = part THEN answer ELSE l.got[p]]])'
  <1> DEFINE got == [p \in DOMAIN l.got \cup {part} |-> IF p = part THEN answer ELSE l.got[p]]
             new == [l EXCEPT !.got = got]
  <1>1. new.key = l.key /\ new.got = got
    BY DEF LoadsOf
  <1>2. \A p \in DOMAIN got : "intent" \in DOMAIN got /\ got["intent"] \subseteq got[p] /\ got["intent"] \subseteq answer
    <2>1. CASE part = "intent"
      <3>1. DOMAIN l.got = {}
        BY <2>1 DEF LoadWhole
      <3> QED BY <2>1, <3>1
    <2>2. CASE part # "intent"
      <3>1. "intent" \in DOMAIN l.got
        BY <2>2 DEF Before
      <3>2. l.got["intent"] \subseteq answer /\ \A p \in DOMAIN l.got : l.got["intent"] \subseteq l.got[p]
        BY <3>1 DEF LoadWhole
      <3>3. got["intent"] = l.got["intent"] /\ "intent" \in DOMAIN got
        BY <2>2, <3>1
      <3> QED BY <3>2, <3>3
    <2> QED BY <2>1, <2>2
  <1>3. answer = settled' \cap Scope(new.key)
    BY <1>1
  <1> HIDE DEF got, new
  <1>4. LoadWhole(new)'
    BY <1>1, <1>2, <1>3 DEF LoadWhole
  <1> QED BY <1>4 DEF new, got

\* The end of a load shows what it has, or keeps what was shown.
LEMMA LoadStepWhole ==
  ASSUME Typed, Whole, NEW f \in DOMAIN loads, NEW l \in loads[f],
         \/ \E part \in PartsOf(f) : ServerAnswers(f, l, part)
         \/ SetData(f, l) \/ SetError(f, l)
  PROVE  Whole'
  <1>1. settled' = settled /\ DOMAIN feed' = DOMAIN feed /\ f \in DOMAIN feed
    BY DEF ServerAnswers, SetData, SetError, Typed, FeedsTyped
  <1>2. CASE f # "detail"
    <2>1. "detail" \in DOMAIN feed => loads'["detail"] = loads["detail"] /\ feed'["detail"] = feed["detail"]
      BY <1>1, <1>2 DEF ServerAnswers, SetData, SetError, Replace, Typed, FeedsTyped
    <2>2. \A k : LoadWhole(k) => LoadWhole(k)'
      BY <1>1, WholeGrows
    <2> QED BY <1>1, <2>1, <2>2 DEF Whole
  <1>3. CASE f = "detail"
    <2>1. LoadWhole(l) /\ l \in LoadsOf("detail")
      BY <1>1, <1>3 DEF Whole, Typed, FeedsTyped
    <2>2. \A k : LoadWhole(k) => LoadWhole(k)'
      BY <1>1, WholeGrows
    <2>3. CASE \E part \in PartsOf(f) : ServerAnswers(f, l, part)
      <3>1. PICK part \in PartsOf(f) : ServerAnswers(f, l, part)
        BY <2>3
      <3> PICK answer : answer = settled \cap Scope(l.key)
        OBVIOUS
      <3> DEFINE new == [l EXCEPT !.got = [p \in DOMAIN l.got \cup {part} |->
                            IF p = part THEN answer ELSE l.got[p]]]
      <3>2. LoadWhole(new)'
        BY <1>1, <1>3, <2>1, <3>1, AnswerWhole DEF ServerAnswers
      <3>3. loads' = [loads EXCEPT ![f] = (@ \ {l}) \cup {new}] /\ feed' = feed
        BY <3>1 DEF ServerAnswers, Replace
      <3> HIDE DEF new
      <3>4. \A k \in loads'["detail"] : k = new \/ k \in loads["detail"]
        BY <1>3, <3>3
      <3> QED BY <1>1, <1>3, <2>2, <3>2, <3>3, <3>4 DEF Whole
    <2>4. CASE SetData(f, l) \/ SetError(f, l)
      <3>1. loads'["detail"] \subseteq loads["detail"]
        BY <1>3, <2>4 DEF SetData, SetError, Replace
      <3>2. feed'["detail"].data = l \/ feed'["detail"].data = feed["detail"].data
        BY <1>1, <1>3, <2>4 DEF SetData, SetError
      <3> QED BY <1>1, <1>3, <2>1, <2>2, <3>1, <3>2 DEF Whole
    <2> QED BY <2>3, <2>4
  <1> QED BY <1>2, <1>3

\* No settled intent is shown without the ledger event and the webhook of its
\* settlement, however the three requests of a load interleave with it.
THEOREM DetailIsWholeHolds == Spec => []DetailIsWhole
  <1>1. Init => Whole
    <2> SUFFICES ASSUME Init, "detail" \in DOMAIN feed PROVE Whole
      BY DEF Whole
    <2>1. feed["detail"] = NewFeed /\ "detail" \in FeedsOf(route)
      BY DEF Init, Mount
    <2>2. \E key : loads["detail"] = {Asked(key)}
      BY <2>1 DEF Init
    <2>3. NewFeed.data = NoData
      BY DEF NewFeed
    <2> QED BY <2>1, <2>2, <2>3, AskedWhole DEF Whole
  <1>2. ASSUME Typed, Whole, [Next]_vars PROVE Whole'
    <2>1. \A l : LoadWhole(l) => LoadWhole(l)'
      BY <1>2, SettledGrows, WholeGrows
    <2>2. \A key : LoadWhole(Asked(key))'
      BY <2>1, AskedWhole
    <2>3. CASE Navigating
      <3>1. PICK r, id : Land(r, id)
        BY <2>3 DEF Navigating, OpenPage, OpenIntent, Reopen
      <3>2. "detail" \in DOMAIN feed' =>
              feed'["detail"] = NewFeed /\ \E key : loads'["detail"] = {Asked(key)}
        BY <3>1 DEF Land, Mount
      <3>3. NewFeed.data = NoData
        BY DEF NewFeed
      <3> QED BY <2>2, <3>2, <3>3 DEF Whole
    <2>4. CASE Reloading
      <3>1. PICK fs, key : Reload(fs, key)
        BY <2>4 DEF Reloading, JumpToIntent, SwitchMerchant, Poll, ActionEnds
      <3>2. feed' = feed
        BY <2>4 DEF Reloading, JumpToIntent, SwitchMerchant, Poll, ActionEnds
      <3>3. "detail" \in DOMAIN feed => loads'["detail"] \subseteq loads["detail"] \cup {Asked(key)}
        BY <1>2, <3>1 DEF Reload, Typed, FeedsTyped
      <3> QED BY <1>2, <2>1, <2>2, <3>2, <3>3 DEF Whole
    <2>5. CASE Ordering
      <3>1. "detail" \in DOMAIN feed' =>
              "detail" \in DOMAIN feed /\ feed'["detail"] = feed["detail"] /\ loads'["detail"] = loads["detail"]
        <4>1. CASE \E i \in Intents : OpenOrder(i)
          BY <4>1 DEF OpenOrder
        <4>2. CASE CloseOrder
          <5>1. /\ feed' = [f \in DOMAIN feed \ {"order"} |-> feed[f]]
                /\ loads' = [f \in DOMAIN loads \ {"order"} |-> loads[f]]
            BY <4>2 DEF CloseOrder
          <5>2. DOMAIN loads = DOMAIN feed
            BY <1>2 DEF Typed, FeedsTyped
          <5> QED BY <5>1, <5>2
        <4> QED BY <2>5, <4>1, <4>2 DEF Ordering
      <3> QED BY <1>2, <2>1, <3>1 DEF Whole
    <2>6. CASE Loading
      <3>1. PICK f \in DOMAIN loads : \E l \in loads[f] :
              \/ \E part \in PartsOf(f) : ServerAnswers(f, l, part)
              \/ SetData(f, l) \/ SetError(f, l)
        BY <2>6 DEF Loading, LoadAnswered, LoadEnds
      <3> QED BY <1>2, <3>1, LoadStepWhole
    <2>7. CASE Aside \/ UNCHANGED vars
      <3>1. UNCHANGED <<feed, loads>>
        BY <2>7 DEF Aside, Posting, ActOnRow, ActOnDetail, ReplayRow, ReplayShown, Export, Post, ServerActs,
                    ServerSettles, SetMerchants, SetHealth, TurnPage, RestartTable, Narrow, vars
      <3> QED BY <1>2, <2>1, <3>1 DEF Whole
    <2> QED BY <1>2, <2>3, <2>4, <2>5, <2>6, <2>7, Kinds
  <1>3. Typed /\ Whole => DetailIsWhole
    <2> SUFFICES ASSUME Typed, Whole, "detail" \in DOMAIN feed, feed["detail"].data # NoData
                 PROVE  LET shown == feed["detail"].data.got
                        IN  shown["intent"] \subseteq shown["ledger"] \cap shown["webhooks"]
      BY DEF DetailIsWhole
    <2>1. DOMAIN feed["detail"].data.got = {"intent", "ledger", "webhooks"}
      BY DEF Typed, FeedsTyped, DataOf, PartsOf
    <2> QED BY <2>1 DEF Whole, LoadWhole
  <1> QED BY <1>1, <1>2, <1>3, TypedHolds, PTL DEF Spec
=============================================================================
