SPECIFICATION Spec
CONSTANTS
    a1 = a1
    a2 = a2
    m1 = m1
    m2 = m2
    Merchants = {m1, m2}
    DefaultMerchant = m1
    Intents = {a1, a2}
    MerchantOf <- merchantOf
    SettledBefore = {a2}
    DemoEndpoints = TRUE
    Visited = {"/", "/payment-intents", "/webhooks", "/reconciliation"}
    PageSize = 1
    MaxLoads = 2
    MaxPosts = 2
    MaxClicks = 2
INVARIANTS
    TypeOK
    BusyIsWorking
    DetailIsWhole
    PageHasRows
PROPERTY
    FeedsCatchUp
