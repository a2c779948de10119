SPECIFICATION FairSpec
CONSTANTS
    Creates = {c1, c2}
    Calls = {}
    Poller = poller
    NoIntent = NoIntent
    NoKey = NoKey
    Merchants <- OneMerchant
    Requests <- TwoRequests
    MaxRestarts = 1
    Mode = "real"
INVARIANTS
    NoDuplicateEvents
PROPERTIES
    SettlementObserved
