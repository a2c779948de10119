SPECIFICATION CreationSpec
CONSTANTS
    Creates = {c1, c2, c3}
    Calls = {}
    Poller = poller
    NoIntent = NoIntent
    NoKey = NoKey
    Merchants <- TwoMerchants
    Requests <- AllRequests
    MaxRestarts = 1
    Mode = "real"
SYMMETRY AnyCreate
INVARIANTS
    OneIntentPerOrder
    ReplaysOwnRequest
PROPERTY
    AnsweredRetriesReplay
CHECK_DEADLOCK FALSE
