SPECIFICATION CreationSpec
CONSTANTS
    Creates = {c1, c2}
    Calls = {}
    Poller = poller
    NoIntent = NoIntent
    NoKey = NoKey
    Merchants <- TwoMerchants
    Requests <- CollidingRequests
    MaxRestarts = 0
    Mode = "real"
CHECK_DEADLOCK FALSE
INVARIANT
    KeysArePerMerchant
