SPECIFICATION Spec
CONSTANTS
    Creates = {c1, c2}
    Calls = {}
    Poller = poller
    NoIntent = NoIntent
    NoKey = NoKey
    Merchants <- OneMerchant
    Requests <- ManyRequests
    MaxRestarts = 0
    Mode = "real"
PROPERTIES
    RetriesReplay
