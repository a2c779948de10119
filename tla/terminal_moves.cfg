SPECIFICATION Spec
CONSTANTS
    Creates = {c1}
    Calls = {r1, r2}
    Poller = poller
    NoIntent = NoIntent
    NoKey = NoKey
    Merchants <- OneMerchant
    Requests <- OneRequest
    MaxRestarts = 0
    Mode = "real"
PROPERTIES
    TerminalIsFinal
