SPECIFICATION Spec
CONSTANTS
    Creates = {c1}
    Calls = {r1, r2}
    Poller = poller
    NoIntent = NoIntent
    NoKey = NoKey
    Merchants <- OneMerchant
    Requests <- OneRequest
    MaxRestarts = 2
    Mode = "simulated"
SYMMETRY AnyCall
INVARIANTS
    SettledOnce
    StagesAgree
    ReceiptMeansPaid
    StatusOnRecord
PROPERTIES
    ImplementsSettlement
