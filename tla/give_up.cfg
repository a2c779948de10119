SPECIFICATION FairSpec
CONSTANTS
    paid = paid
    created = created
    o1 = o1
    Events = {created, paid}
    Orders = {o1}
    TypeOf <- BothTypes
    OrderOf <- BothOnOrder
    Configured = {paid}
    Sweeps = {s1}
    NoAttempt = NoAttempt
    MaxReplays = 1
    MaxRestarts = 1
INVARIANTS
    GivenUpAfterFour
PROPERTIES
    EventuallySettled
