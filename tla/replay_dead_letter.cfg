SPECIFICATION Spec
CONSTANTS
    paid = paid
    created = created
    o1 = o1
    Events = {paid}
    Orders = {o1}
    TypeOf <- PaidOnly
    OrderOf <- PaidOnOrder
    Configured = {paid}
    Sweeps = {s1}
    NoAttempt = NoAttempt
    MaxReplays = 1
    MaxRestarts = 0
INVARIANTS
    DeadLetterEarned
