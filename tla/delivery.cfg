SPECIFICATION OpsSpec
CONSTANTS
    paidEvent = paidEvent
    createdEvent = createdEvent
    o1 = o1
    Events = {createdEvent, paidEvent}
    Orders = {o1}
    Intents = {o1}
    Volatile = TRUE
    TypeOf <- BothTypes
    OrderOf <- BothOnOrder
    Configured = {createdEvent, paidEvent}
    Sweeps = {s1, s2}
    NoAttempt = NoAttempt
    MaxReplays = 1
    MaxRestarts = 1
SYMMETRY AnySweep
INVARIANTS
    TypeOK
    RowConsistent
    DeliveredOnce
    DeliveredWasHandled
    FulfilledOnce
    SnapshotsFresh
    OrderFollowsSettlement
    FulfilledWasPaid
