SPECIFICATION Spec
CONSTANTS
    paidEvent = paidEvent
    o1 = o1
    oldSecret = oldSecret
    newSecret = newSecret
    NotJson = NotJson
    Events = {paidEvent}
    Orders = {o1}
    TypeOf <- typeOf
    OrderOf <- orderOf
    Requests <- requests
    Secret = newSecret
    Tolerance = 1
    Filters = {}
    PageSize = 1
    MaxLog = 2
    MaxRejected = 1
    MaxPolls = 2
    MaxBoots = 1
INVARIANTS
    LogCountsFulfilments
    TabHasRows
PROPERTIES
    ActsOnSigned
    PageCatchesUp
    TimelineCatchesUp
