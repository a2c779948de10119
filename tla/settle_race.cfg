SPECIFICATION BooksSpec
CONSTANTS
    Creates = {c1}
    Calls = {r1}
    Poller = poller
    NoIntent = NoIntent
    NoKey = NoKey
    Merchants <- OneMerchant
    Requests <- OneRequest
    MaxRestarts = 1
    Mode = "real"
    Exports = {x1, x2}
    Kinds = {"refund"}
    MaxRecords = 1
    Unread = Unread
SYMMETRY AnyExport
INVARIANTS
    TypeOK
    SettledOnce
    StagesAgree
    ReceiptMeansPaid
    StatusOnRecord
    CreationLeadsLedger
    BooksTypeOK
    RecordsAgree
    BooksNeverShrink
PROPERTY
    PromotionUndoesNothing
