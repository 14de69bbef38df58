SPECIFICATION FairSpec
CONSTANTS
    m1 = m1
    a = a
    b = b
    c = c
    Mem = {m1}
    Page = {1, 2}
    Loc = {a, b, c}
    MemOf <- OneMapping
    PageOf <- Locations
    AutoInvalidate = {m1}
    AppMay = {"busy", "reread", "poll"}
    TransfersFail = TRUE
    MaxStamp = 2
INVARIANTS TypeOK TrackingInv HostWritesTracked SubmitSeesHostWrites
PROPERTY StoreCompletes
