SPECIFICATION Spec
CONSTANTS
    m1 = m1
    a = a
    b = b
    c = c
    Mem = {m1}
    Page = {1, 2}
    Loc = {a, b, c}
    MemOf <- OneMapping
    PageOf <- Locations
    AutoInvalidate = {m1}
    AppMay = {}
    TransfersFail = FALSE
    MaxStamp = 3
INVARIANT WaitMakesVisible
PROPERTIES HostWritesKept GpuWritesKept ImplementsCoherentMemory
