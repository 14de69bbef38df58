SPECIFICATION Spec
CONSTANTS
    t1 = t1
    t2 = t2
    b1 = b1
    b2 = b2
    i1 = i1
    m1 = m1
    m2 = m2
    Thread = {t1, t2}
    Buffer = {b1}
    Image = {i1}
    Memory = {m1, m2}
    MemorySize = 3
    Size <- Sizes
    Reckoned <- Bytes
    Alignment <- Aligned
    GuessAlignment <- Coarse
    Query = {"two"}
    Mishaps = {}
    MaxRing = 2
INVARIANTS LegalBindsAccepted
SYMMETRY Interchangeable
CHECK_DEADLOCK FALSE
