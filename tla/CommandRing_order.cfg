SPECIFICATION Spec
CONSTANTS
    t1 = t1
    t2 = t2
    Thread = {t1}
    AsyncSize = {1, 2}
    SyncSize = {1, 2}
    MaxPending = 4
    Direct = TRUE
    Breaks = TRUE
    MaxCommands = 5
INVARIANTS TypeOK PerformedInOrder OvertakesOnlyPending
PROPERTY ImplementsAtomicRing
