SPECIFICATION Spec
CONSTANTS
    t1 = t1
    t2 = t2
    Thread = {t1}
    AsyncSize = {1}
    SyncSize = {1}
    MaxPending = 4
    Direct = FALSE
    Breaks = FALSE
    MaxCommands = 6
INVARIANT ReplyIsOwn
