SPECIFICATION FairSpec
CONSTANTS
    t1 = t1
    t2 = t2
    Thread = {t1}
    AsyncSize = {2}
    SyncSize = {1}
    MaxPending = 4
    Direct = TRUE
    Breaks = TRUE
    MaxCommands = 6
INVARIANTS ReplyIsOwn ErrorOnlyWhenBroken NoStrayReply
PROPERTIES CallsReturn ImplementsService
