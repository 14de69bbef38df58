SPECIFICATION FairSpec
CONSTANTS
    q1 = q1
    q2 = q2
    f1 = f1
    f2 = f2
    b1 = b1
    t1 = t1
    Queue = {q1, q2}
    Fence = {f1, f2}
    Binary = {b1}
    Timeline = {t1}
    AppMay = {"acquire", "ahead", "host"}
    MaxWork = 2
    MaxValue = 1
INVARIANTS TypeOK FencePromisesKept
PROPERTY WaitsEndWhenFed
CHECK_DEADLOCK FALSE
