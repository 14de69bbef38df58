SPECIFICATION Spec
CONSTANTS
    p1 = p1
    p2 = p2
    c1 = c1
    c2 = c2
    Pool = {p1, p2}
    Resettable = {p1}
    Slot = {c1, c2}
    Mishaps = {"driver", "memory", "reject", "drop"}
    MaxHandle = 3
    MaxCommands = 2
    MaxRing = 2
INVARIANTS TypeOK StatesAgree RunsAllButSkipped HandlesMatch
SYMMETRY Interchangeable
