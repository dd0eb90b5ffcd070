SPECIFICATION Spec
CONSTANTS
    ours = ours
    foreign = foreign
    NoTask = NoTask
    Tasks <- MCOurs
    Level <- MCOurLevel
    Ours <- MCOurs
    Cancelled = {}
    Levels = 1
    w1 = w1
    w2 = w2
    Workers <- MCWorkers
    MaxRetries = 1
    MaxFaults = 0
SYMMETRY MCSymmetry
INVARIANTS NothingStranded
CHECK_DEADLOCK FALSE
