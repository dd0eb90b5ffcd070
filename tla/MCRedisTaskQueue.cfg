SPECIFICATION Spec
CONSTANTS
    ours = ours
    foreign = foreign
    NoTask = NoTask
    Tasks <- MCTasks
    Level <- MCLevel
    Ours <- MCOurs
    Cancelled <- MCOurs
    Levels = 2
    w1 = w1
    w2 = w2
    Workers <- MCWorkers
    MaxRetries = 1
    MaxFaults = 1
SYMMETRY MCSymmetry
INVARIANTS TypeOK
PROPERTIES LossesExplained DuplicatesOnlyByMove
CHECK_DEADLOCK FALSE
