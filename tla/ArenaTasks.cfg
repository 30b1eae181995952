CONSTANTS
    a1 = a1
    a2 = a2
    d1 = d1
    d2 = d2
    NoAgent = NoAgent
    NoLoop = NoLoop
    Agents = {a1, a2}
    Loops = {d1}
    MaxTasks = 2
    MaxAvailable = 1
SPECIFICATION Spec
INVARIANTS TypeOK OneExecutor RecordedOnce WatchedWhilePending
SYMMETRY MCSymmetry
CHECK_DEADLOCK FALSE
