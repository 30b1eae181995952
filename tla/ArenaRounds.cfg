CONSTANTS
    a1 = a1
    a2 = a2
    d1 = d1
    d2 = d2
    NoAgent = NoAgent
    NoLoop = NoLoop
    Agents = {a1}
    Loops = {d1, d2}
    MaxTasks = 2
    MaxAvailable = 2
SPECIFICATION FairSpec
PROPERTIES RoundsEnd LateIsEnded
CHECK_DEADLOCK FALSE
