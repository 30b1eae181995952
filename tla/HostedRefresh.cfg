CONSTANTS
    q1 = q1
    d1 = d1
    a1 = a1
    Nobody = Nobody
    Console = {q1}
    Dispatched = {}
    Owner <- MCOwner
    MaxActive = 1
    MaxRuns = 2
    MaxCards = 1
    MaxRestarts = 0
SPECIFICATION Spec
INVARIANT SucceedsOnce
CHECK_DEADLOCK FALSE
