CONSTANTS
    q1 = q1
    d1 = d1
    a1 = a1
    Nobody = Nobody
    Console = {}
    Dispatched = {d1}
    Owner <- MCOwner
    MaxActive = 1
    MaxRuns = 1
    MaxCards = 1
    MaxRestarts = 0
SPECIFICATION Spec
PROPERTY CancelledStays
CHECK_DEADLOCK FALSE
