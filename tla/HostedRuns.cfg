CONSTANTS
    q1 = q1
    d1 = d1
    a1 = a1
    Nobody = Nobody
    Console = {q1}
    Dispatched = {d1}
    Owner <- MCOwner
    MaxActive = 1
    MaxRuns = 2
    MaxCards = 2
    MaxRestarts = 1
SPECIFICATION Spec
INVARIANTS TypeOK BodyIsRunning CardPerRun ActiveWithinCap
PROPERTY OutcomeStands
CHECK_DEADLOCK FALSE
