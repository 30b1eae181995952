CONSTANTS
    q1 = q1
    d1 = d1
    a1 = a1
    Nobody = Nobody
    Console = {q1}
    Dispatched = {}
    Owner <- MCOwner
    MaxActive = 1
    MaxRuns = 3
    MaxCards = 1
    MaxRestarts = 1
SPECIFICATION FairSpec
PROPERTIES PlacesAreFreed CardsAreStarted
CHECK_DEADLOCK FALSE
