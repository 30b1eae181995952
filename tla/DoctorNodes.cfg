CONSTANTS
    e1 = e1
    e2 = e2
    s1 = s1
    s2 = s2
    s3 = s3
    j1 = j1
    j2 = j2
    None = None
    Engines = {e1, e2}
    Sockets = {s1, s2}
    Jobs = {j1, j2}
    Eligible <- MCEligible
SPECIFICATION FairSpec
INVARIANTS TypeOK PushHasReader PushedOnce
PROPERTIES NoGhosts PushMovesOn
CHECK_DEADLOCK FALSE
