CONSTANTS
    e1 = e1
    e2 = e2
    a1 = a1
    t1 = t1
    t2 = t2
    None = None
    Engines = {e1, e2}
    Agents = {a1}
    Teams = {t1, t2}
    OwnerTeam <- MCOneTeam
    TeamPairs <- MCTeamPairs
    Bodies <- MCTargets
    MaxJobs = 2
    LEASE_SECONDS = 0
    RUNNING_STALE_SECONDS = 1
    DAY = 2
    DRAIN_LIMIT = 1
SPECIFICATION FairSpec
INVARIANTS TypeOK LeaseMatchesStatus HandedOutOnce HolderIsTarget 
PROPERTIES TerminalIsFinal HolderKeepsJob ImplementsLedger LeaseEnds
