CONSTANTS
    e1 = e1
    e2 = e2
    a1 = a1
    t1 = t1
    t2 = t2
    None = None
    Engines = {e1}
    Agents = {}
    Teams = {t1, t2}
    OwnerTeam <- MCOneTeam
    TeamPairs <- MCTeamPairs
    Bodies <- MCSingle
    MaxJobs = 1
    LEASE_SECONDS = 1
    RUNNING_STALE_SECONDS = 3
    DAY = 6
    DRAIN_LIMIT = 1
SPECIFICATION Spec
PROPERTY RunningRequeuedAfterTimeout
