\* Two handlers, a song and an album, two jobs, one restart, one failed statement.
CONSTANTS
    u1 = u1
    s1 = s1
    a1 = a1
    h1 = h1
    h2 = h2
    User = {u1}
    Song = {s1, a1}
    Handler = {h1, h2}
    Requests <- MixedRequests
    MaxJobs = 2
    MaxLives = 2
    MaxFaults = 1
SPECIFICATION FairSpec
INVARIANTS
    ExclusiveClaim
    OnePlayJob
PROPERTIES
    PriorityKept
    DownloadLifecycle
    EveryJobSettles

