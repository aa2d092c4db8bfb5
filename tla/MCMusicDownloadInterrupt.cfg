\* A download is interrupted by a shutdown.
CONSTANTS
    u1 = u1
    s1 = s1
    a1 = a1
    h1 = h1
    h2 = h2
    User = {u1}
    Song = {s1, a1}
    Handler = {h1, h2}
    Requests <- MixedRequests
    MaxJobs = 2
    MaxLives = 2
    MaxFaults = 0
SPECIFICATION Spec
PROPERTY InterruptedJobRetried
