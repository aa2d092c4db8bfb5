\* Two requests and planners, two items, a queue of one, two failures, crashes or takeovers.
CONSTANTS
    h1 = h1
    h2 = h2
    Handler = {h1, h2}
    Planner = {1, 2}
    Queues <- ClientQueues
    Watermark = 1
    MaxItems = 2
    MaxMishaps = 2
SPECIFICATION FairSpec
INVARIANTS
    AppendNeverCollides
    DownloadBudget
    DiscoveryRecorded
PROPERTIES
    EveryDownloadShown
