\* One queue, two workers, two tasks; one crash or shutdown, one failed statement.
CONSTANTS
    q1 = q1
    q2 = q2
    t1 = t1
    t2 = t2
    Queue = {q1}
    Task = {t1, t2}
    NoTask = NoTask
    MaxConcurrency = 2
    Requested = {2}
    Retries = {1}
    Delayed = {}
    MaxLives = 2
    MaxFaults = 1
SPECIFICATION FairSpec
PROPERTIES
    EveryTaskSettles
    LifecycleRefined
