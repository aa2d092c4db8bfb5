\* One task, one worker, and the plugin is unloaded.
CONSTANTS
    q1 = q1
    q2 = q2
    t1 = t1
    t2 = t2
    Queue = {q1}
    Task = {t1}
    NoTask = NoTask
    MaxConcurrency = 1
    Requested = {1}
    Retries = {0}
    Delayed = {}
    MaxLives = 2
    MaxFaults = 0
SPECIFICATION Spec
INVARIANT FailedOnlyAfterExecution
