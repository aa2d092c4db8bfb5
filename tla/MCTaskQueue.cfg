\* Two queues share a budget of two workers; two lives, one failed statement.
CONSTANTS
    q1 = q1
    q2 = q2
    t1 = t1
    t2 = t2
    Queue = {q1, q2}
    Task = {t1, t2}
    NoTask = NoTask
    MaxConcurrency = 2
    Requested = {0, 3}
    Retries = {1}
    Delayed = {q1}
    MaxLives = 2
    MaxFaults = 1
SYMMETRY TaskSymmetry
SPECIFICATION Spec
INVARIANTS
    TypeOK
    ExclusiveExecution
    NoOrphans
    RetryBudget
    ConcurrencyBudget
    NoLostWakeup
