\* A caller, two watcher goroutines and two maintenance runs; two folders.
CONSTANTS
    f1 = f1
    f2 = f2
    c1 = c1
    s1 = s1
    s2 = s2
    k1 = k1
    k2 = k2
    Free = Free
    Folder = {f1, f2}
    Caller = {c1}
    Slot = {s1, s2}
    Keeper = {k1, k2}
    Batches <- AnyBatch
    MaxInbox = 1
    MaxChanges = 2
    MaxFaults = 1
SPECIFICATION FairSpec
INVARIANTS
    OneScanAtATime
    MaintenanceExcludesScan
    BatchHasTrigger
    ChangeAccountedFor
PROPERTIES
    NoMaintenanceAhead
    FlagIsReleased
    ChangeHandled
