\* Two libraries with a folder each; quick requests, and the full scan
\* that follows a migration.
CONSTANTS
    l1 = l1
    l2 = l2
    f1 = f1
    f2 = f2
    Library = {l1, l2}
    Folder = {f1, f2}
    LibOf <- TwoLibraries
    Requests <- QuickRequests
    MaxChanges = 1
    MaxInterrupts = 2
    MaxFaults = 1
SPECIFICATION FairSpec
INVARIANT UnkeptOnlyByInterruption
PROPERTY DatabaseCatchesUp
