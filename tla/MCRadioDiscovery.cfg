\* A track played as two items, with skips of both; one failure, one crash.
CONSTANTS
    t1 = t1
    i1 = i1
    i2 = i2
    r1 = r1
    c1 = c1
    Track = {t1}
    Item = {i1, i2}
    TrackOf <- OneTrack
    Event <- Reports
    Remover = {r1}
    Cleaner = c1
    MaxFaults = 1
    MaxCrashes = 1
    MaxDownloads = 2
    MaxBare = 2
SPECIFICATION FairSpec
INVARIANTS
    KeptIsEarned
PROPERTIES
    KeptSurvives
    DoomedIsSettled
CHECK_DEADLOCK FALSE
