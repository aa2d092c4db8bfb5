\* Two users, the second blocked; two rows, two scrobblers, one mishap.
CONSTANTS
    u1 = u1
    u2 = u2
    h1 = h1
    User = {u1, u2}
    Blocked = {u2}
    Time = {1, 2}
    Plays <- MixedPlays
    Handler = {h1}
    MaxEntries = 2
    MaxScrobblers = 2
    MaxMishaps = 1
SPECIFICATION FairSpec
INVARIANTS
    NoScrobbleLost
    RepeatedOnlyByMishap
PROPERTIES
    SentInOrder
    UserServed
CHECK_DEADLOCK FALSE
