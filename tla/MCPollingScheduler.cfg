SPECIFICATION PollSpec
CONSTANTS
    fast = fast
    slow = slow
    Groups = {fast, slow}
    Cycles = {c1, c2}
    ScanInterval <- MixedIntervals
    UpdateInterval = 1
    RetryInitialDelay = 2
    RetryMaxDelay = 3
    MaxAttempts = 2
    MaxConcurrentPolls = 1
    ErrorThreshold = 1
    Switchable = {slow}
SYMMETRY CycleSymmetry
INVARIANTS
    PollingTypeOK
    PollingNeverStops
    RetriesOnlyWhileFailing
PROPERTIES
    OnlyEndedCyclesStamp
