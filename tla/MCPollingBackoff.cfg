SPECIFICATION PollSpec
CONSTANTS
    fast = fast
    slow = slow
    Groups = {fast, slow}
    Cycles = {c1, c2}
    ScanInterval <- MixedIntervals
    UpdateInterval = 1
    RetryInitialDelay = 2
    RetryMaxDelay = 3
    MaxAttempts = 2
    MaxConcurrentPolls = 2
    ErrorThreshold = 1
    Switchable = {}
PROPERTY
    RetryWaits
