SPECIFICATION FairPollSpec
CONSTANTS
    fast = fast
    slow = slow
    Groups = {fast, slow}
    Cycles = {c1, c2}
    ScanInterval <- MixedIntervals
    UpdateInterval = 1
    RetryInitialDelay = 1
    RetryMaxDelay = 1
    MaxAttempts = 1
    MaxConcurrentPolls = 2
    ErrorThreshold = 1
    Switchable = {}
PROPERTIES
    CyclesFinish
    GroupsPolledAgain
