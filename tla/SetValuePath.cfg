SPECIFICATION FairPathSpec
CONSTANTS
    Groups = {g1}
    Nodes = {n1}
    SetRetryAttempts = 1
    MaxSubmissions = 4
    MaxInputs = 2
INVARIANTS
    PathTypeOK
    DebounceKeepsLatest
    ConfirmedInputHeld
PROPERTIES
    OnlyRollbackRewinds
    PollsRefreshData
    ImplementsSettingFlow
    LatestInputSettles
CHECK_DEADLOCK FALSE
