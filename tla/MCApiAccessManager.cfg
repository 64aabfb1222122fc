SPECIFICATION FairManagerSpec
CONSTANTS
    Groups = {g1}
    Nodes = {n1, n2}
    SetRetryAttempts = 2
    MaxSubmissions = 3
INVARIANTS
    ManagerTypeOK
    EntriesComparable
    OlderSetsSuperseded
    WaitersAreServed
    NoStalePending
    SingleFlight
PROPERTIES
    BoilerNeverGoesBack
    SetsBeforePolls
    ImplementsLatestWriteWins
    RequestsAnswered
CHECK_DEADLOCK FALSE
