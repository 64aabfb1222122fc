\* Two set-ups, two groups, one save of the options.
SPECIFICATION FairSpec
CONSTANTS
    None = None
    Empty = "empty"
    Blanks = {"empty", "blank"}
    Default <- MCDefault
    Groups = {g1, g2}
    Typed <- MCTyped
    StoredOptions <- SampleOptions
    Forms <- SampleForms
    Followed = {"api_timeout", "enable_hk2", "scan_interval_group_1"}
    SetRetries = 1
    MaxSetUps = 2
    MaxSaves = 1
INVARIANTS
    LifecycleTypeOK
    RequestsAccounted
    ProtocolFits
    FormRoundTrip
PROPERTIES
    SetUpDecides
    OrphansFallSilent
    SavedOptionsUsed
CHECK_DEADLOCK FALSE
