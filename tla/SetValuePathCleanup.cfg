SPECIFICATION FairPathSpec
CONSTANTS
    Groups = {g1}
    Nodes = {n1}
    SetRetryAttempts = 1
    MaxSubmissions = 3
    MaxInputs = 2
PROPERTY
    EveryTaskFinishes
CHECK_DEADLOCK FALSE
