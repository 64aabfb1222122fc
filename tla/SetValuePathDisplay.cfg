SPECIFICATION PathSpec
CONSTANTS
    Groups = {g1}
    Nodes = {n1}
    SetRetryAttempts = 1
    MaxSubmissions = 3
    MaxInputs = 2
INVARIANT
    DisplayShowsLatestInput
CHECK_DEADLOCK FALSE
