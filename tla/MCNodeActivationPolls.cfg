CONSTANTS
    step = step
    stepText = stepText
    lagerFill = lagerFill
    pufferOben = pufferOben
    n1 = n1
    n2 = n2
    n3 = n3
    lager = lager
    NoGroup = NoGroup
    Entities <- MCEntities
    Nodes <- MCNodes
    NodeOf <- MCNodeOf
    GroupOf <- MCGroupOf
    Groups = {lager}
    Puffer = {pufferOben}
    EnabledFlag = {step, stepText, pufferOben}
SPECIFICATION ActivationSpec
INVARIANTS
    OnlyEnabledPolled
