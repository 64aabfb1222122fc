SPECIFICATION FairSpec
CONSTANTS
    SourceTimezone = "Europe/Berlin"
    MaxChanges = 1
    MaxInputs = 2
INVARIANTS
    ValuesTypeOK
    DisplayTrue
    ServicesAgree
PROPERTY ReadingArrives
