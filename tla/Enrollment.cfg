SPECIFICATION EnrollSpec
CONSTANTS
    hub = hub
    n1 = n1
    n2 = n2
    CA = hub
    Joiners = {n1, n2}
    MaxSetups = 2
    MaxTokens = 1
    MaxFaults = 1
INVARIANTS
    EnrollTypeOK
    
    
PROPERTIES
    SpentTokenIsRefused
    StartupEnds
CHECK_DEADLOCK FALSE
