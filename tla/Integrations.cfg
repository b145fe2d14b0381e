SPECIFICATION Spec
CONSTANTS
    fritz = fritz
    pihole = pihole
    r1 = r1
    r2 = r2
    Names <- TwoNames
    Requests = {r1, r2}
    MaxSaves = 2
    MaxStops = 2
INVARIANTS
    SecretsAreOwned
    
PROPERTIES
    EachIsSynced
