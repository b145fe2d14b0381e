SPECIFICATION DevicesSpec
CONSTANTS
    i1 = i1
    i2 = i2
    None = None
    Ips = {i1, i2}
    Embedded = FALSE
    Recognised = TRUE
    Macless = {i1}
    MaxStops = 1
INVARIANT DevicesTypeOK
PROPERTIES
    KnownIsKept
    
