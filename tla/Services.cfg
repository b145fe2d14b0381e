SPECIFICATION Spec
CONSTANTS
    a = a
    b = b
    Owner = a
    Peers = {b}
    CollectEvery = 1
    DiscoverEvery = 1
    BeatEvery = 1
    SweepEvery = 2
    Delay = 1
    StaleAfter = 3
INVARIANTS
    
    OpenIsActive
