SPECIFICATION Spec
CONSTANTS
    p1 = p1
    p2 = p2
    network = network
    gpu = gpu
    None = None
    Dir <- TwoFiles
    Builtins = {network}
    Names = {network, gpu}
    Prompt = {p1}
INVARIANTS
    StoreOutlivesCollector
    OnlyUnusedProcessesStay
PROPERTIES
    ShutdownEnds
    TrustedNeverBlocks
CHECK_DEADLOCK FALSE
