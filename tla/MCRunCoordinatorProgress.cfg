SPECIFICATION FairSpec
CONSTANTS
    a = a
    b = b
    c = c
    c0 = c0
    c1 = c1
    None = None
    Nodes = {a, b}
    References = {}
    Edges <- Chain
    SafeRetry = {a}
    Mutable = {}
    Configs = {c0}
    InitialConfig = c0
    AdapterSets <- AllAdapters
    LateDelivery = FALSE
    Silent = FALSE
    Purges = FALSE
    MaxRetries = 1
    MaxResumes = 0
    MaxGeneration = 5
PROPERTIES StopEnds RunEnds
