SPECIFICATION Spec
CONSTANTS
    a = a
    b = b
    c = c
    c0 = c0
    c1 = c1
    None = None
    Nodes = {a}
    References = {}
    Edges <- NoEdges
    SafeRetry = {a}
    Mutable = {}
    Configs = {c0}
    InitialConfig = c0
    AdapterSets <- AllAdapters
    LateDelivery = TRUE
    Silent = FALSE
    Purges = FALSE
    MaxRetries = 1
    MaxResumes = 1
    MaxGeneration = 5
INVARIANTS OneExecution
