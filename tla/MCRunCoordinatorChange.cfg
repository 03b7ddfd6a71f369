SPECIFICATION Spec
CONSTANTS
    a = a
    b = b
    c = c
    c0 = c0
    c1 = c1
    None = None
    Nodes = {a}
    References = {}
    Edges <- NoEdges
    SafeRetry = {a}
    Mutable = {a}
    Configs = {c0, c1}
    InitialConfig = c0
    AdapterSets <- AllAdapters
    LateDelivery = TRUE
    Silent = TRUE
    Purges = TRUE
    MaxRetries = 1
    MaxResumes = 0
    MaxGeneration = 2
INVARIANTS SettledConfig OneExecution
PROPERTIES ChangeKept RevisionFencesSteps RevisionFencesRun
