SPECIFICATION Spec
CONSTANTS
    a = a
    b = b
    c = c
    c0 = c0
    c1 = c1
    None = None
    Nodes = {a, b}
    References = {}
    Edges <- Chain
    SafeRetry = {a}
    Mutable = {}
    Configs = {c0}
    InitialConfig = c0
    AdapterSets <- SomeAdapters
    LateDelivery = FALSE
    Silent = FALSE
    Purges = FALSE
    MaxRetries = 1
    MaxResumes = 1
    MaxGeneration = 5
INVARIANTS RunEndsWithSteps NoOrphanExecution ConfirmedInputs ExecutionBudget NoStrandedStep
PROPERTIES StopSticks VerdictStands KeepsFence
