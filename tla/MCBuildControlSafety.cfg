SPECIFICATION Spec
CONSTANTS
    b1 = b1
    b2 = b2
    None = None
    Builds = {b1, b2}
    MaxManual = 0
    MaxRuns = 2
INVARIANTS DispatchOnce VerifiedResult OneWorkflow
PROPERTIES CancelSticks EndSticks RevisionFencesBuilds
