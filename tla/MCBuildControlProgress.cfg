SPECIFICATION FairSpec
CONSTANTS
    b1 = b1
    b2 = b2
    None = None
    Builds = {b1}
    MaxManual = 1
    MaxRuns = 2
PROPERTIES CancelEnds BuildEnds IdentityHeld
