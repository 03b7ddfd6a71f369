SPECIFICATION Spec
CONSTANTS
    k1 = k1
    k2 = k2
    q1 = q1
    q2 = q2
    c1 = c1
    c2 = c2
    h1 = h1
    u = u
    None = None
    Connections = {c1, c2}
    Hosts = {h1}
    MaxRegistration = 2
    Keys = {k1, k2}
    Author <- SameAuthor
    Slots = {q1, q2}
    MaxGraph = 2
    MaxRuns = 2
SYMMETRY Alike
INVARIANTS AdmissionTypeOK StartsOnce TargetsTrue
