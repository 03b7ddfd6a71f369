SPECIFICATION FairSpec
CONSTANTS
    i1 = i1
    i2 = i2
    Absent = Absent
    Tag = Tag
    Images = {i1, i2}
    Installed = i1
    Offered <- Newer
    MaxRequests = 2
INVARIANTS FenceJournaled OneUpdate Settled FencedApply PlanKept
PROPERTIES OutcomeTrue UpdatesAtomic RecoveryEnds
