SPECIFICATION EditorSpec
CONSTANTS
    m = m
    n = n
    v0 = v0
    v1 = v1
    v2 = v2
    p0 = p0
    p1 = p1
    alice = alice
    bob = bob
    Absent = Absent
    None = None
    Nodes = {m, n}
    Values = {v0, v1}
    Places = {p0, p1}
    Wires <- Wire
    Actors = {alice, bob}
    Creator = alice
    Me = alice
    Clients = {bob}
    Blank <- Start
    Allowed <- SomeEdits
    Moves <- SomeMoves
    MaxReceipts = 5
    MaxRedo = 2
    MaxWork = 5
    MaxPast = 1
INVARIANTS EditorTypeOK HistorySound
PROPERTIES NoBlindOverwrite UndoOwn LocalEditsKept
CHECK_DEADLOCK FALSE
