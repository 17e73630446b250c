CONSTANTS
    None = None
    p1 = p1
    p2 = p2
    p3 = p3
    k1 = k1
    k2 = k2
    Keys = {k1}
    Programs = {p1}
    MaxChunks = 2
    MaxPrograms = 3
    MaxSessions = 2
    MaxCrashes = 0
    MaxTurns = 2
    WriteOutcomes = {"written"}
SYMMETRY Symmetric
SPECIFICATION LiveSpec
INVARIANTS BuiltIsWhole
CHECK_DEADLOCK FALSE
