CONSTANTS
    None = None
    p1 = p1
    p2 = p2
    p3 = p3
    k1 = k1
    k2 = k2
    Keys = {k1}
    Programs = {p1, p2, p3}
    MaxChunks = 1
    MaxPrograms = 1
    MaxSessions = 2
    MaxCrashes = 1
    MaxTurns = 2
    WriteOutcomes = {"written"}
SYMMETRY Symmetric
SPECIFICATION LiveSpec
INVARIANTS StoreMirrorsMemory
PROPERTIES NothingForgotten
CHECK_DEADLOCK FALSE
