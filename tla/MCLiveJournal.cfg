CONSTANTS
    None = None
    p1 = p1
    p2 = p2
    p3 = p3
    k1 = k1
    k2 = k2
    Keys = {k1, k2}
    Programs = {p1, p2}
    MaxChunks = 2
    MaxPrograms = 1
    MaxSessions = 1
    MaxCrashes = 1
    MaxTurns = 2
    WriteOutcomes = {"written", "torn"}
SYMMETRY Symmetric
SPECIFICATION LiveSpec
INVARIANTS StagesAreTrue DispatchedIsInFlight
PROPERTIES EndsStand
CHECK_DEADLOCK FALSE
