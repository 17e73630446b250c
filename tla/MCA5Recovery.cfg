SPECIFICATION Spec
CONSTANTS
    PlanLength = 2
    Isolated = {1}
    MaxRequests = 4
    MaxEdits = 1
    None = None
INVARIANTS EveryElementAccounted NothingBuiltTwice ClosedIsSettled
CHECK_DEADLOCK FALSE
