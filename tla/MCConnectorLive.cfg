\* Two operation ids, one input, one session, two work items, and a legacy
\* runtime that loads one assembly.  Liveness is checked without symmetry.
CONSTANTS
    Ops = {o1, o2}
    Inputs = {i1}
    NoRecord = NoRecord
    Sessions = {s1}
    NoSession = NoSession
    ItemIds = {w1, w2}
    NoItem = NoItem
    Unsettled = Unsettled
    LegacyAssemblyLimit = 1
SPECIFICATION FairSpec
INVARIANTS
    LegacyAssembliesBounded
PROPERTIES
    EveryItemSettled
    EveryRequestEnds
CHECK_DEADLOCK FALSE
