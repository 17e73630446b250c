CONSTANTS
    Ops = {o1}
    Inputs = {i1, i2}
    NoRecord = NoRecord
    Sessions = {s1, s2}
    NoSession = NoSession
    ItemIds = {w1, w2}
    NoItem = NoItem
    Unsettled = Unsettled
    LegacyAssemblyLimit = 64
SPECIFICATION Spec
SYMMETRY Symmetry
INVARIANTS
    AtMostOnce
    RetryPermissionSound
    AnsweredIsDurable
    NoLostWakeup
PROPERTIES
    ShutSessionClaimsNothing
    ReleasedJournalUntouched
CHECK_DEADLOCK FALSE
