\* Two documents are opened, changed and closed behind the backs of two clients
\* that share queries.  Liveness is checked, so there is no symmetry.
CONSTANTS
    Docs = {d1, d2}
    NoDoc = NoDoc
    NoEntry = NoEntry
    MaxChanges = 1
    Clients = {c1, c2}
    Queries = {q1}
    NoQuery = NoQuery
    Unsettled = Unsettled
    Failed = Failed
    NoSnapshot = NoSnapshot
SPECIFICATION FairContextSpec
INVARIANTS
    RunsOnWhatWasSeen
    AnswersAreFresh
    ShutdownSettles
PROPERTIES
    EveryQuerySettles
CHECK_DEADLOCK FALSE
