SPECIFICATION Spec
CONSTANTS
    s1 = s1
    s2 = s2
    u1 = u1
    u2 = u2
    u3 = u3
    o1 = o1
    o2 = o2
    p1 = p1
    p2 = p2
    None = None
    Streams = {s1, s2}
    Uids = {u1, u2, u3}
    Ops = {o1, o2}
    Publishers = {p1, p2}
    ScopeOf <- Scope
    TargetOf <- Target
    OriginOf <- Origin
    Revisions = {0, 1, 2}
    ParentOf <- Parent
    ElevOf <- Elev
    Values = {0, 1}
    MaxRev = 2
SYMMETRY Symmetry
INVARIANTS SentOnce LedgerSound ResolvedNeverStarts AcceptedFollowsModel
PROPERTY StartsOnlySettled
CHECK_DEADLOCK FALSE
