\* The two archives share output x; publishing one must wait for the other.
CONSTANTS
    a1 = a1
    a2 = a2
    op1 = op1
    op2 = op2
    x = x
    y = y
    Archives = {a1, a2}
    Ops = {op1, op2}
    Outputs = {x, y}
    OpOf <- SharedOutputOpOf
    OutputsOf <- SharedOutputOutputsOf
    SourceOf <- FirstSource
    Publishers = {p1, p2}
    Progress = {running1}
    MaxProgress = 1
    MaxHead = 1
    Foreign = Foreign
    None = None
SPECIFICATION Spec
SYMMETRY Symmetry
INVARIANTS
    NoOutputMadeTwice
    SentIsRetained
    CatalogSound
    RetainedReceiptsTrue
PROPERTIES
    OwnersFreedByNoStart
CHECK_DEADLOCK FALSE
