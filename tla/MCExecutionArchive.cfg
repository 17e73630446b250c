SPECIFICATION PathSpec
CONSTANTS
    Publishers = {p1, p2, p3}
    Inputs = {i1, i2}
    Missing = Missing
SYMMETRY Symmetry
INVARIANTS SentIsRecoverable OneSendPerPath
CHECK_DEADLOCK FALSE
