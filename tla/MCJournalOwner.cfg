\* Two processes may race to create the journal, own it one after the other
\* and recover it; two operation ids with two inputs each.
CONSTANTS
    Ops = {o1, o2}
    Inputs = {i1, i2}
    NoRecord = NoRecord
    Procs = {p1, p2}
    NoProc = NoProc
SPECIFICATION Spec
SYMMETRY Symmetry
INVARIANTS
    DiskReplayable
    RecoveryNeverRegresses
    RecoveryReadsFrozenFile
PROPERTIES
    ImplementsLedger
CHECK_DEADLOCK FALSE
