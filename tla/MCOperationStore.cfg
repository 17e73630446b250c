\* One operation, two dispatchers, two receipts that disagree.
CONSTANTS
    Ops = {o1}
    Bodies = {b1, b2}
    Workers = {w1, w2}
    Receipts = {r1, r2}
    Outcomes = {"CommittedVerified", "CancelledBeforeStart"}
    NoRecord = NoRecord
    Blank = Blank
SPECIFICATION Spec
SYMMETRY Symmetry
INVARIANTS
    SentByOneWorker
    OneStory
PROPERTIES
    ReceiptStands
CHECK_DEADLOCK FALSE
