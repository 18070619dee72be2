SPECIFICATION Spec
CONSTANTS
    Threads = {t1, t2}
    Limit = 1
    MaxDay = 2
    MaxRejected = 0
    Unreadable = Unreadable
    NoAnswer = NoAnswer
    NoRow = NoRow
    NoThread = NoThread
SYMMETRY Symmetry
INVARIANTS NoDayOverLimit
