SPECIFICATION BatchSpec
CONSTANTS
    e1 = e1
    e2 = e2
    e3 = e3
    e4 = e4
    f1 = f1
    f2 = f2
    l1 = l1
    l2 = l2
    a = a
    b = b
    c = c
    x = x
    EntityKeys = {e1, e2, e3, e4}
    FieldKeys = {f1, f2}
    LinkKeys = {l1, l2}
    Labels = {a, b, c}
    Norm <- MCNorm
    OptionLists = {Empty}
    WellFormed = {}
    Empty = Empty
    None = None
    Absent = Absent
    Refs = {x, f1}
    MaxOperations = 3
    MaxRaw = 4
    Bases <- MCBases
INVARIANTS ReplayIsTheSame ReplayIsNotRefused
CHECK_DEADLOCK FALSE
