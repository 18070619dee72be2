SPECIFICATION Spec
CONSTANTS
    EntityKeys = {e1, e2, e3}
    FieldKeys = {f1}
    LinkKeys = {l1, l2}
    a = a
    A = A
    b = b
    c = c
    good = good
    repeats = repeats
    Labels <- MCLabels
    Norm <- MCNorm
    OptionLists <- MCOptionLists
    WellFormed <- MCWellFormed
    Empty = empty
    None = None
    Absent = Absent
SYMMETRY Symmetry
INVARIANTS MarksAreTrue RestoreIsAccepted ArchiveIsUndone ArchivesCommute
PROPERTIES ImplementsVisibility
