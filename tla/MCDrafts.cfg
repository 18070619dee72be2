SPECIFICATION FairSpec
CONSTANTS
    Threads = {t1, t2, t3}
    EventIds = {e1, e2}
    ActionIds = {a1, a2}
    ActionTypes = {reply}
    NoRow = NoRow
    NoThread = NoThread
    NoEvent = NoEvent
    NoAction = NoAction
    NoType = NoType
INVARIANTS EventsHaveOneDraft DecisionsAreWhole
PROPERTIES DecidedByHuman AutoApprovedIsFinal DecisionsEnd
