SPECIFICATION Spec
CONSTANTS
    Threads = {t1, t2}
    EventIds = {e1, e2}
    ActionIds = {a1, a2}
    ActionTypes = {reply}
    NoRow = NoRow
    NoThread = NoThread
    NoEvent = NoEvent
    NoAction = NoAction
    NoType = NoType
PROPERTIES DecidedOnce
