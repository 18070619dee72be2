SPECIFICATION HttpSpec
CONSTANTS
    Processes = {master, worker}
    Master = master
    Threads = {t1, t2}
    MaxFailures = 1
    NoProcess = NoProcess
    NoThread = NoThread
    Limit = 1
    MaxChunk = 2
    MaxBody = 2
    NoRequest = NoRequest
INVARIANTS UsesOwnWrapper BuildsOnce OneResponse LimitIsExact
PROPERTIES RequestsEnd
