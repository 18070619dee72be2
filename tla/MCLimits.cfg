SPECIFICATION LimitsSpec
CONSTANTS
    Threads = {t1, t2, t3}
    Limit = 2
    MaxDay = 2
    MaxRejected = 2
    Unreadable = Unreadable
    NoAnswer = NoAnswer
    NoRow = NoRow
    NoThread = NoThread
    Logins = {r1, r2}
    Ips = {i1}
    Emails = {e1, e2}
    LoginWindow = 2
    SignupWindow = 3
    LoginPerIp = 2
    FailuresPerEmail = 1
    SignupsPerIp = 2
    SignupsPerEmail = 1
    MaxKeys = 1
    MaxTime = 3
    Nobody = Nobody
SYMMETRY Symmetry
INVARIANTS ExactUntilMidnight TotalIsCharged BestAnswerIsKept CountsAreExact LimitsHold
PROPERTIES RefusalsAreDue
