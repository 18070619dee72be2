SPECIFICATION Spec
CONSTANTS
    Threads = {t1, t2}
    Emails = {ann, bob}
    Tokens = {k1, k2, k3}
    SessionDays = 1
    Resolution = 2
    SecretIsSet = FALSE
    MaxTime = 3
    MaxRestarts = 1
    NoToken = NoToken
    NoRow = NoRow
    Nobody = Nobody
SYMMETRY Symmetry
INVARIANTS GrantsAreDue
PROPERTIES LiveSessionsSurvive SweptOnLogin
