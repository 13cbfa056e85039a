SPECIFICATION Spec
CHECK_DEADLOCK FALSE
CONSTANTS
    Callers = {c1}
    Firers = {}
    Delayers = {d1, d2}
    Opener = Opener
    AuthDelays = {TRUE}
    MaxEpoch = 5
    deauthMaxAttempts = 1
    closeAttemptBudget = 1
SYMMETRY Symmetry
INVARIANT PendingIsAwaited
