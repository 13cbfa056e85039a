SPECIFICATION FairSpec
CHECK_DEADLOCK FALSE
CONSTANTS
    Callers = {c1}
    Firers = {f1}
    Delayers = {}
    Opener = Opener
    AuthDelays = {FALSE}
    MaxEpoch = 3
    deauthMaxAttempts = 2
    closeAttemptBudget = 2
INVARIANT TimerIsLive
PROPERTIES RetiredIsClosed PaidAccessReturns CloseConverges
