SPECIFICATION ServerSpec
CONSTANTS
    m1 = m1
    m2 = m2
    c1 = c1
    up = up
    Mints = {m1, m2}
    Connections = {c1}
    AcceptedMints = {m1}
    Upstream = up
    Callers = {c1, m1, up}
    NoCaller = none
    Backends = {"gonuts", "cdk", "sidecar"}
    maxAttempts = 2
    MaxFee = 0
    MaxFaults = 1
    Maintainers = {"dev"}
    Factor <- DefaultShares
    MinPayoutAmount = 2
    MinBalance = 1
    Starts <- Wallets
    MaxFunded = 1
    MaxCrashes = 1
    Work = {"wallet", "settings"}
    Shells = {s1, s2}
    Main = main
    Nobody = nobody
    LastRadio = 0
    Keys = {k1, k2}
    Blank = blank
    Short = short
    MaxBusy = 2
    MaxMishaps = 1
    MaxStops = 1
SYMMETRY Symmetry
INVARIANTS OneTokenAtRisk AnswersAreTrue OwnerIsPaidFirst
INVARIANTS RadiosMatchFile SettersAgree ConfigSurvives
