SPECIFICATION HealthFairSpec
CONSTANTS
    Mints = {a1, a2}
    Merchants = {g1, g2, g3}
    NoMerchant = nobody
    Workers = {w1}
    defaultRecoveryThreshold = 2
    defaultFailureThreshold = 2
    defaultPersistentThrottleProbes = 1
    WalletFailsAt = {"boot"}
    ChecksOverlap = FALSE
    MaxFlaps = 1
    MaxRefused = 2
PROPERTIES Recovers DownIsDegraded
CHECK_DEADLOCK FALSE
