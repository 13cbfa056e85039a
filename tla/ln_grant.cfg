SPECIFICATION FairSpec
CONSTANTS
    Clients = {c1}
    Requesters = {r1, r2}
    Pollers = {p1}
    Janitor = janitor
    maxActiveQuotesPerMAC = 1
    quoteTableEvictionWatermark = 1
    maxActiveQuotesGlobal = 2
    Stores = {TRUE, FALSE}
    DiskMayFail = TRUE
    MaxQuotes = 2
    MaxStored = 1
    MaxPaid = 1
    MaxFailures = 1
    MaxCrashes = 1
INVARIANTS CreditedOnce ProcessingHasHolder CapsHold
PROPERTIES PaidIsServed
CHECK_DEADLOCK FALSE
