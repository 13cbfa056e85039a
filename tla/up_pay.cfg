SPECIFICATION FairSpec
CONSTANTS
    Sessions = {s1}
    Payers = {p1, p2}
    Reporters = {loop}
    Loop = loop
    None = none
    Price = 2
    Increment = 2
    MaxAllotment = 4
    RenewalOffset = 1
    MaxWealth = 4
    ResellerMode = TRUE
INVARIANTS NothingStranded OneTokenPerSession
PROPERTY LinkIsPaid
CHECK_DEADLOCK FALSE
