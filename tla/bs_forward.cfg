SPECIFICATION FairSpec
CONSTANTS
    Callers = {f1, f2}
    Renewals = {r1, r2}
    Proofs = {n1, n2}
    None = none
INVARIANT GrantsAreBacked
PROPERTY ForwardsReturn
