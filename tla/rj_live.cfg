SPECIFICATION FairSpec
CONSTANTS
    Notes = {n1}
    Macs = {m1, m2}
    Threads = {t1, t2}
    Boot = boot
    NoNote = NoNote
    NoMac = NoMac
    MaxCredit = 2
    CanCrash = FALSE
    DiskMayFail = FALSE
    LateMint = FALSE
INVARIANTS TakenIsAccounted AbandonedWasNotTaken
PROPERTIES OwedGrantConverges TakenValueSettles KeepsProtocol
