SPECIFICATION Spec
CONSTANTS
    Notes = {n1}
    Macs = {m1}
    Threads = {t1, t2}
    Boot = boot
    NoNote = NoNote
    NoMac = NoMac
    MaxCredit = 2
    CanCrash = TRUE
    DiskMayFail = TRUE
    LateMint = TRUE
SYMMETRY Symmetry
INVARIANTS ServiceOnlyForSpentNotes OneReceivePerNote
PROPERTY DecisionsAreFinal
