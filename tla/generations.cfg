SPECIFICATION FairSpec
CONSTANTS
    m1 = m1
    Macs = {m1}
    Sales = {s1}
    NoMac = nomac
    Buyer <- OneBuyer
    Allotment = 1
    MaxGens = 2
    MaxBytes = 1
    MaxRestarts = 1
    MaxOutside = 1
INVARIANT OpenGateHasMeter
PROPERTIES UpgradeSparesServed SpentIsCut StrangerIsCut OwedIsGranted
CHECK_DEADLOCK FALSE
