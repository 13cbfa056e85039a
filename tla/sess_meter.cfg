SPECIFICATION Spec
CONSTANTS
    Macs = {m1, m2}
    NoMac = nomac
    Payers = {p1, p2}
    Metrics = {"bytes", "milliseconds"}
    Allotment = 1
    usageMonitorGraceSweeps = 0
    gracePasses = 1
    MaxGrants = 2
    MaxBytes = 1
    MaxTime = 2
    MaxHandles = 1
    MaxUpsets = 1
INVARIANTS OpenGateIsMetered GateEndsWithSession
PROPERTIES TicketKeepsRemainder
CHECK_DEADLOCK FALSE
SYMMETRY Alike
