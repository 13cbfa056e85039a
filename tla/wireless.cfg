SPECIFICATION FairSpec
CONSTANTS
    home = home
    cafe = cafe
    r1 = r1
    wifinet0 = wifinet0
    upstream_home = upstream_home
    upstream_cafe = upstream_cafe
    SSIDs = {home, cafe}
    TollGates = {cafe}
    Radios = {r1}
    RadioOf <- OneRadio
    Strength <- HomeIsWeaker
    sanitizeSSIDForUCI <- DerivedNames
    Names = {wifinet0, upstream_home, upstream_cafe}
    None = none
    FirstConfigs <- Configs
    HysteresisDB = 12
    SignalFloor <- DefaultFloor
    EmergencyPenalty = 20
    LostThreshold = 1
    TollGateLostThreshold = 2
    MaxConsecutiveFailures = 2
    scanCycles = 2
    startupScanRetries = 2
    Races = {}
    MaxChanges = 1
    MaxCommands = 1
    MaxReboots = 1
PROPERTIES KnownUpstreamKept InternetRecovers
CHECK_DEADLOCK FALSE
