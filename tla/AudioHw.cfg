CONSTANTS
    Outputs = {primary, deep}
    Inputs = {mic}
    Primary = primary
    LowLatency = {primary}
    Modes <- MCModes
    Sources <- MCSources
    OutDevices <- MCOutDevices
    InDevices <- MCInDevices
SPECIFICATION Spec
INVARIANTS RefCountsMatchUsers OneBackend PathsMatchRefs
PROPERTY CallFollowsPrimary
