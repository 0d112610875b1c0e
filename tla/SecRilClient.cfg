CONSTANTS
    Fds = {3, 4}
    Tokens = {1}
    Functions = {"SetCallAudioPath", "GetMute"}
    MaxConnects = 2
    MaxCalls = 2
    MaxDeaths = 1
    MaxReports = 1
SPECIFICATION ClientSpec
INVARIANT TokensReturned
PROPERTIES DisconnectReturns LossNoticed
CHECK_DEADLOCK FALSE
