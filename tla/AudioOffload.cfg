CONSTANTS
    Callers = {player}
    MaxCmds = 3
    NoCaller = nobody
SPECIFICATION OffloadSpec
INVARIANT PathFollowsState
PROPERTY EveryCallReturns
CHECK_DEADLOCK FALSE
