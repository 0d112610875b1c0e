CONSTANT Versions = {14, 15}
CONSTANT MaxDataCalls = 12
CONSTANT NextGenModem = TRUE
CONSTANT Measurements <- MCMeasurements
SPECIFICATION DispatchSpec
INVARIANTS OneAnswer NothingLeaked OwnCallback DocumentedArguments DocumentedAnswerAccepted DocumentedIndicationDelivered OnlyEmptyOverRead SignalAsMeasured CallListAsSent
