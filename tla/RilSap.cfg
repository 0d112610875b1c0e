CONSTANTS
    Requests = {1, 2}
    Methods = {"APDU", "DISCONNECT"}
    MaxInds = 1
SPECIFICATION Spec
INVARIANTS MemoryReturned AnsweredOnce
CHECK_DEADLOCK FALSE
