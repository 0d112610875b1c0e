CONSTANTS
    Outputs = {primary}
    Inputs = {mic}
    Primary = primary
    LowLatency = {primary}
    Talking = {mic}
    Refs = {r1, r2, r3}
    Nobody = nobody
SPECIFICATION Spec
INVARIANTS NeverAborts EchoReferenceOwned
PROPERTY EveryCallReturns
