CONSTANTS
  h1 = h1
  h2 = h2
  Hal = {h1, h2}
  MaxSets = 1
  MaxCallbacks = 2
  MaxCalls = 5
SPECIFICATION Spec
INVARIANTS NoCallbackAfterClose DeliveredInOrder
PROPERTIES DeferredPreviewStarts CallsReturn
CHECK_DEADLOCK FALSE
