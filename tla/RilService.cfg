CONSTANTS
  v1 = v1
  v2 = v2
  Vendor = {v1, v2}
  Binder = Binder
  RadioServices = {radio0}
  OemHookServices = {}
  MaxClients = 2
  MaxUpcalls = 3
SPECIFICATION Spec
INVARIANTS NoNullCall LockReleased
PROPERTIES LiveClientKept RegistrationSticks
CHECK_DEADLOCK FALSE
