CONSTANTS
  c1 = c1
  c2 = c2
  t1 = t1
  t2 = t2
  t3 = t3
  Callers = {c1, c2}
  Timers = {t1, t2, t3}
  Version13 = TRUE
  Reuse = TRUE
  MaxGrabs = 3
  MaxFailures = 1
SPECIFICATION MCSpec
INVARIANTS CountedMeansHeld HeldHasTimer
PROPERTY EventuallyReleased
CHECK_DEADLOCK FALSE
