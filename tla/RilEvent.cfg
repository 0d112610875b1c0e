CONSTANTS
  a1 = a1
  a2 = a2
  Adders = {a1, a2}
  Delays = {0, 2}
  MaxTimers = 3
  MaxTime = 4
SPECIFICATION Spec
INVARIANTS NoOversleep EachTimerOnce
PROPERTY TimersFire
CHECK_DEADLOCK FALSE
