CONSTANTS
  MaxNitz = 4
  MaxClients = 3
SPECIFICATION NitzSpec
INVARIANT DeliveredOnce
CHECK_DEADLOCK FALSE
