SPECIFICATION Spec
CONSTANTS
  a = a
  b = b
  Elements <- MCElements
  Low <- MCLow
  StraySizes <- MCStraySizes
  None = None
  Capacities = {1, 5}
  MaxSize = 5
  MaxFaults = 1
INVARIANTS StaysInside NoFalseAlarm
PROPERTIES ImplementsLifo NoticedAtOnce
CHECK_DEADLOCK FALSE
