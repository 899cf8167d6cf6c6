\* Two sessions, one of which is used while the other is left alone.
SPECIFICATION Spec
CONSTANTS
  Periods <- MCPeriods
  Refresh = {"topology"}
  Intervals = {2, 4}
  Sessions = {"s1", "s2"}
  Timeout = 3
  MaxLate = 1
INVARIANT RunsForever
CHECK_DEADLOCK FALSE
