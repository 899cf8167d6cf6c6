SPECIFICATION Spec
CONSTANTS
  N = 2
  Dests = {2}
  g1 = g1
  Gri = {g1}
  Qconf = {}
  Tags = {1, 2}
  Borders = {"b"}
  Fallback = FALSE
  MaxBw = 2
  MaxRetran = 1
  MaxSends = 3
  MaxFaults = 0
  Faults = {"reask"}
INVARIANTS
  RepeatedRequestIsAnsweredAlike
CHECK_DEADLOCK FALSE
