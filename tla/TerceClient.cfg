\* A TERCE that stops once, and a client of the command line or of the API.
SPECIFICATION LiveSpec
CONSTANTS
  Lsas = {"l1", "j1"}
  Jumps = {"j1"}
  MaxFd = 7
  MaxStops = 1
  MaxFaults = 1
  MaxOthers = 1
  MaxChanges = 1
PROPERTY Resurrects
CHECK_DEADLOCK FALSE
