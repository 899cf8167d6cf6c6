\* A link in both directions, its half known versions, one operator; an OSPF
\* daemon and a TERCE that stop; the timers with one
\* session. The bounds of the other parts are in the module.
SPECIFICATION PartsSpec
CONSTANTS
  None = None
  Ads <- MCAds
  Gri = {"g1"}
  Sessions = {"s1"}
  Word = 3
  OspfLsas = {"l1", "l2"}  MaxAttempts = 2  OspfStops = 2  OspfChanges = 3
  MaxRefusals = 2  MaxCommands = 1  MaxRequests = 2  MaxQueue = 3
  TerceLsas = {"l1", "j1"}  Jumps = {"j1"}  MaxFd = 7  TerceStops = 1
  MaxFaults = 1  MaxOthers = 1  TerceChanges = 1
INVARIANTS
  TreesIntact NothingLeftOver Wired TimersRun
PROPERTIES
  ImplementsTable Synced Resurrected EveryTimerRuns
CHECK_DEADLOCK FALSE
