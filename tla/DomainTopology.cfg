\* A topology with an OSPF daemon or a TERCE, and the commands of an operator.
SPECIFICATION PartsSpec
CONSTANTS
  Routers = {"r"}
  Links = {"l1", "l2"}
  Absent = {"l2"}
  Sessions = {"c1", "c2"}
  Cases <- AllCases
  MaxConns = 3
  MaxIds = 15
INVARIANTS ShowsTopology Survives FindsWhatIsMeant
PROPERTIES Refreshed Reconnects
CHECK_DEADLOCK FALSE
