\* Two confirmation IDs; clients of an RCE that stops and starts; two sessions
\* of the command line.
SPECIFICATION PartsSpec
CONSTANTS
  k1 = k1  k2 = k2
  Key <- MCKey
  Transit <- MCTransit
  ExpireSecs = 1
  TrashSecs = 1
  MaxLag = 1
  MaxEntries = 3
  Sessions = {"c1", "c2"}  Args = {1}  MaxReads = 2  MaxBatch = 2
  Chars = {"a", "b"}  Password <- MCPassword  Prompt = 1  Columns = 6  Depth = 1  MaxLine = 3
  MaxClients = 3  MaxConns = 2  MaxPosts = 4
INVARIANTS
  ListWhole SessionsApart ScreenShowsLine InOrder
PROPERTIES
  ServedIsCurrent Collected SessionEnds Sent
CHECK_DEADLOCK FALSE
