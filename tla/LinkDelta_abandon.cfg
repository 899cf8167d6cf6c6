\* A client that vanishes, one that keeps querying.
SPECIFICATION LiveSpec
CONSTANTS
  g1 = g1  g2 = g2  g3 = g3  t1 = t1  t2 = t2
  Gri <- Gri3
  Tags <- Tags1
  MaxBw = 2
  Bws = {1}
  QueryExpire = 1
  ReserveExpire = 2
  SubnetExpire = 3
  Holdings = {0, 3}
  MaxDeltas = 2
  Faults <- Shadowed
  Passers <- OnlyG2
  Ghosts <- OnlyG1
PROPERTY AbandonedHoldReturns
