\* Clients, network and operator in any order, the link flapping.
SPECIFICATION Spec
CONSTANTS
  g1 = g1  g2 = g2  g3 = g3  t1 = t1  t2 = t2
  Gri <- Gri2
  Tags <- Tags1
  MaxBw = 1
  Bws = {1}
  QueryExpire = 1
  ReserveExpire = 1
  SubnetExpire = 2
  Holdings = {0}
  MaxDeltas = 2
  Faults <- Unruly
  Passers <- NoGri
  Ghosts <- NoGri
INVARIANTS TypeOK OneDeltaPerOwner
