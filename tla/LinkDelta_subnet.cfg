\* Reservations confirmed with the default holding time of a subnet.
SPECIFICATION Spec
CONSTANTS
  g1 = g1  g2 = g2  g3 = g3  t1 = t1  t2 = t2
  Gri <- Gri2
  Tags <- Tags2
  MaxBw = 3
  Bws = {1, 2}
  QueryExpire = 1
  ReserveExpire = 3
  SubnetExpire = 2
  Holdings = {2}
  MaxDeltas = 2
  Faults <- NoFaults
  Passers <- NoGri
  Ghosts <- NoGri
PROPERTY ReservedNotImplicitlyAddedBack
