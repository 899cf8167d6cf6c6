\* Two clients that confirm, signal and release in time.
SPECIFICATION Spec
CONSTANTS
  g1 = g1  g2 = g2  g3 = g3  t1 = t1  t2 = t2
  Gri <- Gri2
  Tags <- Tags2
  MaxBw = 3
  Bws = {1, 2}
  QueryExpire = 1
  ReserveExpire = 2
  SubnetExpire = 4
  Holdings = {0, 3}
  MaxDeltas = 2
  Faults <- NoFaults
  Passers <- NoGri
  Ghosts <- NoGri
INVARIANTS
  HeldTagsNotOffered NoContention NetworkNotOverbooked
  NeverOffersTakenBandwidth
PROPERTY ReservedNotImplicitlyAddedBack
