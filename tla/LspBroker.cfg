\* Applications that repeat everything, a chain of three domains, crashes,
\* confirmations and releases that are sent again.  The
\* constants are those of the chain; MCLspBroker gives the other scenes theirs.
SPECIFICATION SceneSpec
CONSTANTS
  N = 3
  Dests = {3}
  g1 = g1
  g2 = g2
  Gri = {g1, g2}
  Qconf = {g2}
  Tags = {1, 2}
  Borders = {"b"}
  Fallback = FALSE
  MaxBw = 2
  MaxRetran = 1
  MaxSends = 3
  MaxFaults = 0
  Faults = {"noroute"}
INVARIANTS
  ChainConfirmed ChainNothingLeft CrashBandwidthNotOverstated AnswerReleaseIsFinal
  RepeatBandwidthAccounted
PROPERTY Answered
CHECK_DEADLOCK FALSE
