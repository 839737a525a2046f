\* Two nodes, one installation; liveness.
SPECIFICATION FairSpec
CONSTANTS
  p = p
  q = q
  gain = gain
  low = low
  None = None
  NotSet = NotSet
  Peers = {p, q}
  Names = {gain}
  Values = {low}
  MaxOid = 1
  MaxChanges = 1
  MaxFailures = 0
  MaxSlow = 1
  MaxRestarts = 0
PROPERTIES
  Converges
  SilenceIsReported
  PollEnds
