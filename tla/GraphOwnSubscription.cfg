\* A participant that never joins discovery keeps a subscription of its own.
SPECIFICATION FairSpec
CONSTANTS
  n0 = n0
  n1 = n1
  t1 = t1
  t2 = t2
  None = None
  NodeLists = {n0, n1}
  Topics = {t1, t2}
  NoNodes = n0
  OwnTopic = t1
  Intervals = {1}
  MAX_REINIT_AFTER = 2
  MaxOid = 1
  MaxChanges = 0
  MaxFailures = 0
  MaxCrashes = 0
  MaxReloads = 0
  MaxRegistrations = 1
PROPERTIES
  AlwaysRecoversFromIsolation
