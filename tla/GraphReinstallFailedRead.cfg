\* A failed discovery right after an unobserved reinstallation.
SPECIFICATION Spec
CONSTANTS
  n0 = n0
  n1 = n1
  t1 = t1
  t2 = t2
  None = None
  NodeLists = {n0, n1}
  Topics = {t1}
  NoNodes = n0
  OwnTopic = t1
  Intervals = {0}
  MAX_REINIT_AFTER = 1
  MaxOid = 2
  MaxChanges = 1
  MaxFailures = 1
  MaxCrashes = 0
  MaxReloads = 0
  MaxRegistrations = 0
INVARIANTS
  CleanStatusIsCurrent
