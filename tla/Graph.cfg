\* Reinstallation, failed queries, crashes, rebuilding, backoff, reloads and the
\* worker's own subscription, with liveness.
SPECIFICATION FairSpec
CONSTANTS
  n0 = n0
  n1 = n1
  t1 = t1
  t2 = t2
  None = None
  NodeLists = {n0, n1}
  Topics = {t1}
  NoNodes = n0
  OwnTopic = t1
  Intervals = {0, 1}
  MAX_REINIT_AFTER = 2
  MaxOid = 2
  MaxChanges = 1
  MaxFailures = 1
  MaxCrashes = 1
  MaxReloads = 1
  MaxRegistrations = 1
INVARIANTS
  TypeOK
  FilledTablesMatchMemory
  CleanStatusIsCurrentUnlessReinstalled
PROPERTIES
  NoRedundantWrite
  RebuildsOnlyWhenEmpty
  
  Converges
  RecoversFromIsolation
  
