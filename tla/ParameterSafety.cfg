\* Two nodes, reinstallation, failures and restarts.
SPECIFICATION Spec
CONSTANTS
  p = p
  q = q
  gain = gain
  low = low
  None = None
  NotSet = NotSet
  Peers = {p, q}
  Names = {gain}
  Values = {low}
  MaxOid = 2
  MaxChanges = 1
  MaxFailures = 1
  MaxSlow = 0
  MaxRestarts = 1
INVARIANTS
  TypeOK
  FilledTableMatchesMemory
  CleanStatusIsCurrentUnlessReinstalled
PROPERTIES
  OnlyCompletePollsReachTable
  
