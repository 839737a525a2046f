\* One topic of two types; safety and liveness.
SPECIFICATION FairSpec
CONSTANTS
  scan = scan
  laser = laser
  image = image
  None = None
  Topics = {scan}
  Types = {laser, image}
  Loadable = {laser, image}
  TtlEnabled = TRUE
  MaxRegistrations = 2
  MaxMessages = 2
  MaxFailures = 1
  MaxRestarts = 1
INVARIANTS
  TypeOK
  CachedMessageHasSubscription
  ShownTypeIsSubscribedType
PROPERTIES
  StopsOnlyUnwanted
  
  ServedOrExplained
  EventuallyLive
  EventuallyStopped
  
