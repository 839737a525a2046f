\* Two calls, a queue of two, more messages than fit; a type that does not load.
SPECIFICATION FairSpec
CONSTANTS
  laser = laser
  image = image
  None = None
  Types = {laser, image}
  Loadable = {laser}
  QUEUE = 2
  BATCH = 2
  MaxCalls = 2
  MaxMessages = 4
  MaxChanges = 2
INVARIANTS
  TypeOK
  EveryMessageAccounted
  NothingWaits
PROPERTIES
  ImplementsChannel
  LossesAreReported
  SubscribesEventually
CHECK_DEADLOCK FALSE
