\* A row deleted before a crash or a rebuild was noticed.
SPECIFICATION FairSpec
CONSTANTS
  scan = scan
  laser = laser
  image = image
  None = None
  Topics = {scan}
  Types = {laser, image}
  Loadable = {laser}
  TtlEnabled = FALSE
  MaxRegistrations = 1
  MaxMessages = 1
  MaxFailures = 0
  MaxRestarts = 1
PROPERTIES
  EventuallyUncached
