\* A topic deleted and registered again between two reconciles.
SPECIFICATION Spec
CONSTANTS
  scan = scan
  laser = laser
  image = image
  None = None
  Topics = {scan}
  Types = {laser, image}
  Loadable = {laser}
  TtlEnabled = FALSE
  MaxRegistrations = 2
  MaxMessages = 1
  MaxFailures = 0
  MaxRestarts = 0
INVARIANTS
  NoStaleMessage
