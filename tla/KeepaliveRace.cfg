\* A keepalive between the two transactions of a reconcile.
SPECIFICATION Spec
CONSTANTS
  scan = scan
  laser = laser
  image = image
  None = None
  Topics = {scan}
  Types = {laser, image}
  Loadable = {laser}
  TtlEnabled = TRUE
  MaxRegistrations = 1
  MaxMessages = 0
  MaxFailures = 0
  MaxRestarts = 0
PROPERTIES
  KeepaliveRespected
