CONSTANTS
  DualBand = TRUE
  Passwords = {p, q}
  Scans <- MCScans
  Faults = {"join", "spawn5", "power"}
  MaxCommands = 1
  Hurried = FALSE
  Releases <- MCReleases
  FirstDisk <- MCDisk
  Keep = 1
  MaxFlows = 0
SPECIFICATION Spec
INVARIANT PasswordInForce
CHECK_DEADLOCK FALSE
