CONSTANTS
  DualBand = TRUE
  Passwords = {p, q}
  Scans <- MCScans
  Faults = {"join", "spawn5", "stuck5", "power"}
  MaxCommands = 2
  Hurried = FALSE
  Releases <- MCReleases
  FirstDisk <- MCDisk
  Keep = 1
  MaxFlows = 2
SPECIFICATION Spec
INVARIANTS FlowTypeOK ChannelOnBand
PROPERTIES StaysReachable FlowReports RollbackKept
CHECK_DEADLOCK FALSE
