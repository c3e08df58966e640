\* Two instances, two ports, every command, two faults.
SPECIFICATION Spec
CONSTANTS
  Instances = {i1, i2}
  Reality = {i1}
  Ports = {p1, p2}
  Versions = {v1}
  MaxRevision = 2
  MaxCommands = 4
  MaxFaults = 2
SYMMETRY PortSymmetry
INVARIANTS ReportedIsServed MaterialIsKept StoppedStaysStopped RolledBackToApplied
CHECK_DEADLOCK FALSE
