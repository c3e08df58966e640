\* A validated Node that runs another configuration (violated).
SPECIFICATION Spec
CONSTANTS
  Sessions = {s1, s2}
  NoSession = NoSession
  Dispatchers = {}
  MaxCommands = 1
  MaxTasks = 1
  MaxRevision = 2
  MaxLate = 0
  MaxFaults = 1
INVARIANTS DesiredStateRecovers
CHECK_DEADLOCK FALSE
