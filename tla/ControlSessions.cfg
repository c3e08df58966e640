\* Two commands, overlapping sessions, one fault; no deadline and no second revision.
SPECIFICATION Spec
CONSTANTS
  Sessions = {s1, s2}
  NoSession = NoSession
  Dispatchers = {}
  MaxCommands = 2
  MaxTasks = 0
  MaxRevision = 2
  MaxLate = 0
  MaxFaults = 1
SYMMETRY SessionSymmetry
INVARIANTS TypeOK SucceededWasDone OutcomesAgree QuiescentNodeIsDecided
PROPERTIES AppliedNeverRegresses
CHECK_DEADLOCK FALSE
