\* One command replaced by a second revision, an HTTP dispatch, every deadline,
\* one fault, and fairness; no symmetry, one property is temporal.
SPECIFICATION FairSpec
CONSTANTS
  Sessions = {s1}
  NoSession = NoSession
  Dispatchers = {d1}
  MaxCommands = 1
  MaxTasks = 1
  MaxRevision = 2
  MaxLate = 2
  MaxFaults = 1
INVARIANTS UnchangedPayloadRan
PROPERTIES QueueSpec EveryCommandSettles
CHECK_DEADLOCK FALSE
