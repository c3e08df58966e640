\* A command whose prerequisite failed (violated).
SPECIFICATION Spec
CONSTANTS
  Nodes = {n1}
  NoNode = NoNode
  CertNodes = {}
  Ports = {1}
  Window = 2
  MaxPlans = 1
  MaxRevision = 1
  MaxRequests = 1
  MaxFaults = 0
INVARIANTS NoDependentEscapes
CHECK_DEADLOCK FALSE
