\* Two Nodes published and retried, two commands at a time.
SPECIFICATION Spec
CONSTANTS
  Nodes = {n1, n2}
  NoNode = NoNode
  CertNodes = {}
  Ports = {1, 2}
  Window = 2
  MaxPlans = 1
  MaxRevision = 2
  MaxRequests = 3
  MaxFaults = 1
SYMMETRY NodeSymmetry
INVARIANTS TypeOK PublishedMachineIsWhole QuietNodesAreDecided QuietMachineIsDecided
PROPERTIES PublishedPortFixed
CHECK_DEADLOCK FALSE
