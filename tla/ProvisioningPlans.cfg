\* Two plans for two Nodes, one of them with a certificate, one command at a time.
SPECIFICATION Spec
CONSTANTS
  Nodes = {n1, n2}
  NoNode = NoNode
  CertNodes = {n1}
  Ports = {1}
  Window = 1
  MaxPlans = 2
  MaxRevision = 2
  MaxRequests = 3
  MaxFaults = 1
INVARIANTS PendingPlanIsDiscovered EnabledHostIsServed
CHECK_DEADLOCK FALSE
