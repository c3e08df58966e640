\* One Node, two plans, one request about it, one fault, one event on the host.
SPECIFICATION FairSpec
CONSTANTS
  Nodes <- MCNodes
  MaxPlans = 2
  MaxRequests = 1
  MaxFaults = 1
  MaxEvents = 1
INVARIANTS TypeOK OwnInstallIsRecorded OwnershipAgrees PendingPlanIsWorkedOn
PROPERTIES OthersWarpIsUntouched OutageIsNoticed
CHECK_DEADLOCK FALSE
