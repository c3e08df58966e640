\* Two units, a reset and a fault, under fairness.
SPECIFICATION FairSpec
CONSTANTS
  Users = {u1}
  Nodes = {n1}
  Idle = Idle
  MaxUnits = 2
  IgnoreBelow = 1
  Limits = {0, 2}
  Same = Same
  Created <- ActiveOnly
  Changes <- Raised
  MaxRequests = 1
  MaxFaults = 1
INVARIANTS RecordedOnce ChargedOnce NothingLeavesHistory NothingLeavesCharges ResetHolds LimitedIsOver
PROPERTIES UsageIsCharged OverIsLimited
CHECK_DEADLOCK FALSE
