\* An update that removes the final grant and tells nobody (violated).
SPECIFICATION Spec
CONSTANTS
  Users = {u1}
  Squads = {s1, s2}
  Nodes = {n1}
  Admins = {a1, a2}
  Workers = {w1, w2}
  Idle = Idle
  MaxRequests = 2
  MaxFaults = 1
INVARIANTS FinalGrantRemoves
SYMMETRY Symmetry
CHECK_DEADLOCK FALSE
