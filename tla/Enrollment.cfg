\* Two hosts, two tokens, two runs of the command on each.
SPECIFICATION Spec
CONSTANTS
  Hosts = {h1, h2}
  NoHost = NoHost
  MaxTokens = 2
  MaxRuns = 2
SYMMETRY HostSymmetry
INVARIANTS TokenIsSpentOnce InstalledIsTrusted IssuedIsResumable
PROPERTIES LostResponseIsReplayed
CHECK_DEADLOCK FALSE
