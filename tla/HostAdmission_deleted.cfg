SPECIFICATION ApprovingSpec
CONSTANTS
  Hosts = {h1}
  Calls = {c1, c2}
  AdminOps <- NoReject
  MaxFaults = 0
  None = None
PROPERTIES ApprovalTakesEffect
