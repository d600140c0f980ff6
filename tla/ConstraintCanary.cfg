\* Two findings against one gateway: a canary roll passes for one, not the other.
SPECIFICATION Spec
CONSTANTS
  alpha = alpha
  delta = delta
  phantom = phantom
  hdfc = hdfc
  icici = icici
  HDFC = HDFC
  Hdfc = Hdfc
  ICICI = ICICI
  Absent = Absent
  Gateways = {alpha, delta}
  Issuers = {hdfc, icici}
  Spellings <- MCSpellings
  Canonical <- MCCanonical
  Ttl = 2
  Diagnoses <- MCDiagnoses
  Canary <- SomeCanary
  MaxTick = 4
  MaxInvestigations = 2
INVARIANT
  ReleasedReachesGateway
