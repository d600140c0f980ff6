SPECIFICATION Spec
CONSTANTS
  Gateways = {1, 2}
  Issuers = {1, 2}
  MIN_SAMPLES = 1
  HEALTHY_SR = 90
  COLLAPSE_SR = 55
  MIN_CONFIDENCE = 60
  Transactions = 6
  n_ticks = 5
  LOOKBACK_MINUTES = 3
  Ttl = 3
  detect_ticks <- MCDetect
  CaseWindow <- MCCaseWindow
  Canary = {TRUE, FALSE}
  Weighted = {2}
CHECK_DEADLOCK FALSE
INVARIANTS
  DiagnosesFitWindow
  BlocksHonoured
