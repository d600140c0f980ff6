SPECIFICATION Spec
CONSTANTS
  request = request
  other = other
  Sessions <- MCSessions
  Programs <- MCPrograms
  Arms <- MCArms
  Environments <- MCEnvironments
  Manifests <- MCManifests
  Registry = {"v1", "v2"}
  DEFAULT_VERSION = "v2"
  MaxEdits = 1
  MaxFaults = 2
  Patterns = 1
  MinSupport = 2
  Passes = 3
  Cases = 1
  Volumes = 2
INVARIANTS
  InvestigationsAccounted
  FaultCostsOneTrace
  ProvenanceSuffices
  SemanticBacked
  NothingLeftOpen
CHECK_DEADLOCK FALSE
