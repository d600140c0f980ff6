\* Two investigations over five ticks with a TTL of two: constraints overlap,
\* expire and are renewed, and may cover the whole fleet.
SPECIFICATION Spec
CONSTANTS
  alpha = alpha
  delta = delta
  phantom = phantom
  hdfc = hdfc
  icici = icici
  HDFC = HDFC
  Hdfc = Hdfc
  ICICI = ICICI
  Absent = Absent
  Gateways = {alpha, delta}
  Issuers = {hdfc, icici}
  Spellings <- MCSpellings
  Canonical <- MCCanonical
  Ttl = 2
  Diagnoses <- MCDiagnoses
  Canary <- SomeCanary
  MaxTick = 4
  MaxInvestigations = 2
INVARIANTS
  TypeOK
  EveryBlockJustified
PROPERTIES
  EveryFindingHonoured
