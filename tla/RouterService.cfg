\* Two threads, four requests, a history of two rows: writers, readers and
\* trimming interleave, and the third outcome drops the first.
SPECIFICATION FairSpec
CONSTANTS
  t1 = t1
  t2 = t2
  alpha = alpha
  beta = beta
  phantom = phantom
  HDFC = HDFC
  ICICI = ICICI
  other = other
  Nobody = Nobody
  Nothing = Nothing
  Threads = {t1, t2}
  Gateways = {alpha, beta}
  Issuers = {HDFC, ICICI}
  DefaultIssuer = HDFC
  Reports <- MCReports
  HistoryLimit = 2
  MaxTick = 1
  MaxRequests = 4
INVARIANTS
  TypeOK
  HistoryMatchesPosterior
  TicksInOrder
  CopiesAreWhole
  DecisionsSeeWholeUpdates
  NoDecisionLost
  PublishedExactlyOnce
PROPERTIES
  ImplementsOutcomeLog
  EveryRequestAnswered
