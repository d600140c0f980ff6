\* A row appended to the list a flush has just taken.
SPECIFICATION Spec
CONSTANTS
  t1 = t1
  t2 = t2
  Nothing = Nothing
  Threads = {t1, t2}
  MaxFaults = 1
  BatchSize = 2
  Interval = 3
  SaveSeconds = 1
  MaxClock = 4
  MaxOutcomes = 3
INVARIANT
  NothingDropped
