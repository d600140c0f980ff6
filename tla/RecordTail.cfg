\* Two threads, three outcomes, batches of two: two threads may be in a flush and in
\* a save at once; one fault, of any kind, at any point.
SPECIFICATION Spec
CONSTANTS
  t1 = t1
  t2 = t2
  Nothing = Nothing
  Threads = {t1, t2}
  MaxFaults = 1
  BatchSize = 2
  Interval = 3
  SaveSeconds = 1
  MaxClock = 4
  MaxOutcomes = 3
SYMMETRY Symmetry
INVARIANTS
  NoRowTwice
  FullBatchIsSent
  CountedOnce
  SnapshotKeepsUp
  CleanStopKeepsAll
