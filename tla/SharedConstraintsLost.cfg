\* Two handlers of one replica: a refresh that Redis delays overlaps the next, and an
\* investigation adds in between.
SPECIFICATION Spec
CONSTANTS
  r1 = r1
  r2 = r2
  t1 = t1
  t2 = t2
  t3 = t3
  delta_hdfc = delta_hdfc
  echo_all = echo_all
  Nothing = Nothing
  Replicas = {r1}
  Threads = {t1, t2}
  Home <- TwoOnOne
  Paths = {delta_hdfc}
  Ttl = 2
  SecondsPerTick = 1
  RefreshSeconds = 1
  MaxHeadStart = 0
  MaxClock = 2
  MaxAdds = 1
  MaxFaults = 0
INVARIANT
  AddedIsKept
