\* A replica that restarts reads its own constraint back.
SPECIFICATION Spec
CONSTANTS
  r1 = r1
  r2 = r2
  t1 = t1
  t2 = t2
  t3 = t3
  delta_hdfc = delta_hdfc
  echo_all = echo_all
  Nothing = Nothing
  Replicas = {r1, r2}
  Threads = {t1, t2}
  Home <- OneThreadEach
  Paths = {delta_hdfc}
  Ttl = 4
  SecondsPerTick = 1
  RefreshSeconds = 1
  MaxHeadStart = 0
  MaxClock = 5
  MaxAdds = 1
  MaxFaults = 1
INVARIANT
  SurvivesRestart
