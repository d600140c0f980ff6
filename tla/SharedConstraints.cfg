\* Two handlers of one replica and one of another, which may have run for a second
\* longer; a fault and a constraint.
SPECIFICATION Spec
CONSTANTS
  r1 = r1
  r2 = r2
  t1 = t1
  t2 = t2
  t3 = t3
  delta_hdfc = delta_hdfc
  echo_all = echo_all
  Nothing = Nothing
  Replicas = {r1, r2}
  Threads = {t1, t2, t3}
  Home <- TwoAndOne
  Paths = {delta_hdfc}
  Ttl = 2
  SecondsPerTick = 1
  RefreshSeconds = 1
  MaxHeadStart = 1
  MaxClock = 2
  MaxAdds = 1
  MaxFaults = 1
SYMMETRY ThreadSymmetry
INVARIANTS
  TypeOK
  GovernsByOwnClock
  VisibleByOwnClock
  KeysReachEveryReplica
  KeptUnlessSlow
