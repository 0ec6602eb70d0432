SPECIFICATION Spec
CONSTANTS
  Workers = {w1, w2}
  Deployments = {{}, {w1}, {w2}, {w1, w2}}
  Conns = {c1, c2, c3}
  MaxConnections = 1
  UsesStore = TRUE
  StopAnytime = TRUE
  Maintenance = TRUE
  TimesOut = TRUE
  NoWorker = NoWorker
SYMMETRY Symmetry
CHECK_DEADLOCK FALSE
INVARIANTS TypeOK CountExact OvershootBounded StoppedIsQuiet CloseReachesEarlier
