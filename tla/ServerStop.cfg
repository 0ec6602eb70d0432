SPECIFICATION FairSpec
CONSTANTS
  Workers = {w1, w2}
  Deployments = {{}, {w2}, {w1, w2}}
  Conns = {c1, c2}
  MaxConnections = 1
  UsesStore = FALSE
  StopAnytime = FALSE
  Maintenance = TRUE
  TimesOut = FALSE
  NoWorker = NoWorker
CHECK_DEADLOCK FALSE
INVARIANTS ListenerStaysClosed
PROPERTIES StopReturns DrainReturns
