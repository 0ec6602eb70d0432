SPECIFICATION FairSpec
CONSTANTS
  Workers = {w1}
  Deployments = {{}}
  Conns = {c1, c2}
  MaxConnections = 1
  UsesStore = TRUE
  StopAnytime = FALSE
  Maintenance = FALSE
  TimesOut = FALSE
  NoWorker = NoWorker
CHECK_DEADLOCK FALSE
PROPERTIES StopReturns
