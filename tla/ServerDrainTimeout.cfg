SPECIFICATION FairSpec
CONSTANTS
  Workers = {w1}
  Deployments = {{}}
  Conns = {c1, c2}
  MaxConnections = 1
  UsesStore = FALSE
  StopAnytime = FALSE
  Maintenance = TRUE
  TimesOut = TRUE
  NoWorker = NoWorker
CHECK_DEADLOCK FALSE
PROPERTIES DrainHonoursTimeout
