SPECIFICATION Spec
CONSTANTS
  Workers = {w1, w2}
  Deployments = {{}}
  Conns = {c1, c2}
  MaxConnections = 1
  UsesStore = FALSE
  StopAnytime = TRUE
  Maintenance = FALSE
  TimesOut = FALSE
  NoWorker = NoWorker
CHECK_DEADLOCK FALSE
INVARIANTS ListenerStaysClosed
