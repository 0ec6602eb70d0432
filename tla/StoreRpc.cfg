SPECIFICATION FairSpec
CONSTANTS
  Callers = {login, stranger}
  Strangers = {stranger}
  Keys = {k}
  Values = {v}
  Conns = {c1, c2}
  Capacity = 1
  NoConn = NoConn
INVARIANTS TypeOK
PROPERTIES ImplementsCalls CallEnds
