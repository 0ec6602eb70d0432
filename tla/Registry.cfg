SPECIFICATION Spec
CONSTANTS
  Servers = {login, world}
  Interval = 5
  Ttl = 15
  Delay = 1
  MissCap = 2
  CalmCap = 17
INVARIANTS TypeOK DeadVanishes LivingStaysListed Relisted
