SPECIFICATION Spec
CONSTANTS
  Threads = {t1, t2, t3}
  ticket = ticket
  world = world
  Keys <- MCKeys
  Values = {a}
  Prefixes = {"", "world:"}
  KeysUnder <- MCKeysUnder
  MaxTtl = 1
  NoThread = NoThread
INVARIANTS TypeOK ListBounds
PROPERTIES SingleUse ImplementsTtlMap
