SPECIFICATION LocatorSpec
CONSTANTS
  logger = logger
  store = store
  t1 = t1
  t2 = t2
  NoLifetime = NoLifetime
  Thread = {t1, t2}
  Service <- Services
  Needs <- Chain
  Offered <- AnyLifetime
  MaxScopes = 1
INVARIANTS
  SingletonsCanDepend
