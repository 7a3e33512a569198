SPECIFICATION FairSpec
CONSTANTS
  w1 = w1
  w2 = w2
  id1 = id1
  Watches = {w1}
  AuthId = auth
  StanzaIds = {id1}
  NoWatch = NoWatch
  NoId = NoId
  AppOps = {"connect", "run", "disconnect", "free", "filter"}
  HookOps = {}
  SaslOffers <- GoodSaslOffers
  SessionOffers <- GoodSessionOffers
  MaxConnects = 2
  MaxQueue = 2
PROPERTY SessionResolves
CHECK_DEADLOCK FALSE
