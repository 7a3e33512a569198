SPECIFICATION Spec
CONSTANTS
  w1 = w1
  w2 = w2
  id1 = id1
  Watches = {w1, w2}
  AuthId = auth
  StanzaIds = {id1, auth}
  NoWatch = NoWatch
  NoId = NoId
  AppOps = {"connect", "run", "disconnect", "free", "filter"}
  HookOps = {"filter"}
  SaslOffers <- AllSaslOffers
  SessionOffers <- AllSessionOffers
  MaxConnects = 2
  MaxQueue = 2
SYMMETRY WatchSymmetry
INVARIANTS TypeOK FramesLive RulesMatchWatches OneStream
PROPERTY ImplementsSession
CHECK_DEADLOCK FALSE
