SPECIFICATION FairSpec
CONSTANTS
  w1 = w1
  w2 = w2
  id1 = id1
  Watches = {w1, w2}
  AuthId = auth
  StanzaIds = {id1}
  NoWatch = NoWatch
  NoId = NoId
  AppOps = {"connect", "run", "disconnect", "free", "filter"}
  HookOps = {"filter"}
  SaslOffers <- GoodSaslOffers
  SessionOffers <- GoodSessionOffers
  MaxConnects = 1
  MaxQueue = 2
INVARIANT RequestsFitPhase
PROPERTIES SessionResolves AnswerReachesWatcher LossEndsLoop
CHECK_DEADLOCK FALSE
