SPECIFICATION LoadSpec
CONSTANTS
  Threads = {t1}
  Self = t1
  MaxMsgs = 12
  Heads <- SomeHeads
  Kids <- SomeKids
  MaxKids = 2
INVARIANT NoInvalidPerson
