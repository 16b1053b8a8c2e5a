SPECIFICATION Spec
CONSTANTS
  Req = {r1, r2}
  Token = {t1, t2}
  None = None
  AuthTTL = 2
  NegTTL = 1
  AuthTimeout = 1
  Cap = 0
  ChannelTTL = 2
  RetryEvery = 1
  FetchTimeout = 1
  MaxChanges = 2
SYMMETRY Symmetry
INVARIANTS TypeOK RevocationHolds RefusalPasses
PROPERTIES NoStampede NamesAreCurrent
